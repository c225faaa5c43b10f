----------------------------- MODULE VhostsInv -----------------------------
(***************************************************************************)
(* The inductive invariants behind OutcomeServed and ValidUnlessTrying.    *)
(* Both need that commands for one domain do not overlap.                  *)
(***************************************************************************)
EXTENDS Vhosts

IsSite(o) == kind[o] \in {"create", "delete"}

CreatePc == {"write", "unlink", "enable", "test", "disable", "discard",
             "reload", "ok", "failed", "rejected", "lost"}
DeletePc == {"droplink", "dropconf", "reload", "ok", "failed", "lost"}

\* A command is where commands of its kind can be.
PcOfKind ==
  \A o \in Ops :
    /\ pc[o] # "idle" => kind[o] # "none"
    /\ kind[o] = "create" => pc[o] \in CreatePc
    /\ kind[o] = "delete" => pc[o] \in DeletePc
    /\ kind[o] = "restart" => pc[o] \in {"restart", "ok", "failed", "lost"}
    /\ kind[o] = "none" => pc[o] = "idle"
    /\ IsSite(o) => dom[o] \in Domains

\* The last command of a domain is one of its own, and the only one that may
\* still be in progress.
LastIsOwn ==
  /\ \A d \in Domains :
       last[d] # None => dom[last[d]] = d /\ IsSite(last[d])
  /\ \A o \in Ops : pc[o] \in Busy /\ IsSite(o) => last[dom[o]] = o

\* Where the config that a create has written is in its place.
WrittenPc == {"unlink", "enable", "test", "disable", "reload", "ok"}

\* The files of a domain, given how far its last command is.
HasFiles(d, o) ==
  /\ kind[o] = "create" /\ pc[o] \in WrittenPc => conf[d] = o
  /\ kind[o] = "create" /\ pc[o] \in {"test", "reload", "ok"} => d \in link
  /\ kind[o] = "delete" /\ pc[o] \in {"reload", "ok"} => conf[d] = None
  /\ kind[o] = "delete" /\ pc[o] = "ok" => d \notin link

FilesFollow == \A d \in Domains : last[d] # None => HasFiles(d, last[d])

SInv == TypeOK /\ PcOfKind /\ LastIsOwn /\ FilesFollow /\ OutcomeServed

\* nginx accepts the file of the domain.
Sound(d) == conf[d] = Blank \/ (conf[d] \in Ops /\ sound[conf[d]])

\* A config on the disk is one that a command wrote.
ConfWritten == \A d \in Domains : conf[d] \in Ops => pc[conf[d]] # "idle"

\* While nothing has slipped: the file behind a link is sound, unless the last
\* command of the domain will still test it or remove the link.
Vouched(d, o) ==
  /\ pc[o] \in {"write", "droplink", "reload"} \cup Ended /\ d \in link =>
       Sound(d)
  /\ pc[o] \in {"enable", "discard", "dropconf"} => d \notin link

LinksVouched ==
  ~slipped => \A d \in Domains :
    IF last[d] = None THEN d \notin link ELSE Vouched(d, last[d])

VInv == SInv /\ ConfWritten /\ LinksVouched
=============================================================================
