------------------------------- MODULE Vhosts -------------------------------
(***************************************************************************)
(* Virtual hosts of one machine (agent/internal/webserver/nginx.go): the   *)
(* commands CreateVhost, DeleteVhost and RestartService, each in a         *)
(* goroutine of its own (handleCommand), over the two nginx directories    *)
(* they all share.                                                         *)
(*                                                                         *)
(* A step is one file operation or one external command.  nginx itself is  *)
(* external: "nginx -t", a reload and a start read every file linked from  *)
(* sites-enabled, and accept all of them or fail.                          *)
(***************************************************************************)
EXTENDS Naturals

CONSTANTS
  Domains,
  Ops,          \* commands received; also the content that a create writes
  Overlaps,     \* which commands the API sends before the last one is done:
                \* "other": for another domain; "same": for the same domain
  Faults,       \* "io": a file operation or program may fail;
                \* "crash": the agent may die or be restarted
  None

\* Content of a config file whose write failed half-way: cut short, or empty.
Torn  == "torn"
Blank == "blank"

ASSUME ConstantsOK ==
  /\ Overlaps \subseteq {"same", "other"}
  /\ Faults \subseteq {"io", "crash"}
  /\ {None, Torn, Blank} \cap Ops = {}
  /\ None \notin {Torn, Blank}
  /\ None \notin Domains

VARIABLES
  conf,         \* sites-available: the content of each domain's file
  link,         \* sites-enabled: the domains that have a link
  slipped,      \* history: a failure went unnoticed or was not cleaned up
  up,           \* nginx runs
  loaded,       \* the configs that nginx serves
  pc,           \* where each command is, or how it returned
  kind, dom,    \* what each command is, and for which domain
  sound,        \* whether nginx accepts the config that a create writes
  last,         \* the last command begun for each domain
  was           \* the files of its domain when a command began

disk  == <<conf, link, slipped>>
nginx == <<up, loaded>>
cmds  == <<kind, dom, sound, last, was>>
vars  == <<disk, nginx, pc, cmds>>

Files == Ops \cup {Torn, Blank, None}
Busy  == {"write", "unlink", "enable", "test", "disable", "discard",
          "droplink", "dropconf", "reload", "restart"}
Ended == {"ok", "failed", "rejected", "lost"}

OnDisk(d) == <<conf[d], link \cap {d}>>

TypeOK ==
  /\ conf \in [Domains -> Files]
  /\ link \subseteq Domains
  /\ slipped \in BOOLEAN
  /\ up \in BOOLEAN
  /\ loaded \in [Domains -> Ops \cup {None}]
  /\ pc \in [Ops -> {"idle"} \cup Busy \cup Ended]
  /\ kind \in [Ops -> {"none", "create", "delete", "restart"}]
  /\ dom \in [Ops -> Domains \cup {None}]
  /\ sound \in [Ops -> BOOLEAN]
  /\ last \in [Domains -> Ops \cup {None}]
  /\ was \in [Ops -> (Files \X SUBSET Domains) \cup {None}]

Init ==
  /\ conf = [d \in Domains |-> None]
  /\ link = {}
  /\ slipped = FALSE
  /\ up = TRUE
  /\ loaded = [d \in Domains |-> None]
  /\ pc = [o \in Ops |-> "idle"]
  /\ kind = [o \in Ops |-> "none"]
  /\ dom = [o \in Ops |-> None]
  /\ sound = [o \in Ops |-> TRUE]
  /\ last = [d \in Domains |-> None]
  /\ was = [o \in Ops |-> None]

Goto(o, l) == pc' = [pc EXCEPT ![o] = l]

-----------------------------------------------------------------------------
(* nginx.                                                                  *)

\* nginx accepts the directory: no link dangles, no file is malformed.
Valid ==
  \A d \in link : conf[d] = Blank \/ (conf[d] \in Ops /\ sound[conf[d]])

\* The sites that the directory defines.
Enabled ==
  [d \in Domains |->
     IF d \in link /\ conf[d] \in Ops THEN conf[d] ELSE None]

-----------------------------------------------------------------------------
(* Commands.                                                               *)

\* What the API lets overlap with the commands in progress.
MayBegin(d) ==
  \A p \in Ops :
    pc[p] \in Busy =>
      (IF dom[p] = d /\ d # None THEN "same" ELSE "other") \in Overlaps

Receive(o, k, d, s) ==
  /\ pc[o] = "idle"
  /\ MayBegin(d)
  /\ kind' = [kind EXCEPT ![o] = k]
  /\ dom' = [dom EXCEPT ![o] = d]
  /\ sound' = [sound EXCEPT ![o] = s]
  /\ UNCHANGED <<disk, nginx>>

\* CreateVhost begins and makes the docroot, which may fail.  Whether nginx
\* will accept the rendered config depends on the docroot, the aliases and the
\* PHP version of the request.
BeginCreate(o, d, s) ==
  /\ Receive(o, "create", d, s)
  /\ last' = [last EXCEPT ![d] = o]
  /\ was' = [was EXCEPT ![o] = OnDisk(d)]
  /\ \/ Goto(o, "write")
     \/ "io" \in Faults /\ Goto(o, "failed")

BeginDelete(o, d) ==
  /\ Receive(o, "delete", d, TRUE)
  /\ last' = [last EXCEPT ![d] = o]
  /\ was' = [was EXCEPT ![o] = OnDisk(d)]
  /\ Goto(o, "droplink")

BeginRestart(o) ==
  /\ Receive(o, "restart", None, TRUE)
  /\ Goto(o, "restart")
  /\ UNCHANGED <<last, was>>

\* WriteFile replaces the file.  When it fails, the file is as before, cut
\* short or empty; CreateVhost returns the error and leaves it so.
WriteConf(o) ==
  /\ pc[o] = "write"
  /\ \/ /\ conf' = [conf EXCEPT ![dom[o]] = o]
        /\ Goto(o, "unlink")
        /\ UNCHANGED slipped
     \/ /\ "io" \in Faults
        /\ \E x \in {conf[dom[o]], Torn, Blank} :
             /\ conf' = [conf EXCEPT ![dom[o]] = x]
             /\ slipped' = (slipped \/ x = Torn)
        /\ Goto(o, "failed")
  /\ UNCHANGED <<link, nginx, cmds>>

\* os.Remove with its error ignored: the file may stay.
RemoveLink(d) ==
  \/ link' = link \ {d} /\ UNCHANGED slipped
  \/ "io" \in Faults /\ UNCHANGED link /\ slipped' = TRUE

RemoveConf(d) ==
  \/ conf' = [conf EXCEPT ![d] = None]
  \/ "io" \in Faults /\ UNCHANGED conf

\* "Remove stale symlink if it exists".
RemoveStaleLink(o) ==
  /\ pc[o] = "unlink"
  /\ RemoveLink(dom[o])
  /\ Goto(o, "enable")
  /\ UNCHANGED <<conf, nginx, cmds>>

\* Symlink fails when another command has made the link meanwhile.
EnableSite(o) ==
  /\ pc[o] = "enable"
  /\ \/ /\ dom[o] \notin link
        /\ link' = link \cup {dom[o]}
        /\ Goto(o, "test")
     \/ /\ dom[o] \in link \/ "io" \in Faults
        /\ Goto(o, "failed")
        /\ UNCHANGED link
  /\ UNCHANGED <<conf, slipped, nginx, cmds>>

\* nginx -t, over the files of all domains.
TestConfig(o) ==
  /\ pc[o] = "test"
  /\ \/ Valid /\ Goto(o, "reload")
     \/ (~Valid \/ "io" \in Faults) /\ Goto(o, "disable")
  /\ UNCHANGED <<disk, nginx, cmds>>

\* Variant of DisableSite: the rollback forgets the link.
DisableSiteNot(o) ==
  /\ pc[o] = "disable"
  /\ Goto(o, "discard")
  /\ UNCHANGED <<disk, nginx, cmds>>

\* The rollback removes the link ...
DisableSite(o) ==
  /\ pc[o] = "disable"
  /\ RemoveLink(dom[o])
  /\ Goto(o, "discard")
  /\ UNCHANGED <<conf, nginx, cmds>>

\* ... and the file, whatever it held before the command.
DiscardConf(o) ==
  /\ pc[o] = "discard"
  /\ RemoveConf(dom[o])
  /\ Goto(o, "rejected")
  /\ UNCHANGED <<link, slipped, nginx, cmds>>

\* DeleteVhost removes the link, whatever comes of it,
DropLink(o) ==
  /\ pc[o] = "droplink"
  /\ RemoveLink(dom[o])
  /\ Goto(o, "dropconf")
  /\ UNCHANGED <<conf, nginx, cmds>>

\* and the file; that it does not exist is not an error.
DropConf(o) ==
  /\ pc[o] = "dropconf"
  /\ \/ conf' = [conf EXCEPT ![dom[o]] = None] /\ Goto(o, "reload")
     \/ "io" \in Faults /\ Goto(o, "failed") /\ UNCHANGED conf
  /\ UNCHANGED <<link, slipped, nginx, cmds>>

\* Variant of ReloadNginx: an error is not returned.
ReloadNginxIgnored(o) ==
  /\ pc[o] = "reload"
  /\ Goto(o, "ok")
  /\ IF up /\ Valid THEN loaded' = Enabled ELSE UNCHANGED loaded
  /\ UNCHANGED <<disk, up, cmds>>

\* systemctl reload nginx: fails, and changes nothing, when nginx does not run
\* or does not accept the directory.  The files stay as they are.
ReloadNginx(o) ==
  /\ pc[o] = "reload"
  /\ \/ /\ up /\ Valid
        /\ loaded' = Enabled
        /\ Goto(o, "ok")
     \/ /\ ~(up /\ Valid) \/ "io" \in Faults
        /\ Goto(o, "failed")
        /\ UNCHANGED loaded
  /\ UNCHANGED <<disk, up, cmds>>

\* systemctl restart nginx: the running nginx is stopped first.
RestartService(o) ==
  /\ pc[o] = "restart"
  /\ \/ /\ Valid
        /\ up' = TRUE
        /\ loaded' = Enabled
        /\ Goto(o, "ok")
     \/ /\ ~Valid \/ "io" \in Faults
        /\ up' = FALSE
        /\ loaded' = [d \in Domains |-> None]
        /\ Goto(o, "failed")
  /\ UNCHANGED <<disk, cmds>>

\* The agent dies: commands in progress end where they are.
AgentRestart ==
  /\ "crash" \in Faults
  /\ \E o \in Ops : pc[o] \in Busy
  /\ pc' = [o \in Ops |-> IF pc[o] \in Busy THEN "lost" ELSE pc[o]]
  /\ slipped' = TRUE
  /\ UNCHANGED <<conf, link, nginx, cmds>>

-----------------------------------------------------------------------------
CreateStep(o) ==
  \/ WriteConf(o)
  \/ RemoveStaleLink(o)
  \/ EnableSite(o)
  \/ TestConfig(o)
  \/ DisableSite(o)
  \/ DiscardConf(o)

DeleteStep(o) == DropLink(o) \/ DropConf(o)

Next ==
  \/ \E o \in Ops :
       \/ \E d \in Domains :
            \/ \E s \in BOOLEAN : BeginCreate(o, d, s)
            \/ BeginDelete(o, d)
       \/ BeginRestart(o)
       \/ CreateStep(o)
       \/ DeleteStep(o)
       \/ ReloadNginx(o)
       \/ RestartService(o)
  \/ AgentRestart

Spec == Init /\ [][Next]_vars

-----------------------------------------------------------------------------
(* Properties.                                                             *)

\* While commands for one domain do not overlap: what nginx serves for it is
\* what the last successful command left, however the commands of other
\* domains fail, are rolled back, restart nginx or are cut off by a crash.
OutcomeServed ==
  \A d \in Domains :
    up /\ last[d] # None /\ pc[last[d]] = "ok" =>
      loaded[d] = IF kind[last[d]] = "create" THEN last[d] ELSE None

\* A command whose own config, which nginx refuses, is on the disk.
Trying(o) == ~sound[o] /\ pc[o] \in {"unlink", "test", "disable"}

\* "Roll back on bad config" (nginx.go): nginx accepts what is on the disk, so
\* that it can be restarted and a command is refused only for a config of its
\* own, except while a command tries a config that nginx refuses -- however
\* commands failed, unless the agent died in one, a config was cut short where
\* its site was enabled, or the removal of a link failed, the error that the
\* code ignores.
ValidUnlessTrying ==
  ~slipped /\ (\A o \in Ops : ~Trying(o)) => Valid

\* "Roll back on bad config" (nginx.go): a create that nginx -t refuses leaves
\* the files of its domain as it found them.
RollbackRestores ==
  [][\A o \in Ops :
       pc[o] = "discard" /\ pc'[o] = "rejected" => OnDisk(dom[o])' = was[o]]_vars

\* What the rollback does instead: it leaves no file of the domain, which
\* restores them just when there were none.
RollbackErases ==
  [][\A o \in Ops :
       pc[o] = "discard" /\ pc'[o] = "rejected" =>
         OnDisk(dom[o])' = <<None, {}>>]_vars
=============================================================================
