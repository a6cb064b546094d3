---------------------------- MODULE PasskeyProof ----------------------------
(***************************************************************************)
(* scripts/homer-self-service-auth-proof.mjs: with one run id, its modes   *)
(* register a passkey for the actor on the security info page, and delete  *)
(* it there.  What it registers has a default name until the page takes    *)
(* the run's.  Modes inspect and observe change nothing but their files.   *)
(*                                                                         *)
(* External: the page shows the account as it is, Graph shows an earlier   *)
(* state of it for a while; the actor may add and remove passkeys herself. *)
(* A passkey is told from another by its number; the command that made a   *)
(* marked one is not remembered.                                           *)
(***************************************************************************)
EXTENDS Naturals, FiniteSets

CONSTANTS MaxPasskeys, MaxModes  \* bounds: passkeys made, commands

VARIABLES
  passkeys,   \* on the account: [n, mark], mark "run", "default" or "own"
  inventory,  \* what Graph lists
  numbered,   \* passkeys made so far
  mode,       \* the mode running, or "none"
  onPage,     \* where it is on the page
  target,     \* history: the passkeys that the look saw; then the one clicked on
  swapped,    \* history: those clicked on after a change since the look
  removed,    \* the passkeys a cleanup deleted
  modes       \* commands so far

passkeyVars == <<passkeys, inventory, numbered, mode, onPage, target, swapped, removed, modes>>
account == <<passkeys, inventory, numbered>>
clicked == <<target, swapped, removed>>

Init ==
  /\ passkeys = {} /\ inventory = {} /\ numbered = 0 /\ mode = "none" /\ onPage = "none"
  /\ target = {} /\ swapped = {} /\ removed = {} /\ modes = 0

Made(mark) ==
  /\ numbered < MaxPasskeys /\ numbered' = numbered + 1
  /\ passkeys' = passkeys \cup {[n |-> numbered + 1, mark |-> mark]}

\* The actor herself; Graph, some time later.
ActorAdds == Made("own") /\ UNCHANGED <<inventory, mode, onPage, clicked, modes>>
ActorRemoves ==
  /\ \E k \in passkeys : passkeys' = passkeys \ {k}
  /\ UNCHANGED <<inventory, numbered, mode, onPage, clicked, modes>>
GraphSees ==
  /\ inventory' = passkeys /\ inventory # passkeys
  /\ UNCHANGED <<passkeys, numbered, mode, onPage, clicked, modes>>

\* The preflight on what Graph lists: none to register, exactly the marked one
\* to clean up.
Listed(m) ==
  IF m = "register" THEN inventory = {}
                    ELSE Cardinality(inventory) = 1 /\ \A k \in inventory : k.mark = "run"
ModeStarts ==
  /\ mode = "none" /\ modes < MaxModes /\ modes' = modes + 1
  /\ \E m \in {"register", "cleanup"} :
       /\ Listed(m) /\ mode' = m /\ onPage' = "signing in"
  /\ UNCHANGED <<account, clicked>>

\* Any step may throw, or the process die: the browser goes, what was done stays.
ModeStops ==
  /\ mode # "none" /\ mode' = "none" /\ onPage' = "none"
  /\ UNCHANGED <<account, clicked, modes>>

SignsIn ==
  /\ onPage = "signing in" /\ onPage' = mode
  /\ UNCHANGED <<account, mode, clicked, modes>>

\* The authenticator's credential is made first, its name is given after.
Registers ==
  /\ mode = "register" /\ onPage = "register" /\ Made("default") /\ onPage' = "naming"
  /\ UNCHANGED <<inventory, mode, clicked, modes>>
Names ==
  /\ onPage = "naming"
  /\ LET k == [n |-> numbered, mark |-> "default"]
     IN  k \in passkeys /\ passkeys' = (passkeys \ {k}) \cup {[k EXCEPT !.mark = "run"]}
  /\ mode' = "none" /\ onPage' = "none"
  /\ UNCHANGED <<inventory, numbered, clicked, modes>>

\* The page must show the mark.  Then the one delete button there is clicked: the
\* locator is strict, and throws where two passkeys have one each.  Half a second
\* later the dialog for that passkey is confirmed.
Looks ==
  /\ onPage = "cleanup" /\ \E k \in passkeys : k.mark = "run"
  /\ onPage' = "looked" /\ target' = passkeys
  /\ UNCHANGED <<account, mode, swapped, removed, modes>>
OneButton == Cardinality(passkeys) = 1
Clicks ==
  /\ onPage = "looked" /\ OneButton
  /\ onPage' = "dialog" /\ target' = passkeys
  /\ swapped' = IF passkeys = target THEN swapped ELSE swapped \cup passkeys
  /\ UNCHANGED <<account, mode, removed, modes>>
Deletes ==
  /\ onPage = "dialog" /\ onPage' = "waiting"
  /\ passkeys' = passkeys \ target /\ removed' = removed \cup (passkeys \cap target)
  /\ UNCHANGED <<inventory, numbered, mode, target, swapped, modes>>

\* The mark must leave the page, and then every passkey must leave Graph.
Confirms ==
  /\ onPage = "waiting"
  /\ (\A k \in passkeys : k.mark # "run") /\ inventory = {}
  /\ mode' = "none" /\ onPage' = "none"
  /\ UNCHANGED <<account, clicked, modes>>

Next ==
  \/ ActorAdds \/ ActorRemoves \/ GraphSees \/ ModeStarts \/ ModeStops \/ SignsIn \/ Registers
  \/ Names \/ Looks \/ Clicks \/ Deletes \/ Confirms

Spec == Init /\ [][Next]_passkeyVars

-----------------------------------------------------------------------------
\* The variables have their types.
TypeOK ==
  LET Keys == [n : 1..MaxPasskeys, mark : {"run", "default", "own"}]
  IN  /\ passkeys \subseteq Keys /\ inventory \subseteq Keys
      /\ removed \subseteq Keys /\ target \subseteq Keys /\ swapped \subseteq Keys
      /\ numbered \in 0..MaxPasskeys /\ modes \in 0..MaxModes
      /\ mode \in {"none", "register", "cleanup"}
      /\ onPage \in {"none", "signing in", "register", "naming", "cleanup", "looked", "dialog",
                    "waiting"}

\* A cleanup deletes no passkey but one that carries the run's mark, though it
\* decides on Graph's late list, and the actor changes the account while it looks,
\* clicks and confirms: unless she changed it between the look and the click, which
\* goes to the only button there is then.
OnlyMarkedRemoved == \A k \in removed : k.mark = "run" \/ k \in swapped

=============================================================================
