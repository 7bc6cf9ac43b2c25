------------------------------- MODULE Rollout -------------------------------
(***************************************************************************)
(* What the PgpilotMonitor controller promises to someone who sees only    *)
(* the API server: the monitor, the objects made for it, and its           *)
(* status.observedGeneration.  There are no caches, queues, retries or     *)
(* reconciles here.  MonitorReconciler implements this specification.      *)
(***************************************************************************)
EXTENDS Naturals

CONSTANTS
    Kinds,     \* the kinds of objects made for a monitor
    Always,    \* those that every monitor has
    NoConfig,  \* the configuration of an object that carries none
    Edited     \* the configuration of an object somebody else changed

VARIABLES
    live,      \* the uid of the monitor, 0 when there is none
    wanted,    \* its generation: how often users changed it
    marked,    \* whether its deletion was requested
    made,      \* per kind, the object: its owner, generation and configuration
    reported   \* status.observedGeneration

vars == <<live, wanted, marked, made, reported>>

Nothing == [owner |-> 0, gen |-> 0, config |-> NoConfig]

Init ==
    /\ live = 0 /\ wanted = 0 /\ marked = FALSE /\ reported = 0
    /\ made = [k \in Kinds |-> Nothing]

\* Nothing but the object of kind k changes.
Only(k) ==
    /\ \A j \in Kinds \ {k} : made'[j] = made[j]
    /\ UNCHANGED <<live, wanted, marked, reported>>

\* A new monitor owns nothing that is there already.
Create ==
    /\ live = 0
    /\ live' # 0 /\ \A k \in Kinds : made[k].owner # live'
    /\ wanted' = 1 /\ marked' = FALSE /\ reported' = 0
    /\ UNCHANGED made

\* Users edit the monitor or request its deletion.
Ask ==
    /\ live # 0
    /\ wanted' = wanted + 1 /\ (marked => marked')
    /\ UNCHANGED <<live, made, reported>>

(***************************************************************************)
(* An object is made for the monitor that exists, from a generation users  *)
(* have asked for and not from one older than the status has reported; and *)
(* the Deployment gets a configuration only when the ConfigMap holds it,   *)
(* unless somebody else deleted or edited the ConfigMap.                   *)
(***************************************************************************)
Make(k) ==
    /\ live # 0
    /\ Only(k)
    /\ made'[k].owner = live
    /\ made'[k].gen >= reported /\ made'[k].gen <= wanted
    /\ k = "Deployment" =>
          \/ made["ConfigMap"].config \in {made'[k].config, Edited}
          \/ made["ConfigMap"].owner = 0

\* The status reports only what every object that always exists has reached.
Report ==
    /\ live # 0
    /\ reported' <= wanted
    /\ \A k \in Always : made[k].owner = live => made[k].gen >= reported'
    /\ UNCHANGED <<live, wanted, marked, made>>

\* An object is deleted, or changed by somebody else.
Lose(k) == Only(k) /\ made'[k] = Nothing
Tamper(k) == Only(k) /\ made'[k] = [made[k] EXCEPT !.config = Edited]

\* Once it owns something, a monitor goes only after its deletion was requested
\* and the controller has let it go.
Remove ==
    /\ live # 0
    /\ marked \/ \A k \in Kinds : made[k].owner # live
    /\ live' = 0 /\ wanted' = 0 /\ marked' = FALSE /\ reported' = 0
    /\ UNCHANGED made

Next ==
    \/ Create \/ Ask \/ Report \/ Remove
    \/ \E k \in Kinds : Make(k) \/ Lose(k) \/ Tamper(k)

Spec == Init /\ [][Next]_vars
=============================================================================
