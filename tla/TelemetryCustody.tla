-------------------------- MODULE TelemetryCustody --------------------------
(***************************************************************************)
(* What retention promises about each received export, whatever happens to  *)
(* segments, files, claims and processes in between.  An export is active,  *)
(* then archived; it comes back only by a restore, which holds it active    *)
(* for a number of days; it is condemned, irrevocably, only while archived, *)
(* past the deletion cutoff and under an enabled policy, and nothing but a  *)
(* condemned export is ever deleted.  RetentionLifecycle implements this    *)
(* specification.                                                           *)
(***************************************************************************)
EXTENDS Naturals

CONSTANTS Exports, ArchiveDays, DeleteDays, HoldDays

VARIABLES now,        \* the day
          policyOn,   \* retention is enabled
          custody,    \* where each export is in its life
          received,   \* the day it was received
          hold        \* the day until which a restored export is held

custodyVars == <<now, policyOn, custody, received, hold>>

CustodyInit ==
    /\ now = 0
    /\ policyOn = FALSE
    /\ custody = [e \in Exports |-> "absent"]
    /\ received = [e \in Exports |-> 0]
    /\ hold = [e \in Exports |-> 0]

\* The same change of custody for a whole group of exports.
Transfer(group, from, to) ==
    /\ group # {}
    /\ \A e \in group : custody[e] = from
    /\ custody' = [e \in Exports |-> IF e \in group THEN to ELSE custody[e]]

Age(e) == now - received[e]

Pass ==
    /\ now' = now + 1
    /\ UNCHANGED <<policyOn, custody, received, hold>>

Decide ==
    /\ policyOn' \in BOOLEAN
    /\ UNCHANGED <<now, custody, received, hold>>

TakeIn(e) ==
    /\ Transfer({e}, "absent", "active")
    /\ received' = [received EXCEPT ![e] = now]
    /\ UNCHANGED <<now, policyOn, hold>>

Archive(group) ==
    /\ policyOn
    /\ \A e \in group : Age(e) >= ArchiveDays /\ hold[e] <= now
    /\ Transfer(group, "active", "archived")
    /\ hold' = [e \in Exports |-> IF e \in group THEN 0 ELSE hold[e]]
    /\ UNCHANGED <<now, policyOn, received>>

Reinstate(group) ==
    /\ Transfer(group, "archived", "active")
    /\ hold' = [e \in Exports |-> IF e \in group THEN now + HoldDays ELSE hold[e]]
    /\ UNCHANGED <<now, policyOn, received>>

Condemn(group) ==
    /\ policyOn
    /\ \A e \in group : Age(e) >= DeleteDays
    /\ Transfer(group, "archived", "condemned")
    /\ UNCHANGED <<now, policyOn, received, hold>>

Delete(group) ==
    /\ Transfer(group, "condemned", "deleted")
    /\ UNCHANGED <<now, policyOn, received, hold>>

CustodyNext ==
    \/ Pass
    \/ Decide
    \/ \E e \in Exports : TakeIn(e)
    \/ \E group \in SUBSET Exports :
          Archive(group) \/ Reinstate(group) \/ Condemn(group) \/ Delete(group)

CustodySpec == CustodyInit /\ [][CustodyNext]_custodyVars
=============================================================================
