----------------------------- MODULE MediaLease -----------------------------
(***************************************************************************)
(* What the producer promises about its media session, with no connections, *)
(* handlers or locks: at any time at most one caller holds the session, and *)
(* a caller that asks is told in one indivisible step whose session it      *)
(* joins - the holder's, or its own if nobody holds one.  A session that    *)
(* ended never comes back, and a session never passes from one holder to    *)
(* another without a moment in which nobody holds it.                       *)
(***************************************************************************)
CONSTANTS Callers, None

VARIABLES
    holder,     \* the caller whose session is the current one, or None
    grant       \* the session each caller was told to use, or None

leaseVars == <<holder, grant>>

LeaseInit ==
    /\ holder = None
    /\ grant = [c \in Callers |-> None]

(* The caller joins the current session, or starts one if there is none.   *)
Ask(c) ==
    /\ grant[c] = None
    /\ holder' = IF holder = None THEN c ELSE holder
    /\ grant' = [grant EXCEPT ![c] = holder']

(* The current session ends.                                               *)
Retire ==
    /\ holder # None
    /\ holder' = None
    /\ UNCHANGED grant

LeaseNext == Retire \/ \E c \in Callers : Ask(c)

LeaseSpec == LeaseInit /\ [][LeaseNext]_leaseVars
=============================================================================
