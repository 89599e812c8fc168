---------------------------- MODULE AdminSettings ----------------------------
(***************************************************************************)
(* What the instance admin API promises, seen through its GET handlers:    *)
(* each setting of each instance (traffic disabled, operator log on) is a  *)
(* register that a PUT sets in one atomic step.  A PUT answered 200 has    *)
(* set its register to the value it asked for; a PUT answered otherwise    *)
(* changes nothing; no PUT touches another register.  A register reads     *)
(* None when its GET cannot answer (a resource of an unsupported version). *)
(* AdminInstance, where each PUT reads and later writes a whole resource   *)
(* shared by every instance, is shown to implement this module.            *)
(***************************************************************************)
CONSTANTS
    Keys,   \* <<setting, instance>> pairs
    None

VARIABLES
    setting,  \* what the GET of each key answers
    acked     \* the value of the last PUT answered 200 for each key, or None

avars == <<setting, acked>>

Values == BOOLEAN \cup {None}

\* A PUT answered 200: its register holds the value it asked for.
Put(k, v) ==
    /\ setting[k] # None
    /\ setting' = [setting EXCEPT ![k] = v]
    /\ acked' = [acked EXCEPT ![k] = v]

AInit ==
    /\ setting \in [Keys -> Values]
    /\ acked = [k \in Keys |-> None]

ANext == \E k \in Keys, v \in BOOLEAN : Put(k, v)

ASpec == AInit /\ [][ANext]_avars
=============================================================================
