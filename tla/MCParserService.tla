--------------------------- MODULE MCParserService ---------------------------
(***************************************************************************)
(* Values of the constants of ParserService for the model checker.         *)
(***************************************************************************)
EXTENDS ParserService, TLC

CONSTANTS r1, r2, r3, c1, c2, d1, d2, stat

RunSymmetry == Permutations(Runs)

\* "Samruk", "samruk" and so on stand for texts that contain the portal's
\* name with and without its capital letter; "both" names the two portals.
AllPortals    == {"Samruk", "samruk", "Gos", "both", "other"}
SamrukLike    == {"Samruk", "both"}
GosLike       == {"Gos", "both"}
SamrukLowered == {"Samruk", "samruk", "both"}
GosLowered    == {"Gos", "both"}

TwoPortals == {"Samruk", "Gos"}
OnlySamruk == {"Samruk"}
OnlyGos    == {"Gos"}

OnePortalEach == [c \in Contracts |-> IF c = c1 THEN "Samruk" ELSE "Gos"]
MixedAndOther == [c \in Contracts |-> IF c = c1 THEN "both" ELSE "samruk"]
OneUnknown    == [c \in Contracts |-> IF c = c1 THEN "Samruk" ELSE "other"]

Absent == [status |-> "ABSENT", attempts |-> 0, portal |-> "Samruk", stat |-> NoStat]

Row(status, attempts, portal) ==
  [status |-> status, attempts |-> attempts, portal |-> portal, stat |-> NoStat]

\* The first start: nothing has been queued yet.
EmptyQueue == [c \in Contracts |-> Absent]

\* One contract that failed once, one that is new to the queue.
FailedOnce ==
  [c \in Contracts |-> IF c = c1 THEN Row("ERROR", 1, "Samruk") ELSE Absent]

\* Contracts that used up their attempts, one on each portal.
AllNotFound ==
  [c \in Contracts |->
     Row("NOT_FOUND", MaxAttempts, IF c = c1 THEN "Samruk" ELSE "Gos")]

\* A contract saved as NOT_FOUND by its first attempt.
NotFoundOnce ==
  [c \in Contracts |-> IF c = c1 THEN Row("NOT_FOUND", 1, "Samruk") ELSE Absent]
=============================================================================
