------------------------------ MODULE ParseDto ------------------------------
(***************************************************************************)
(* The values that travel between a portal adapter and the service         *)
(* (app/models/dto.py).                                                    *)
(***************************************************************************)
CONSTANTS
  Stats,  \* the contract statuses that the portals publish (KONTR_STAT)
  NoStat  \* NULL, which is also what the database makes of an empty text

ASSUME StatsAssumption == NoStat \notin Stats

StatValue == Stats \cup {NoStat}

\* What a parser hands back for one contract.  Neither adapter fills
\* KONTR_STAT unless it reports DONE, and a DONE may lack it.
ParseResult ==
  [status : {"DONE"}, stat : StatValue]
    \cup [status : {"NOT_FOUND", "ERROR"}, stat : {NoStat}]
=============================================================================
