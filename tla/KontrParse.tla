----------------------------- MODULE KontrParse -----------------------------
(***************************************************************************)
(* The two business tables and the repository functions that touch them:   *)
(*                                                                         *)
(*   queue    MSB_DB_KONTR_PARSE, the queue and staging table              *)
(*            (app/db/parse_repo.py, app/db/gap_repo.py)                   *)
(*   vitrina  KONTR_STAT of MSB_DB_GRN_BLANK_MONITOR, the target table     *)
(*            (app/db/target_repo.py)                                      *)
(*                                                                         *)
(* Every action is ONE get_connection() block of the code, hence one       *)
(* transaction: it commits as a whole or leaves the tables alone.  Rows    *)
(* are addressed by contract number: both the MERGE of gap_repo and        *)
(* get_or_create_kontr_id match on NOMER_KONTRAKTA before they insert, and *)
(* the only process that runs them does so without yielding.               *)
(***************************************************************************)
EXTENDS Naturals, ParseDto

CONSTANTS
  Contracts,      \* contract numbers (NOMER_KONTRAKTA)
  Listed,         \* those that have a row in the target table
  Portals,        \* portal texts (NAIM_PORTALA)
  LikeSamruk,     \* texts matched by  LIKE '%Samruk%'  (case sensitive)
  LikeGos,        \* texts matched by  LIKE '%Gos%'     (case sensitive)
  IsSamruk,       \* texts containing the portal name after lower()
  IsGos,          \* ditto for the other portal
  VitrinaPortal,  \* portal text of a contract in the target table
  MaxAttempts,    \* settings.max_attempts
  InitQueue       \* content of the queue when the service first starts

QueueStatus ==
  {"ABSENT", "NEW", "IN_PROGRESS", "DONE", "NOT_FOUND", "ERROR"}

\* "ABSENT" stands for "no such row"; the other fields then mean nothing.
QueueRow ==
  [status : QueueStatus, attempts : Nat, portal : Portals, stat : StatValue]

ASSUME TablesAssumption ==
  /\ Listed \subseteq Contracts
  /\ LikeSamruk \subseteq IsSamruk
  /\ LikeGos \subseteq IsGos
  /\ IsSamruk \cup IsGos \subseteq Portals
  /\ VitrinaPortal \in [Contracts -> Portals]
  /\ MaxAttempts \in Nat \ {0}
  /\ InitQueue \in [Contracts -> QueueRow]
  /\ \A c \in Contracts : InitQueue[c].status # "IN_PROGRESS"

VARIABLES queue, vitrina

tables == <<queue, vitrina>>

TablesTypeOK ==
  /\ queue \in [Contracts -> QueueRow]
  /\ vitrina \in [Contracts -> StatValue]

TablesInit ==
  /\ queue = InitQueue
  /\ vitrina = [c \in Contracts |-> NoStat]

-----------------------------------------------------------------------------
(***************************************************************************)
(* A list of GapRow is a bag of contracts, [Contracts -> Nat]: none of the *)
(* SELECTs orders its rows, and one row can be returned more than once.    *)
(***************************************************************************)
NoRows == [c \in Contracts |-> 0]

Has(rows, c) == rows[c] > 0

Count(b) == IF b THEN 1 ELSE 0

NewRow(portal) ==
  [status |-> "NEW", attempts |-> 0, portal |-> portal, stat |-> NoStat]

-----------------------------------------------------------------------------
(* gap_repo.fetch_gaps                                                     *)

\* _SELECT_SOURCE_GAPS_SQL
Gaps == {c \in Listed : vitrina[c] = NoStat}

\* The WHEN MATCHED condition of _MERGE_QUEUE_SQL.
Retryable(c) == queue[c].status # "DONE" /\ queue[c].attempts < MaxAttempts

\* Rows that carry the fresh PROCESS_RUN_ID after the loop of MERGEs.
Stamped == {c \in Gaps : queue[c].status = "ABSENT" \/ Retryable(c)}

MergedQueue ==
  [c \in Contracts |->
     IF c \in Gaps /\ queue[c].status = "ABSENT"
     THEN NewRow(VitrinaPortal[c])
     ELSE queue[c]]

\* Mutant: the list is made of all gaps, whatever the queue says of them.
SelectedForRunUnfiltered ==
  [c \in Contracts |->
     IF c \in Gaps
     THEN Count(MergedQueue[c].portal \in LikeSamruk)
            + Count(MergedQueue[c].portal \in LikeGos)
     ELSE 0]

\* _SELECT_QUEUE_FOR_RUN_SQL runs once per portal name; a portal text that
\* matches both names yields the row twice.
SelectedForRun ==
  [c \in Contracts |->
     IF c \in Stamped /\ MergedQueue[c].status \in {"NEW", "IN_PROGRESS", "ERROR"}
     THEN Count(MergedQueue[c].portal \in LikeSamruk)
            + Count(MergedQueue[c].portal \in LikeGos)
     ELSE 0]

FetchGaps ==
  /\ queue' = MergedQueue
  /\ UNCHANGED vitrina

-----------------------------------------------------------------------------
(* parse_repo                                                              *)

MarkInProgress(c) ==
  /\ queue' = [queue EXCEPT ![c].status = "IN_PROGRESS"]
  /\ UNCHANGED vitrina

\* Mutant: forgets that the attempt being saved counts as well.
StatusOrNotFoundLate(status, attempt) ==
  IF status \in {"ERROR", "NOT_FOUND"} /\ attempt >= MaxAttempts
  THEN "NOT_FOUND"
  ELSE status

StatusOrNotFound(status, attempt) ==
  IF status \in {"ERROR", "NOT_FOUND"} /\ attempt + 1 >= MaxAttempts
  THEN "NOT_FOUND"
  ELSE status

\* Mutant: a failed attempt is counted and the status left as it was.
SaveResultKeepsStatus(c, res, attempt) ==
  /\ queue' = [queue EXCEPT
                 ![c].status   = IF res.status = "ERROR" THEN @ ELSE res.status,
                 ![c].attempts = @ + 1,
                 ![c].stat     = res.stat]
  /\ UNCHANGED vitrina

\* attempt is the ATTEMPT_NUMBER the caller read when it built its GapRow;
\* the row's own counter is what the UPDATE increments.
SaveResult(c, res, attempt) ==
  /\ queue' = [queue EXCEPT
                 ![c].status   = StatusOrNotFound(res.status, attempt),
                 ![c].attempts = @ + 1,
                 ![c].stat     = res.stat]
  /\ UNCHANGED vitrina

\* Reuse an existing row by number, or insert one with the caller's portal.
GetOrCreate(c, portal) ==
  /\ queue' = [queue EXCEPT
                 ![c] = IF @.status = "ABSENT"
                        THEN NewRow(portal)
                        ELSE [@ EXCEPT !.status = "NEW"]]
  /\ UNCHANGED vitrina

\* Mutant: rows that were left IN_PROGRESS are taken as well.
NotFoundOrLeftContracts ==
  {c \in Contracts : queue[c].status \in {"NOT_FOUND", "IN_PROGRESS"}}

NotFoundContracts == {c \in Contracts : queue[c].status = "NOT_FOUND"}

NotFoundRows == [c \in Contracts |-> Count(c \in NotFoundContracts)]

RequeueNotFound ==
  /\ queue' = [c \in Contracts |->
                 IF c \in NotFoundContracts
                 THEN [queue[c] EXCEPT !.status = "NEW", !.attempts = 0]
                 ELSE queue[c]]
  /\ UNCHANGED vitrina

-----------------------------------------------------------------------------
(* target_repo.merge_from_staging                                          *)

MergeFromStaging ==
  /\ vitrina' = [c \in Contracts |->
                   IF /\ c \in Listed
                      /\ queue[c].status = "DONE"
                      /\ vitrina[c] = NoStat
                   THEN queue[c].stat
                   ELSE vitrina[c]]
  /\ UNCHANGED queue
=============================================================================
