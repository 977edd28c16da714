-------------------------- MODULE DocumentedClaims --------------------------
(***************************************************************************)
(* Statements that the comments, docstrings, tests and README of the       *)
(* service make about it and that the service does not satisfy.            *)
(***************************************************************************)
EXTENDS ParserService

\* routes.py, trigger: "one run of the pipeline per business date".  Two runs
\* of a date, both past their first journal row, are both at work.
OneRunPerDate ==
  \A r, s \in Runs : \A d \in Dates :
    /\ PipelineLive(r, d) /\ job[r].pc # "accepted"
    /\ PipelineLive(s, d) /\ job[s].pc # "accepted"
    => r = s

\* gap_repo, above the MERGE: existing rows that are not DONE and have
\* attempts left are reused for a retry.  Those of a known portal should be
\* on the list that GAP_ANALYSIS hands to the parsers.
UnfinishedIsRetried ==
  [][\A r \in Runs :
       job[r].pc = "fetch" /\ job'[r].pc = "close" =>
         \A c \in Gaps :
           /\ queue[c].status # "ABSENT"
           /\ Retryable(c)
           /\ queue[c].portal \in LikeSamruk \cup LikeGos
           => Holds(r, c)']_vars

\* orchestrator.run_rerun_not_found: all NOT_FOUND records are parsed again.
RerunParsesAll ==
  [][\A r \in Runs :
       job[r].pc = "requeue" /\ job'[r].pc = "rows" =>
         \A c \in NotFoundContracts : Holds(r, c)']_vars

\* parse_repo.save_result: a record that used up its attempts "stays
\* ERROR/NOT_FOUND and goes to manual review".
ExhaustedStaysForReview ==
  \A c \in Contracts :
    /\ queue[c].attempts >= MaxAttempts
    /\ \A r \in Runs : ~Holds(r, c)
    => queue[c].status \notin {"NEW", "IN_PROGRESS"}

\* parse_repo.save_result: "ATTEMPT_NUMBER < 5 is controlled by the
\* orchestrator before the call", so the counter never passes the limit.
AttemptsAreControlled ==
  \A c \in Contracts : queue[c].attempts <= MaxAttempts
=============================================================================
