------------------------------ MODULE RequestLog ------------------------------
(***************************************************************************)
(* The request log of src/state/store.py, which the middleware of          *)
(* src/middleware/request_logger.py appends to when a handler returns, and *)
(* the feed of it that the dashboard reads.  A request whose handler       *)
(* raises is answered too, 500 by the server around the middleware, but    *)
(* has no entry: the log is one of returned requests.  An entry is the     *)
(* request it tells of; its timing and classification are left out.        *)
(***************************************************************************)
EXTENDS Integers, Sequences, SequencesExt

CONSTANTS Client,      \* connections with a request in flight
          MaxLog,      \* _request_log_max
          Limit,       \* the limits that the dashboard is asked for
          MaxRequest   \* bound: how many requests are made

ASSUME LogAssumption ==
    /\ MaxLog \in Nat \ {0} /\ MaxRequest \in Nat
    /\ Limit \subseteq Nat

VARIABLES
    log,        \* _request_log
    inflight,   \* the request that each client waits for
    made,       \* how many requests were made
    returned    \* history: whose handlers returned since the log was last empty

logVars == <<log, inflight, made, returned>>

None == 0

LogInit == /\ log = <<>>
           /\ inflight = [c \in Client |-> None]
           /\ made = 0
           /\ returned = <<>>

\* s[-n:] of a list.  A slice from -0 is one from the start.
LastOf(s, n) ==
    IF n = 0 \/ n > Len(s) THEN s ELSE SubSeq(s, Len(s) - n + 1, Len(s))

\* Mutant: it is the oldest that are kept.
TrimmedToOldest(s) == SubSeq(s, 1, IF Len(s) > MaxLog THEN MaxLog ELSE Len(s))

Trimmed(s) == IF Len(s) > MaxLog THEN LastOf(s, MaxLog) ELSE s

\* Mutant: the request is let go of before its entry is made.
LogNothing(request) == log' = Trimmed(Append(log, None))

LogRequest(request) == log' = Trimmed(Append(log, request))

\* Mutant: the entries of the feed are left in the order of the log.
FeedOldestFirst(limit) == LastOf(log, limit)

\* get_request_log
Feed(limit) == Reverse(LastOf(log, limit))

-----------------------------------------------------------------------------
\* dispatch awaits the handler.
Begin(c) == /\ inflight[c] = None
            /\ made < MaxRequest
            /\ made' = made + 1
            /\ inflight' = [inflight EXCEPT ![c] = made + 1]
            /\ UNCHANGED <<log, returned>>

\* The handler has returned, an error response perhaps.
Answer(c) == /\ inflight[c] # None
             /\ LogRequest(inflight[c])
             /\ returned' = Append(returned, inflight[c])
             /\ inflight' = [inflight EXCEPT ![c] = None]
             /\ UNCHANGED made

\* The handler raises, on a body that is no JSON or lacks a field, or on the
\* KeyError of a put: call_next raises, and so does dispatch, with nothing logged.
Raise(c) == /\ inflight[c] # None
            /\ inflight' = [inflight EXCEPT ![c] = None]
            /\ UNCHANGED <<log, made, returned>>

\* The handler of POST /_emulator/reset, itself in flight.
LogReset(c) == /\ inflight[c] # None
               /\ log' = <<>>
               /\ returned' = <<>>
               /\ UNCHANGED <<inflight, made>>

\* The log is in no snapshot.
LogRestart == /\ log' = <<>>
              /\ returned' = <<>>
              /\ inflight' = [c \in Client |-> None]
              /\ UNCHANGED made

\* What dispatch does with a request.
Dispatch(c) == Begin(c) \/ Answer(c) \/ Raise(c)

LogNext == \/ \E c \in Client : Dispatch(c) \/ LogReset(c)
           \/ LogRestart

LogSpec == LogInit /\ [][LogNext]_logVars

-----------------------------------------------------------------------------
Made == 1 .. made

LogTypeOK == /\ made \in Nat
             /\ log \in Seq(Made)
             /\ returned \in Seq(Made)
             /\ inflight \in [Client -> Made \cup {None}]

Least(m, n) == IF m < n THEN m ELSE n

\* Of the requests whose handler returned, the log holds the latest, in the order
\* they did and each once: whatever order they were made in, only the oldest of
\* these are dropped, and only at the cap.  It says nothing of requests whose
\* handler raised, which are not in the log, though request_logger.py has it that
\* "Every HTTP request gets logged".
LogIsLatest ==
    /\ Len(log) = Least(MaxLog, Len(returned))
    /\ \A i \in DOMAIN log : log[i] = returned[Len(returned) - Len(log) + i]

\* The feed begins with the request whose handler returned last and goes back from
\* there, for a limit of at least one.
FeedNewestFirst ==
    \A limit \in Limit :
        limit > 0 =>
            /\ Len(Feed(limit)) = Least(limit, Len(log))
            /\ \A i \in DOMAIN Feed(limit) :
                  Feed(limit)[i] = returned[Len(returned) + 1 - i]
=============================================================================
