--------------------------- MODULE RequestLogProofs ---------------------------
(***************************************************************************)
(* The request log holds the latest requests for any cap: the one in the   *)
(* code is a thousand entries, far more than a run of RequestLog fills.    *)
(***************************************************************************)
EXTENDS RequestLog, SequenceTheorems, TLAPS

\* A list of at most MaxLog entries is one that Trimmed leaves alone; of any other
\* it keeps the last MaxLog.
LEMMA TrimmedKeepsLast ==
    ASSUME NEW S, NEW s \in Seq(S)
    PROVE  /\ Trimmed(s) \in Seq(S)
           /\ Len(Trimmed(s)) = Least(MaxLog, Len(s))
           /\ \A i \in 1 .. Len(Trimmed(s)) :
                 Trimmed(s)[i] = s[Len(s) - Len(Trimmed(s)) + i]
<1>0. MaxLog \in Nat /\ MaxLog > 0 /\ Len(s) \in Nat
  BY LogAssumption
<1>1. CASE Len(s) <= MaxLog
  <2>1. Trimmed(s) = s
    BY <1>0, <1>1 DEF Trimmed
  <2>2. Least(MaxLog, Len(s)) = Len(s)
    BY <1>0, <1>1 DEF Least
  <2>3. \A i \in 1 .. Len(s) : Len(s) - Len(s) + i = i
    BY <1>0
  <2>. QED
    BY <2>1, <2>2, <2>3
<1>2. CASE Len(s) > MaxLog
  <2>1. Trimmed(s) = SubSeq(s, Len(s) - MaxLog + 1, Len(s))
    BY <1>0, <1>2 DEF Trimmed, LastOf
  <2>0. \A i \in Len(s) - MaxLog + 1 .. Len(s) : s[i] \in S
    BY <1>0, <1>2
  <2>2. /\ Trimmed(s) \in Seq(S)
        /\ Len(Trimmed(s)) = Len(s) - (Len(s) - MaxLog + 1) + 1
        /\ \A i \in 1 .. Len(s) - (Len(s) - MaxLog + 1) + 1 :
              Trimmed(s)[i] = s[Len(s) - MaxLog + 1 + i - 1]
    BY <1>0, <1>2, <2>0, <2>1, SubSeqProperties
  <2>3. Len(s) - (Len(s) - MaxLog + 1) + 1 = MaxLog
    BY <1>0
  <2>4. \A i \in 1 .. MaxLog : Len(s) - MaxLog + 1 + i - 1 = Len(s) - MaxLog + i
    BY <1>0
  <2>5. Least(MaxLog, Len(s)) = MaxLog
    BY <1>0, <1>2 DEF Least
  <2>. QED
    BY <2>2, <2>3, <2>4, <2>5
<1>. QED
  BY <1>0, <1>1, <1>2

\* What an answer makes of the log.
LEMMA AnswerLogs ==
    ASSUME LogTypeOK, NEW c \in Client, Answer(c)
    PROVE  /\ log' \in Seq(Made)
           /\ Len(log') = Least(MaxLog, Len(log) + 1)
           /\ \A i \in 1 .. Len(log') :
                 log'[i] = Append(log, inflight[c])[Len(log) + 1 - Len(log') + i]
<1>1. PICK M : M = Made
  OBVIOUS
<1>2. PICK l \in Seq(M) : l = log
  BY <1>1 DEF LogTypeOK
<1>3. PICK r \in M : r = inflight[c]
  BY <1>1 DEF LogTypeOK, Answer
<1>4. PICK a : a = Append(l, r)
  OBVIOUS
<1>5. a \in Seq(M) /\ Len(a) = Len(l) + 1
  BY <1>4, AppendProperties
<1>6. PICK t : t = Trimmed(a)
  OBVIOUS
<1>7. /\ t \in Seq(M)
      /\ Len(t) = Least(MaxLog, Len(a))
      /\ \A i \in 1 .. Len(t) : t[i] = a[Len(a) - Len(t) + i]
  BY <1>5, <1>6, TrimmedKeepsLast
<1>8. log' = t
  BY <1>2, <1>3, <1>4, <1>6 DEF Answer, LogRequest
<1>9. Append(log, inflight[c]) = a /\ Len(a) = Len(log) + 1
  BY <1>2, <1>3, <1>4, <1>5
<1>. QED
  BY <1>1, <1>7, <1>8, <1>9

\* The numbers of requests, the log and the history keep their types.
THEOREM TypeCorrect == LogSpec => []LogTypeOK
<1>1. LogInit => LogTypeOK
  BY DEF LogInit, LogTypeOK, Made, None
<1>2. LogTypeOK /\ [LogNext]_logVars => LogTypeOK'
  <2> SUFFICES ASSUME LogTypeOK, [LogNext]_logVars
               PROVE  LogTypeOK'
    OBVIOUS
  <2>1. ASSUME NEW c \in Client, Begin(c)
        PROVE  LogTypeOK'
    <3>1. made' \in Nat /\ Made \subseteq Made' /\ made + 1 \in Made'
      BY <2>1 DEF Begin, LogTypeOK, Made
    <3>. QED
      BY <2>1, <3>1 DEF Begin, LogTypeOK
  <2>2. ASSUME NEW c \in Client, Answer(c)
        PROVE  LogTypeOK'
    <3>1. inflight[c] \in Made
      BY <2>2 DEF Answer, LogTypeOK
    <3>2. log' \in Seq(Made)
      BY <2>2, AnswerLogs
    <3>. QED
      BY <2>2, <3>1, <3>2 DEF Answer, LogTypeOK, Made
  <2>3. ASSUME NEW c \in Client, Raise(c)
        PROVE  LogTypeOK'
    BY <2>3 DEF Raise, LogTypeOK, Made
  <2>4. ASSUME NEW c \in Client, LogReset(c)
        PROVE  LogTypeOK'
    BY <2>4 DEF LogReset, LogTypeOK, Made
  <2>5. CASE LogRestart
    BY <2>5 DEF LogRestart, LogTypeOK, Made
  <2>6. CASE UNCHANGED logVars
    BY <2>6 DEF logVars, LogTypeOK, Made
  <2>. QED
    BY <2>1, <2>2, <2>3, <2>4, <2>5, <2>6 DEF LogNext, Dispatch
<1>. QED
  BY <1>1, <1>2, PTL DEF LogSpec

\* What the next answer does to the log and to the history.
LEMMA AnswerKeepsLatest ==
    ASSUME LogTypeOK, LogIsLatest, NEW c \in Client, Answer(c)
    PROVE  LogIsLatest'
<1>0. /\ MaxLog \in Nat /\ MaxLog > 0
      /\ log \in Seq(Made) /\ returned \in Seq(Made) /\ inflight[c] \in Made
  BY LogAssumption DEF LogTypeOK, Answer
<1>1. /\ Append(log, inflight[c])[Len(log) + 1] = inflight[c]
      /\ \A i \in 1 .. Len(log) : Append(log, inflight[c])[i] = log[i]
  BY <1>0
<1>2. /\ Len(returned') = Len(returned) + 1
      /\ \A i \in 1 .. Len(returned) : returned'[i] = returned[i]
      /\ returned'[Len(returned) + 1] = inflight[c]
  BY <1>0 DEF Answer
<1>3. /\ log' \in Seq(Made)
      /\ Len(log') = Least(MaxLog, Len(log) + 1)
      /\ \A i \in 1 .. Len(log') :
            log'[i] = Append(log, inflight[c])[Len(log) + 1 - Len(log') + i]
  BY AnswerLogs
<1>4. Len(log) \in Nat /\ Len(returned) \in Nat /\ Len(log') \in Nat
  BY <1>0, <1>3
<1>5. Len(log) = Least(MaxLog, Len(returned))
  BY DEF LogIsLatest
<1>6. Len(log') = Least(MaxLog, Len(returned'))
  BY <1>0, <1>2, <1>3, <1>4, <1>5 DEF Least
<1>7. ASSUME NEW i \in 1 .. Len(log')
      PROVE  log'[i] = returned'[Len(returned') - Len(log') + i]
  <2>1. Len(log') <= Len(log) + 1 /\ Len(log) <= Len(returned)
    BY <1>0, <1>3, <1>4, <1>5 DEF Least
  <2>2. CASE i = Len(log')
    <3>1. /\ Len(log) + 1 - Len(log') + i = Len(log) + 1
          /\ Len(returned') - Len(log') + i = Len(returned) + 1
      BY <1>2, <1>4, <2>2
    <3>. QED
      BY <1>1, <1>2, <1>3, <3>1
  <2>3. CASE i < Len(log')
    <3> DEFINE k == Len(log) + 1 - Len(log') + i
    <3>1. k \in 1 .. Len(log)
      BY <1>4, <2>1, <2>3
    <3>2. log'[i] = log[k]
      BY <1>1, <1>3, <3>1
    <3>3. log[k] = returned[Len(returned) - Len(log) + k]
      BY <1>0, <3>1 DEF LogIsLatest
    <3>4. Len(returned) - Len(log) + k = Len(returned') - Len(log') + i
      BY <1>2, <1>4
    <3>5. Len(returned) - Len(log) + k \in 1 .. Len(returned)
      BY <1>4, <2>1, <3>1
    <3>. QED
      BY <1>2, <3>2, <3>3, <3>4, <3>5
  <2>. QED
    BY <1>4, <2>2, <2>3
<1>8. DOMAIN log' = 1 .. Len(log')
  BY <1>3
<1>. QED
  BY <1>6, <1>7, <1>8 DEF LogIsLatest

\* Whatever order handlers return in, the log holds the latest MaxLog of their
\* requests in that order.
THEOREM LogIsLatestCorrect == LogSpec => []LogIsLatest
<1>1. LogInit => LogIsLatest
  BY LogAssumption DEF LogInit, LogIsLatest, Least
<1>2. LogTypeOK /\ LogIsLatest /\ [LogNext]_logVars => LogIsLatest'
  <2> SUFFICES ASSUME LogTypeOK, LogIsLatest, [LogNext]_logVars
               PROVE  LogIsLatest'
    OBVIOUS
  <2>1. ASSUME NEW c \in Client, Begin(c) \/ Raise(c)
        PROVE  LogIsLatest'
    BY <2>1 DEF Begin, Raise, LogIsLatest
  <2>2. ASSUME NEW c \in Client, Answer(c)
        PROVE  LogIsLatest'
    BY <2>2, AnswerKeepsLatest
  <2>3. ASSUME log' = <<>>, returned' = <<>>
        PROVE  LogIsLatest'
    BY <2>3, LogAssumption DEF LogIsLatest, Least
  <2>4. CASE UNCHANGED logVars
    BY <2>4 DEF logVars, LogIsLatest
  <2>. QED
    BY <2>1, <2>2, <2>3, <2>4 DEF LogNext, Dispatch, LogReset, LogRestart
<1>. QED
  BY <1>1, <1>2, TypeCorrect, PTL DEF LogSpec

\* The last entries of a list, backwards.
LEMMA ReversedLast ==
    ASSUME NEW S, NEW s \in Seq(S), NEW n \in Nat \ {0}
    PROVE  /\ Reverse(LastOf(s, n)) \in Seq(S)
           /\ Len(Reverse(LastOf(s, n))) = Least(n, Len(s))
           /\ \A i \in 1 .. Least(n, Len(s)) :
                 Reverse(LastOf(s, n))[i] = s[Len(s) - i + 1]
<1>0. Len(s) \in Nat
  OBVIOUS
<1> DEFINE m == Least(n, Len(s))
<1>1. m \in Nat /\ m <= Len(s)
  BY <1>0 DEF Least
<1>2. /\ LastOf(s, n) \in Seq(S)
      /\ Len(LastOf(s, n)) = m
      /\ \A i \in 1 .. m : LastOf(s, n)[i] = s[Len(s) - m + i]
  <2>1. CASE n > Len(s)
    <3>1. LastOf(s, n) = s /\ m = Len(s)
      BY <1>0, <2>1 DEF LastOf, Least
    <3>2. \A i \in 1 .. Len(s) : Len(s) - Len(s) + i = i
      BY <1>0
    <3>. QED
      BY <3>1, <3>2
  <2>2. CASE n <= Len(s)
    <3>1. LastOf(s, n) = SubSeq(s, Len(s) - n + 1, Len(s)) /\ m = n
      BY <1>0, <2>2 DEF LastOf, Least
    <3>2. \A i \in Len(s) - n + 1 .. Len(s) : s[i] \in S
      BY <1>0, <2>2
    <3>3. /\ LastOf(s, n) \in Seq(S)
          /\ Len(LastOf(s, n)) = Len(s) - (Len(s) - n + 1) + 1
          /\ \A i \in 1 .. Len(s) - (Len(s) - n + 1) + 1 :
                LastOf(s, n)[i] = s[Len(s) - n + 1 + i - 1]
      BY <1>0, <2>2, <3>1, <3>2, SubSeqProperties
    <3>4. /\ Len(s) - (Len(s) - n + 1) + 1 = n
          /\ \A i \in 1 .. n : Len(s) - n + 1 + i - 1 = Len(s) - n + i
      BY <1>0
    <3>. QED
      BY <3>1, <3>3, <3>4
  <2>. QED
    BY <1>0, <2>1, <2>2
<1>3. Reverse(LastOf(s, n)) = [i \in 1 .. m |-> LastOf(s, n)[m - i + 1]]
  BY <1>2 DEF Reverse
<1>4. \A i \in 1 .. m :
         m - i + 1 \in 1 .. m /\ Len(s) - m + (m - i + 1) = Len(s) - i + 1
  BY <1>0, <1>1
<1>5. \A i \in 1 .. m : LastOf(s, n)[m - i + 1] \in S
  BY <1>2, <1>4
<1>6. Reverse(LastOf(s, n)) \in Seq(S) /\ Len(Reverse(LastOf(s, n))) = m
  BY <1>1, <1>3, <1>5, IsASeq
<1>. QED
  BY <1>2, <1>3, <1>4, <1>6

\* The feed gives the latest of the log, the newest first, whatever it is limited to.
THEOREM FeedNewestFirstCorrect == LogSpec => []FeedNewestFirst
<1>1. LogTypeOK /\ LogIsLatest => FeedNewestFirst
  <2> SUFFICES ASSUME LogTypeOK, LogIsLatest, NEW limit \in Limit, limit > 0
               PROVE  /\ Len(Feed(limit)) = Least(limit, Len(log))
                      /\ \A i \in DOMAIN Feed(limit) :
                            Feed(limit)[i] = returned[Len(returned) + 1 - i]
    BY DEF FeedNewestFirst
  <2>1. PICK M : M = Made
    OBVIOUS
  <2>2. PICK l \in Seq(M) : l = log
    BY <2>1 DEF LogTypeOK
  <2>3. PICK feed : feed = Reverse(LastOf(l, limit))
    OBVIOUS
  <2>0. limit \in Nat \ {0}
    BY LogAssumption
  <2>4. /\ feed \in Seq(M)
        /\ Len(feed) = Least(limit, Len(l))
        /\ \A i \in 1 .. Least(limit, Len(l)) : feed[i] = l[Len(l) - i + 1]
    BY <2>0, <2>3, ReversedLast
  <2>5. Feed(limit) = feed
    BY <2>2, <2>3 DEF Feed
  <2>6. /\ Len(l) \in Nat /\ Len(returned) \in Nat /\ limit \in Nat
        /\ DOMAIN feed = 1 .. Len(feed)
    BY <2>4, LogAssumption DEF LogTypeOK
  <2>7. ASSUME NEW i \in DOMAIN feed
        PROVE  feed[i] = returned[Len(returned) + 1 - i]
    <3>1. i \in 1 .. Least(limit, Len(l)) /\ Len(l) - i + 1 \in 1 .. Len(l)
      BY <2>4, <2>6 DEF Least
    <3>2. l[Len(l) - i + 1] = returned[Len(returned) - Len(l) + (Len(l) - i + 1)]
      BY <2>2, <3>1 DEF LogIsLatest
    <3>3. Len(returned) - Len(l) + (Len(l) - i + 1) = Len(returned) + 1 - i
      BY <2>6, <3>1
    <3>. QED
      BY <2>4, <3>1, <3>2, <3>3
  <2>. QED
    BY <2>2, <2>4, <2>5, <2>7
<1>. QED
  BY <1>1, TypeCorrect, LogIsLatestCorrect, PTL
=============================================================================
