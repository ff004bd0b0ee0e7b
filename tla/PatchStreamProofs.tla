------------------------- MODULE PatchStreamProofs -------------------------
(***************************************************************************)
(* The output of a patch run, for every set of copy goroutines and viewers,*)
(* every amount of output, every capacity of a subscriber's channel and    *)
(* any number of faults.                                                   *)
(*                                                                         *)
(* The argument: a flush takes what it posts out of the buffer, and a      *)
(* goroutine waits for the answer to what it posted.  Every piece is       *)
(* therefore in one place, and when the final report is posted no other    *)
(* report of the run is on its way.  An ended row stays as it is, so that  *)
(* of all copies of the final report one is the end, and that one notifies *)
(* unless a fault took it.                                                 *)
(***************************************************************************)
EXTENDS PatchStream, TLAPS, SequenceTheorems, FiniteSetTheorems

\* There is room for the trailer of the run.
RoomLeft == pc[Main] \notin {"tail", "final", "ended"} => Len(full) <= MaxWrites

TypeInv == StreamTyped /\ RoomLeft

\* A request whose event is done is of a run whose end a report has committed, which is final.
DoneIsCommitted ==
  \A c \in Clients :
    post[c] # NoPost /\ post[c].at # "arrived" /\ EventOf(post[c]) = "done"
      => status \in Ended

DoneEvents == \A v \in Viewers : "done" \in ToSet(chan[v]) => status \in Ended

\* The run's goroutine goes through its steps with the copies, and alone after them.
CopiesFirst ==
  /\ pc[Main] \notin {"copy", "flush"}
  /\ \A w \in Writers : /\ pc[w] \in {"copy", "flush", "ended"}
                        /\ pc[w] = "ended" => post[w] = NoPost
                        /\ pc[Main] \notin {"start", "steps"} => pc[w] = "ended"

\* What each goroutine may be waiting for an answer to.
OwnReports ==
  /\ \A w \in Writers : post[w] # NoPost => post[w].stage = "progress"
  /\ pc[Main] = "start" => post[Main] = NoPost /\ full = <<>>
  /\ post[Main] # NoPost /\ post[Main].stage = "started" => full = <<>> /\ pc[Main] # "ended"
  /\ post[Main] # NoPost /\ post[Main].stage \in Ended
       => pc[Main] = "ended" /\ post[Main].data = full
  /\ post[Main] # NoPost /\ pc[Main] = "ended" => post[Main].stage \in Ended

\* Pieces are numbered as they are written, and nobody speaks for the run but its goroutines.
Numbered == \A i \in DOMAIN full : full[i] = i

NoGhost == breaks = 0 => post[Ghost] = NoPost

Order == CopiesFirst /\ OwnReports /\ Numbered /\ NoGhost

\* Before the final report, a written piece is in the row, in the buffer or in one report.
Carried(c) == ToSet(post[c].data)
Settled == ToSet(output) \cup ToSet(pending)

PiecesApart ==
  /\ IsInjective(output) /\ IsInjective(pending) /\ ToSet(output) \cap ToSet(pending) = {}
  /\ \A c \in InFlight : Carried(c) \cap Settled = {} /\ IsInjective(post[c].data)
  /\ \A c, d \in InFlight : c # d => Carried(c) \cap Carried(d) = {}

PiecesKept == Settled \cup (UNION {Carried(c) : c \in InFlight}) = 1 .. Len(full)

EachPlaced == breaks = 0 /\ pc[Main] # "ended" => PiecesApart /\ PiecesKept

\* Without a broken connection, only the final report completes the run.
Finished == status = "completed" /\ breaks = 0 => pc[Main] = "ended" /\ output = full

\* The final report that completed the run, before its handler has answered.
Completing(c) == post[c] # NoPost /\ post[c].ended /\ post[c].stage = "completed"

\* What a handler has not committed has ended nothing, and a Ghost's end is at risk.
EndsCommitted ==
  /\ \A c \in Clients : post[c] # NoPost /\ post[c].ended => post[c].at # "arrived" /\ post[c].stage \in Ended
  /\ post[Ghost] # NoPost /\ post[Ghost].ended => cut

\* Of all copies of the final report, one completes the run, and it notifies once.
OneNotice ==
  /\ status # "completed" => notified = 0 /\ \A c \in Clients : ~Completing(c)
  /\ \A c \in Clients : Completing(c) => notified = 0 /\ \A d \in Clients \ {c} : ~Completing(d)
  /\ notified <= 1

NoticeDue ==
  status = "completed" => \/ cut \/ "done" \in panicked \/ notified = 1
                          \/ \E c \in Clients : Completing(c)

-----------------------------------------------------------------------------
(* Sequences of pieces.                                                    *)
LEMMA ConcatSet ==
  ASSUME NEW S, NEW s \in Seq(S), NEW t \in Seq(S)
  PROVE  ToSet(s \o t) = ToSet(s) \cup ToSet(t)
<1>1. /\ s \o t \in Seq(S) /\ Len(s \o t) = Len(s) + Len(t) /\ Len(s) \in Nat /\ Len(t) \in Nat
      /\ \A i \in 1 .. Len(s) + Len(t) : (s \o t)[i] = IF i <= Len(s) THEN s[i] ELSE t[i - Len(s)]
  BY ConcatProperties, LenProperties
<1>2. DOMAIN (s \o t) = 1 .. Len(s) + Len(t) /\ DOMAIN s = 1 .. Len(s) /\ DOMAIN t = 1 .. Len(t)
  BY <1>1, LenProperties
<1>3. ToSet(s \o t) \subseteq ToSet(s) \cup ToSet(t)
  BY <1>1, <1>2 DEF ToSet
<1>4. ToSet(s) \subseteq ToSet(s \o t)
  BY <1>1, <1>2 DEF ToSet
<1>5. ToSet(t) \subseteq ToSet(s \o t)
  <2> SUFFICES ASSUME NEW j \in 1 .. Len(t) PROVE t[j] \in ToSet(s \o t)
    BY <1>2 DEF ToSet
  <2>1. j + Len(s) \in 1 .. Len(s) + Len(t) /\ (s \o t)[j + Len(s)] = t[j]
    BY <1>1
  <2> QED
    BY <1>2, <2>1 DEF ToSet
<1> QED
  BY <1>3, <1>4, <1>5

LEMMA AppendSet ==
  ASSUME NEW S, NEW s \in Seq(S), NEW e \in S
  PROVE  ToSet(Append(s, e)) = ToSet(s) \cup {e}
<1> DEFINE last == <<e>>
<1>1. Append(s, e) = s \o last
  BY AppendIsConcat
<1>2. last \in Seq(S) /\ last[1] = e /\ DOMAIN last = 1 .. 1
  OBVIOUS
<1> HIDE DEF last
<1>3. ToSet(last) = {e}
  BY <1>2 DEF ToSet
<1>4. ToSet(s \o last) = ToSet(s) \cup ToSet(last)
  BY <1>2, ConcatSet
<1> QED
  BY <1>1, <1>3, <1>4

LEMMA ConcatInjective ==
  ASSUME NEW S, NEW s \in Seq(S), NEW t \in Seq(S),
         IsInjective(s), IsInjective(t), ToSet(s) \cap ToSet(t) = {}
  PROVE  IsInjective(s \o t)
<1>1. /\ s \o t \in Seq(S) /\ Len(s \o t) = Len(s) + Len(t) /\ Len(s) \in Nat /\ Len(t) \in Nat
      /\ \A i \in 1 .. Len(s) + Len(t) : (s \o t)[i] = IF i <= Len(s) THEN s[i] ELSE t[i - Len(s)]
  BY ConcatProperties, LenProperties
<1>2. DOMAIN (s \o t) = 1 .. Len(s) + Len(t) /\ DOMAIN s = 1 .. Len(s) /\ DOMAIN t = 1 .. Len(t)
  BY <1>1, LenProperties
<1> SUFFICES ASSUME NEW a \in 1 .. Len(s) + Len(t), NEW b \in 1 .. Len(s) + Len(t),
                    (s \o t)[a] = (s \o t)[b]
             PROVE  a = b
  BY <1>2 DEF IsInjective
<1>3. CASE a <= Len(s) /\ b <= Len(s)
  BY <1>1, <1>2, <1>3 DEF IsInjective
<1>4. CASE a > Len(s) /\ b > Len(s)
  <2>1. a - Len(s) \in DOMAIN t /\ b - Len(s) \in DOMAIN t /\ t[a - Len(s)] = t[b - Len(s)]
    BY <1>1, <1>2, <1>4
  <2>2. a - Len(s) = b - Len(s)
    BY <2>1 DEF IsInjective
  <2> QED
    BY <1>1, <2>2
<1>5. \A i \in 1 .. Len(s), j \in 1 .. Len(t) : s[i] # t[j]
  BY <1>2 DEF ToSet
<1>6. ASSUME NEW i \in 1 .. Len(s), NEW j \in 1 .. Len(s) + Len(t), j > Len(s)
      PROVE  (s \o t)[i] # (s \o t)[j]
  <2>1. j - Len(s) \in 1 .. Len(t) /\ i \in 1 .. Len(s) + Len(t)
    BY <1>1, <1>6
  <2>2. (s \o t)[i] = s[i] /\ (s \o t)[j] = t[j - Len(s)]
    BY <1>1, <1>6, <2>1
  <2> QED
    BY <1>5, <2>1, <2>2
<1> QED
  BY <1>1, <1>3, <1>4, <1>6

LEMMA AppendNewInjective ==
  ASSUME NEW S, NEW s \in Seq(S), NEW e \in S, IsInjective(s), e \notin ToSet(s)
  PROVE  IsInjective(Append(s, e))
<1>1. /\ Append(s, e) \in Seq(S) /\ Len(Append(s, e)) = Len(s) + 1 /\ Len(s) \in Nat
      /\ \A i \in 1 .. Len(s) : Append(s, e)[i] = s[i]
  BY AppendProperties, LenProperties
<1>2. DOMAIN Append(s, e) = 1 .. Len(s) + 1 /\ DOMAIN s = 1 .. Len(s) /\ Append(s, e)[Len(s) + 1] = e
  BY <1>1, LenProperties
<1>3. \A i \in 1 .. Len(s) : s[i] # e
  BY <1>2 DEF ToSet
<1> QED
  BY <1>1, <1>2, <1>3 DEF IsInjective

-----------------------------------------------------------------------------
(* Types.                                                                  *)
LEMMA RequestTyped ==
  ASSUME NEW stage \in Stages, NEW data \in Seq(Pieces)
  PROVE  /\ Request(stage, data) \in Requests /\ Request(stage, data) # NoPost
         /\ Request(stage, data).stage = stage /\ Request(stage, data).data = data
         /\ Request(stage, data).at = "arrived" /\ Request(stage, data).ended = FALSE
<1>1. Request(stage, data) \in Requests
  BY DEF Request, Requests
<1>2. Request(stage, data) # NoPost
  BY <1>1, NoPostAssumption
<1> QED
  BY <1>1, <1>2 DEF Request

\* What a goroutine waits for once it has posted a report.
LEMMA SendPosts ==
  ASSUME StreamTyped, NEW p \in Procs, NEW stage \in Stages, NEW data \in Seq(Pieces), Send(p, stage, data)
  PROVE  /\ post'[p] \in Requests /\ post'[p] # NoPost
         /\ post'[p].stage = stage /\ post'[p].data = data
         /\ post'[p].at = "arrived" /\ post'[p].ended = FALSE
         /\ \A c \in Clients \ {p} : post'[c] = post[c]
<1>1. post' = [post EXCEPT ![p] = Request(stage, data)] /\ p \in Clients
  BY DEF Send, Procs, Clients
<1>2. post'[p] = Request(stage, data) /\ \A c \in Clients \ {p} : post'[c] = post[c]
  BY <1>1 DEF StreamTyped
<1> DEFINE r == Request(stage, data)
<1>3. /\ r \in Requests /\ r # NoPost /\ r.stage = stage /\ r.data = data
      /\ r.at = "arrived" /\ r.ended = FALSE
  BY RequestTyped
<1> HIDE DEF r
<1>4. post'[p] = r
  BY <1>2 DEF r
<1> QED
  BY <1>2, <1>3, <1>4

LEMMA StagesListed == \A q \in Requests : /\ q.stage \in Stages /\ q.data \in Seq(Pieces)
                                          /\ q.at \in {"arrived", "committed", "sending"}
                                          /\ q.todo \subseteq Viewers /\ q.ended \in BOOLEAN
BY DEF Requests

LEMMA InitTyped == StreamInit => TypeInv
<1> SUFFICES ASSUME StreamInit PROVE TypeInv
  OBVIOUS
<1>1. <<>> \in Seq(Pieces) /\ <<>> \in Seq(Events) /\ Len(<<>>) = 0
  OBVIOUS
<1>2. notified \in 0 .. 2 /\ panicked \subseteq Events /\ breaks \in 0 .. MaxBreaks
  BY StreamAssumption DEF StreamInit
<1>6. cut \in BOOLEAN
  BY DEF StreamInit
<1>3. /\ pc \in [Procs -> {"start", "steps", "copy", "flush", "drain", "trailer", "tail", "final", "ended"}]
      /\ post \in [Clients -> Requests \cup {NoPost}]
  BY DEF StreamInit
<1>4. /\ closed \in [Viewers -> BOOLEAN] /\ gone \in [Viewers -> BOOLEAN] /\ chan \in [Viewers -> Seq(Events)]
      /\ serving \in [Viewers -> {"none", "read", "subscribed", "over", "live", "leaving", "unlisted", "left"}]
      /\ shown \in [Viewers -> Statuses]
  BY <1>1 DEF StreamInit, Statuses
<1>5. full \in Seq(Pieces) /\ pending \in Seq(Pieces) /\ output \in Seq(Pieces) /\ RoomLeft
      /\ status \in Statuses /\ subs \subseteq Viewers
  BY <1>1, StreamAssumption DEF StreamInit, RoomLeft, Statuses
<1> QED
  BY <1>2, <1>3, <1>4, <1>5, <1>6 DEF TypeInv, StreamTyped

\* What the goroutines of the agent share with the rest is untouched by their own steps.
LEMMA AgentTyped == TypeInv /\ Agent => TypeInv'
<1> SUFFICES ASSUME TypeInv, Agent PROVE TypeInv'
  OBVIOUS
<1> USE DEF TypeInv
<1>a. /\ full \in Seq(Pieces) /\ pending \in Seq(Pieces) /\ post \in [Clients -> Requests \cup {NoPost}]
      /\ pc \in [Procs -> {"start", "steps", "copy", "flush", "drain", "trailer", "tail", "final", "ended"}]
      /\ Main \in Procs /\ Procs \subseteq Clients /\ Len(full) \in Nat /\ MaxWrites \in Nat
      /\ <<>> \in Seq(Pieces) /\ Ghost \in Clients /\ Writers \subseteq Procs
  BY StreamAssumption DEF StreamTyped, Procs, Clients
<1>b. ASSUME UNCHANGED <<rowVars, hubVars, viewerVars, auxVars>>,
             full' \in Seq(Pieces), pending' \in Seq(Pieces),
             pc' \in [Procs -> {"start", "steps", "copy", "flush", "drain", "trailer", "tail", "final", "ended"}],
             post' \in [Clients -> Requests \cup {NoPost}]
      PROVE  StreamTyped'
  BY <1>b DEF StreamTyped, rowVars, hubVars, viewerVars, auxVars
<1>d. ASSUME NEW p \in Procs, NEW stage \in Stages, NEW data \in Seq(Pieces), Send(p, stage, data)
      PROVE  post' \in [Clients -> Requests \cup {NoPost}]
  BY <1>a, <1>d, RequestTyped DEF Send
<1>e. ASSUME Len(full) <= MaxWrites, Record
      PROVE  /\ full' \in Seq(Pieces) /\ pending' \in Seq(Pieces) /\ Len(full') = Len(full) + 1
             /\ UNCHANGED <<post, rowVars, hubVars, viewerVars, auxVars>>
  BY <1>a, <1>e DEF Record, Pieces
<1>1. CASE PostStarted
  <2>1. post' \in [Clients -> Requests \cup {NoPost}]
    BY <1>1, <1>a, <1>d DEF PostStarted, Stages
  <2> QED
    BY <1>1, <1>a, <1>b, <2>1 DEF PostStarted, RoomLeft
<1>2. CASE StepsEnd
  BY <1>2, <1>a, <1>b DEF StepsEnd, CopiesJoined, RoomLeft
<1>3. CASE WriteTrailer
  BY <1>3, <1>a, <1>b, <1>e DEF WriteTrailer, RoomLeft
<1>4. CASE PostFinal
  <2>1. post' \in [Clients -> Requests \cup {NoPost}]
    BY <1>4, <1>a, <1>d DEF PostFinal, Stages
  <2> QED
    BY <1>4, <1>a, <1>b, <2>1 DEF PostFinal, RoomLeft
<1>5. ASSUME NEW w \in Writers, Write(w) PROVE TypeInv'
  <2>1. Len(full) <= MaxWrites /\ Record /\ Len(full) < MaxWrites
    BY <1>5, <1>a DEF Write
  <2>2. pc' \in [Procs -> {"start", "steps", "copy", "flush", "drain", "trailer", "tail", "final", "ended"}]
    BY <1>5, <1>a DEF Write
  <2> QED
    BY <1>a, <1>b, <1>e, <2>1, <2>2 DEF RoomLeft
<1>6. ASSUME NEW w \in Writers, CopyEnds(w) PROVE TypeInv'
  BY <1>6, <1>a, <1>b, StreamAssumption DEF CopyEnds, RoomLeft
<1>7. ASSUME NEW p \in Procs, Flush(p) PROVE TypeInv'
  <2>1. post' \in [Clients -> Requests \cup {NoPost}]
    BY <1>7, <1>a, <1>d DEF Flush, Stages
  <2>2. pc[p] \in {"flush", "drain", "tail"} /\ AfterFlush[pc[p]] \in {"copy", "trailer", "final"}
        /\ (AfterFlush[pc[p]] = "final" <=> pc[p] = "tail")
    BY <1>7 DEF Flush, AfterFlush
  <2>3. pc' \in [Procs -> {"start", "steps", "copy", "flush", "drain", "trailer", "tail", "final", "ended"}]
    BY <1>7, <1>a, <2>2 DEF Flush
  <2>4. RoomLeft'
    BY <1>7, <1>a, <2>2 DEF Flush, RoomLeft
  <2> QED
    BY <1>7, <1>a, <1>b, <2>1, <2>3, <2>4 DEF Flush, LeftPending
<1> QED
  BY <1>1, <1>2, <1>3, <1>4, <1>5, <1>6, <1>7 DEF Agent

\* A fault loses requests, puts them back to their start or leaves them to the Ghost.
LEMMA FaultPosts ==
  ASSUME TypeInv, Faults
  PROVE  /\ UNCHANGED <<agentVars, rowVars, closed, shown, notified, panicked>>
         /\ cut' \in BOOLEAN /\ breaks' \in 0 .. MaxBreaks
         /\ breaks' = 0 => breaks = 0 /\ post[Ghost] # NoPost
         /\ post' \in [Clients -> Requests \cup {NoPost}]
         /\ \A c \in Clients :
              \/ post'[c] = NoPost \/ post'[c] = post[c]
              \/ /\ post[c] # NoPost /\ post'[c].stage = post[c].stage /\ post'[c].data = post[c].data
                 /\ post'[c].at = "arrived" /\ post'[c].ended = FALSE
              \/ c = Ghost /\ \E p \in Procs : post'[c] = post[p]
<1>a. /\ post \in [Clients -> Requests \cup {NoPost}] /\ Procs \subseteq Clients /\ Ghost \in Clients
      /\ Ghost \notin Procs /\ MaxBreaks \in Nat /\ breaks \in 0 .. MaxBreaks /\ cut \in BOOLEAN
  BY StreamAssumption DEF TypeInv, StreamTyped, Procs, Clients
<1>b. \A c \in Clients : post[c] # NoPost =>
        /\ Request(post[c].stage, post[c].data) \in Requests
        /\ Request(post[c].stage, post[c].data).stage = post[c].stage
        /\ Request(post[c].stage, post[c].data).data = post[c].data
        /\ Request(post[c].stage, post[c].data).at = "arrived"
        /\ Request(post[c].stage, post[c].data).ended = FALSE
  <2> SUFFICES ASSUME NEW c \in Clients, post[c] # NoPost
               PROVE  /\ Request(post[c].stage, post[c].data) \in Requests
                      /\ Request(post[c].stage, post[c].data).stage = post[c].stage
                      /\ Request(post[c].stage, post[c].data).data = post[c].data
                      /\ Request(post[c].stage, post[c].data).at = "arrived"
                      /\ Request(post[c].stage, post[c].data).ended = FALSE
    OBVIOUS
  <2>1. post[c].stage \in Stages /\ post[c].data \in Seq(Pieces)
    BY <1>a, StagesListed
  <2> QED
    BY <2>1, RequestTyped
<1>c. \A C : EndAtRisk(C) => cut' \in BOOLEAN
  BY DEF EndAtRisk
<1>d. Faulty => breaks' \in 0 .. MaxBreaks /\ breaks' # 0
  BY <1>a DEF Faulty
<1> USE DEF agentVars, rowVars, hubVars, viewerVars
<1>1. ASSUME NEW c \in Clients, UpdateFails(c)
      PROVE  /\ UNCHANGED <<agentVars, rowVars, closed, shown, notified, panicked>> /\ cut' \in BOOLEAN
             /\ post' \in [Clients -> Requests \cup {NoPost}]
             /\ \A d \in Clients : post'[d] = NoPost \/ post'[d] = post[d]
  BY <1>1, <1>a, <1>c DEF UpdateFails
<1>2. CASE GhostStops
  <2>1. UpdateFails(Ghost) /\ breaks' = breaks /\ post[Ghost] # NoPost
    BY <1>2 DEF GhostStops, UpdateFails
  <2> QED
    BY <1>1, <1>a, <2>1
<1>3. ASSUME NEW p \in Procs, Refuse(p) PROVE UpdateFails(p) /\ Faulty
  BY <1>3 DEF Refuse
<1>4. CASE \E p \in Procs : Refuse(p)
  BY <1>1, <1>3, <1>4, <1>a, <1>d
<1>5. ASSUME NEW p \in Procs, Break(p)
      PROVE  /\ UNCHANGED <<agentVars, rowVars, closed, shown, notified, panicked>> /\ cut' \in BOOLEAN /\ Faulty
             /\ post' \in [Clients -> Requests \cup {NoPost}]
             /\ post'[Ghost] = post[p] /\ post[p] # NoPost
             /\ post'[p] \in {NoPost, Request(post[p].stage, post[p].data)}
             /\ \A c \in Clients \ {p, Ghost} : post'[c] = post[c]
  <2>1. PICK again \in Again(p) : post' = [post EXCEPT ![Ghost] = post[p], ![p] = again]
    BY <1>5 DEF Break
  <2>2. post[p] # NoPost /\ UNCHANGED <<agentVars, rowVars, closed, shown, notified, panicked>>
        /\ EndAtRisk({p}) /\ Faulty
    BY <1>5 DEF Break, Waiting
  <2>3. again \in {NoPost, Request(post[p].stage, post[p].data)}
    BY <2>1 DEF Again
  <2>4. again \in Requests \cup {NoPost}
    BY <1>a, <1>b, <2>2, <2>3
  <2> QED
    BY <1>a, <1>c, <2>1, <2>2, <2>3, <2>4
<1>6. CASE \E p \in Procs : Break(p)
  <2> PICK p \in Procs : Break(p)
    BY <1>6
  <2>1. \A c \in Clients : c = p \/ c = Ghost \/ post'[c] = post[c]
    BY <1>5
  <2>2. \/ post'[p] = NoPost
        \/ /\ post[p] # NoPost /\ post'[p].stage = post[p].stage /\ post'[p].data = post[p].data
           /\ post'[p].at = "arrived" /\ post'[p].ended = FALSE
    BY <1>5, <1>a, <1>b
  <2> QED
    BY <1>5, <1>d, <2>1, <2>2
<1>7. CASE ServerCrash
  <2>1. PICK again \in SUBSET Procs : post' = [c \in Clients |->
          IF c \in again /\ post[c] # NoPost THEN Request(post[c].stage, post[c].data) ELSE NoPost]
    BY <1>7 DEF ServerCrash
  <2>2. post' \in [Clients -> Requests \cup {NoPost}]
    BY <1>b, <2>1
  <2>3. \A c \in Clients :
          \/ post'[c] = NoPost
          \/ /\ post[c] # NoPost /\ post'[c].stage = post[c].stage /\ post'[c].data = post[c].data
             /\ post'[c].at = "arrived" /\ post'[c].ended = FALSE
    BY <1>b, <2>1
  <2> QED
    BY <1>7, <1>c, <1>d, <2>2, <2>3 DEF ServerCrash
<1> QED
  BY <1>2, <1>4, <1>6, <1>7 DEF Faults

LEMMA FaultsTyped == TypeInv /\ Faults => TypeInv'
<1> SUFFICES ASSUME TypeInv, Faults PROVE TypeInv'
  OBVIOUS
<1>1. /\ subs' \subseteq Viewers /\ chan' \in [Viewers -> Seq(Events)] /\ gone' \in [Viewers -> BOOLEAN]
      /\ serving' \in [Viewers -> {"none", "read", "subscribed", "over", "live", "leaving", "unlisted", "left"}]
  <2>1. /\ subs \subseteq Viewers /\ chan \in [Viewers -> Seq(Events)] /\ gone \in [Viewers -> BOOLEAN]
        /\ serving \in [Viewers -> {"none", "read", "subscribed", "over", "live", "leaving", "unlisted", "left"}]
    BY DEF TypeInv, StreamTyped
  <2>2. ServerCrash \/ UNCHANGED <<hubVars, viewerVars>>
    BY DEF Faults, GhostStops, Refuse, UpdateFails, Break
  <2>3. CASE ServerCrash
    <3>1. subs' = {} /\ chan' = [v \in Viewers |-> <<>>] /\ <<>> \in Seq(Events)
      BY <2>3 DEF ServerCrash
    <3>2. /\ gone' = [v \in Viewers |-> gone[v] \/ serving[v] # "none"]
          /\ serving' = [v \in Viewers |-> IF serving[v] = "none" THEN "none" ELSE "left"]
      BY <2>3 DEF ServerCrash
    <3>3. chan' \in [Viewers -> Seq(Events)]
      BY <3>1
    <3>4. gone' \in [Viewers -> BOOLEAN]
      BY <3>2
    <3>5. serving' \in [Viewers -> {"none", "read", "subscribed", "over", "live", "leaving", "unlisted", "left"}]
      BY <3>2
    <3> QED
      BY <3>1, <3>3, <3>4, <3>5
  <2> QED
    BY <2>1, <2>2, <2>3 DEF hubVars, viewerVars
<1> QED
  BY <1>1, FaultPosts DEF TypeInv, StreamTyped, RoomLeft, agentVars, rowVars

\* What a handler makes of its request.
LEMMA RequestUpdated ==
  ASSUME NEW q \in Requests, NEW e \in BOOLEAN, NEW T \in SUBSET Viewers
  PROVE  /\ [q EXCEPT !.at = "committed", !.ended = e] \in Requests
         /\ [q EXCEPT !.at = "sending", !.todo = T] \in Requests
         /\ [q EXCEPT !.todo = T] \in Requests
BY DEF Requests

LEMMA ServerTyped == TypeInv /\ Server => TypeInv'
<1> SUFFICES ASSUME TypeInv, Server PROVE TypeInv'
  OBVIOUS
<1> USE DEF TypeInv
<1>a. post \in [Clients -> Requests \cup {NoPost}] /\ subs \subseteq Viewers
      /\ chan \in [Viewers -> Seq(Events)] /\ status \in Statuses /\ output \in Seq(Pieces)
      /\ notified \in 0 .. 2 /\ panicked \subseteq Events /\ cut \in BOOLEAN
  BY StreamAssumption DEF StreamTyped, Clients
<1>b. ASSUME UNCHANGED <<agentVars, subs, closed, viewerVars, breaks>>,
             post' \in [Clients -> Requests \cup {NoPost}], status' \in Statuses, output' \in Seq(Pieces),
             chan' \in [Viewers -> Seq(Events)], notified' \in 0 .. 2, panicked' \subseteq Events,
             cut' \in BOOLEAN
      PROVE  TypeInv'
  BY <1>b DEF StreamTyped, RoomLeft, agentVars, viewerVars
<1>c. ASSUME NEW c \in Clients, NEW r \in Requests \cup {NoPost}, post' = [post EXCEPT ![c] = r]
      PROVE  post' \in [Clients -> Requests \cup {NoPost}]
  BY <1>a, <1>c
<1> USE DEF rowVars, hubVars, auxVars
<1>2. CASE ServerEnds
  BY <1>2, <1>a, <1>b DEF ServerEnds, Statuses
<1>3. ASSUME NEW c \in Clients, Commit(c) PROVE TypeInv'
  <2>1. post[c] \in Requests
    BY <1>3, <1>a DEF Commit
  <2>2. status' \in Statuses /\ output' \in Seq(Pieces)
    <3>1. post[c].data \in Seq(Pieces) /\ post[c].stage \in Stages /\ <<>> \in Seq(Pieces)
      BY <2>1, StagesListed
    <3>2. output \o post[c].data \in Seq(Pieces)
      BY <1>a, <3>1
    <3> QED
      BY <1>3, <1>a, <3>1, <3>2 DEF Commit, UpdateRow, Stages, Statuses
  <2>3. EndsRun(post[c]) \in BOOLEAN
    BY DEF EndsRun
  <2>4. [post[c] EXCEPT !.at = "committed", !.ended = EndsRun(post[c])] \in Requests
    BY <2>1, <2>3, RequestUpdated
  <2>5. post' \in [Clients -> Requests \cup {NoPost}]
    BY <1>3, <1>a, <2>4 DEF Commit
  <2>6. cut' \in BOOLEAN
    BY <1>3 DEF Commit
  <2> QED
    BY <1>3, <1>a, <1>b, <2>2, <2>5, <2>6 DEF Commit
<1>4. ASSUME NEW c \in Clients, Snapshot(c) PROVE TypeInv'
  <2>1. post[c] \in Requests
    BY <1>4, <1>a DEF Snapshot
  <2>2. post' = [post EXCEPT ![c] = [post[c] EXCEPT !.at = "sending", !.todo = subs]]
    BY <1>4 DEF Snapshot
  <2>3. post' \in [Clients -> Requests \cup {NoPost}]
    BY <1>a, <1>c, <2>1, <2>2, RequestUpdated
  <2> QED
    BY <1>4, <1>a, <1>b, <2>3 DEF Snapshot
<1>5. ASSUME NEW c \in Clients, SendEvent(c) PROVE TypeInv'
  <2>1. post[c] \in Requests /\ EventOf(post[c]) \in Events
    BY <1>5, <1>a DEF SendEvent, EventOf, Events
  <2>2. PICK v \in post[c].todo :
          \/ /\ panicked' = panicked \cup {EventOf(post[c])}
             /\ post' = [post EXCEPT ![c] = NoPost] /\ UNCHANGED chan
          \/ /\ chan' = IF Len(chan[v]) < BufSize
                        THEN [chan EXCEPT ![v] = Append(@, EventOf(post[c]))] ELSE chan
             /\ post' = [post EXCEPT ![c].todo = @ \ {v}]
             /\ UNCHANGED panicked
    BY <1>5 DEF SendEvent
  <2>3. post[c].todo \ {v} \in SUBSET Viewers /\ v \in Viewers
    BY <2>1, <2>2, StagesListed
  <2>4. post' \in [Clients -> Requests \cup {NoPost}]
    <3>1. CASE post' = [post EXCEPT ![c] = NoPost]
      BY <1>a, <3>1
    <3>2. CASE post' = [post EXCEPT ![c].todo = @ \ {v}]
      <4>1. post' = [post EXCEPT ![c] = [post[c] EXCEPT !.todo = post[c].todo \ {v}]]
        BY <3>2
      <4> QED
        BY <1>a, <1>c, <2>1, <2>3, <4>1, RequestUpdated
    <3> QED
      BY <2>2, <3>1, <3>2
  <2>5. chan' \in [Viewers -> Seq(Events)]
    <3>1. Append(chan[v], EventOf(post[c])) \in Seq(Events)
      BY <1>a, <2>1, <2>3
    <3>2. [chan EXCEPT ![v] = Append(@, EventOf(post[c]))] \in [Viewers -> Seq(Events)]
      BY <1>a, <3>1
    <3> QED
      BY <1>a, <2>2, <3>2
  <2>6. panicked' \subseteq Events
    BY <1>a, <2>1, <2>2
  <2> QED
    BY <1>5, <1>a, <1>b, <2>4, <2>5, <2>6 DEF SendEvent
<1>6. ASSUME NEW c \in Clients, Answer(c) PROVE TypeInv'
  <2>1. notified' \in 0 .. 2
    BY <1>6, <1>a DEF Answer
  <2> QED
    BY <1>6, <1>a, <1>b, <2>1 DEF Answer
<1> QED
  BY <1>2, <1>3, <1>4, <1>5, <1>6 DEF Server

\* A viewer takes events off its own channel and reads the row; nothing else of it is shared.
LEMMA ViewerTakes ==
  ASSUME Viewer
  PROVE  /\ UNCHANGED <<agentVars, post, rowVars, auxVars>>
         /\ \/ UNCHANGED chan
            \/ \E v \in Viewers : chan[v] # <<>> /\ chan' = [chan EXCEPT ![v] = Tail(@)]
BY DEF Viewer, ReadRun, Subscribe, Forward, NoticeGone, Unlist, CloseChannel, Fetch, LoseViewer, hubVars

LEMMA ViewerTyped == TypeInv /\ Viewer => TypeInv'
<1> SUFFICES ASSUME TypeInv, NEW v \in Viewers,
                    \/ ReadRun(v) \/ Subscribe(v) \/ Forward(v) \/ NoticeGone(v) \/ Unlist(v)
                    \/ CloseChannel(v) \/ Fetch(v) \/ LoseViewer(v)
             PROVE  TypeInv'
  BY DEF Viewer
<1> USE DEF TypeInv, hubVars, rowVars, viewerVars
<1>1. UNCHANGED <<agentVars, post, rowVars, auxVars>>
  BY ViewerTakes DEF Viewer
<1>2. subs' \subseteq Viewers /\ closed' \in [Viewers -> BOOLEAN]
  BY DEF StreamTyped, ReadRun, Subscribe, Forward, NoticeGone, Unlist, CloseChannel, Fetch, LoseViewer
<1>3. chan' \in [Viewers -> Seq(Events)]
  <2>1. chan \in [Viewers -> Seq(Events)]
    BY DEF StreamTyped
  <2>2. \A u \in Viewers : chan[u] # <<>> => Tail(chan[u]) \in Seq(Events)
    BY <2>1
  <2> QED
    BY <2>1, <2>2, ViewerTakes DEF Viewer
<1>4. gone' \in [Viewers -> BOOLEAN]
  BY DEF StreamTyped, ReadRun, Subscribe, Forward, NoticeGone, Unlist, CloseChannel, Fetch, LoseViewer
<1>5. shown' \in [Viewers -> Statuses]
  BY DEF StreamTyped, ReadRun, Subscribe, Forward, NoticeGone, Unlist, CloseChannel, Fetch, LoseViewer
<1>6. serving' \in [Viewers -> {"none", "read", "subscribed", "over", "live", "leaving", "unlisted", "left"}]
  BY DEF StreamTyped, At, ReadRun, Subscribe, Forward, NoticeGone, Unlist, CloseChannel, Fetch, LoseViewer
<1> QED
  BY <1>1, <1>2, <1>3, <1>4, <1>5, <1>6 DEF StreamTyped, RoomLeft, agentVars, auxVars

LEMMA TypesHold == StreamSpec => []TypeInv
<1>1. TypeInv /\ UNCHANGED vars => TypeInv'
  BY DEF TypeInv, StreamTyped, RoomLeft, vars, agentVars, rowVars, hubVars, viewerVars, auxVars
<1>2. TypeInv /\ [StreamNext]_vars => TypeInv'
  BY <1>1, AgentTyped, FaultsTyped, ServerTyped, ViewerTyped DEF StreamNext
<1> QED
  BY <1>2, InitTyped, PTL DEF StreamSpec

\* StreamTyped: every piece, request, event and state of a goroutine is one the code has.
THEOREM StreamIsTyped == StreamSpec => []StreamTyped
BY TypesHold, PTL DEF TypeInv

-----------------------------------------------------------------------------
(* The done event.                                                         *)
DoneInv == DoneIsCommitted /\ DoneEvents

LEMMA AgentDone == TypeInv /\ DoneInv /\ Agent => DoneInv'
<1> SUFFICES ASSUME TypeInv, DoneInv, Agent PROVE DoneInv'
  OBVIOUS
<1>a. post \in [Clients -> Requests \cup {NoPost}] /\ Procs \subseteq Clients /\ Ghost \in Clients
      /\ Main \in Procs /\ Writers \subseteq Procs /\ full \in Seq(Pieces) /\ pending \in Seq(Pieces)
  BY StreamAssumption DEF TypeInv, StreamTyped, Procs, Clients
<1>b. chan' = chan /\ status' = status
  BY DEF Agent, PostStarted, StepsEnd, WriteTrailer, PostFinal, Write, CopyEnds, Flush, Record,
     rowVars, hubVars
<1>c. ASSUME \A c \in Clients : \/ post'[c] = NoPost \/ post'[c].at = "arrived"
                                \/ \E d \in Clients : post'[c] = post[d]
      PROVE  DoneInv'
  BY <1>b, <1>c DEF DoneInv, DoneIsCommitted, DoneEvents, EventOf
<1>d. ASSUME NEW p \in Procs, NEW stage \in Stages, NEW data \in Seq(Pieces), Send(p, stage, data)
      PROVE  DoneInv'
  BY <1>a, <1>c, <1>d, RequestTyped DEF Send
<1>e. UNCHANGED post => DoneInv'
  BY <1>c
<1>1. PostStarted \/ PostFinal => DoneInv'
  <2>1. <<>> \in Seq(Pieces) /\ {"started", "completed", "cancelled"} \subseteq Stages
    BY DEF Stages
  <2>2. PostFinal => \E stage \in {"completed", "cancelled"} : Send(Main, stage, full)
    BY DEF PostFinal
  <2> QED
    BY <1>a, <1>d, <2>1, <2>2 DEF PostStarted
<1>2. StepsEnd \/ WriteTrailer \/ (\E w \in Writers : Write(w) \/ CopyEnds(w)) => DoneInv'
  BY <1>e DEF StepsEnd, WriteTrailer, Write, CopyEnds, Record
<1>3. ASSUME NEW p \in Procs, Flush(p) PROVE DoneInv'
  BY <1>3, <1>a, <1>d, <1>e DEF Flush, Stages
<1> QED
  BY <1>1, <1>2, <1>3 DEF Agent

\* What a fault leaves of a request is new or was there before.
LEMMA FaultsDone == TypeInv /\ DoneInv /\ Faults => DoneInv'
<1> SUFFICES ASSUME TypeInv, DoneInv, Faults PROVE DoneInv'
  OBVIOUS
<1>1. status' = status /\ Procs \subseteq Clients
  BY FaultPosts DEF rowVars, Procs, Clients
<1>2. \A c \in Clients : \/ post'[c] = NoPost \/ post'[c].at = "arrived"
                         \/ \E d \in Clients : post'[c] = post[d]
  BY <1>1, FaultPosts
<1>3. DoneIsCommitted'
  BY <1>1, <1>2 DEF DoneInv, DoneIsCommitted, EventOf
<1>4. \A v \in Viewers : chan'[v] = chan[v] \/ chan'[v] = <<>>
  BY DEF Faults, GhostStops, Refuse, UpdateFails, Break, ServerCrash, hubVars
<1>5. "done" \notin ToSet(<<>>)
  BY DEF ToSet
<1> QED
  BY <1>1, <1>3, <1>4, <1>5 DEF DoneInv, DoneEvents

LEMMA ServerDone == TypeInv /\ DoneInv /\ Server => DoneInv'
<1> SUFFICES ASSUME TypeInv, DoneInv, Server PROVE DoneInv'
  OBVIOUS
<1>a. post \in [Clients -> Requests \cup {NoPost}] /\ Ghost \in Clients /\ status \in Statuses
      /\ chan \in [Viewers -> Seq(Events)]
  BY StreamAssumption DEF TypeInv, StreamTyped, Clients
\* A request that moves on keeps its event.
<1>b. ASSUME status \in Ended => status' \in Ended, chan' = chan,
             \A c \in Clients : post'[c] = post[c] \/ post'[c] = NoPost
               \/ /\ post[c] # NoPost /\ EventOf(post'[c]) = EventOf(post[c])
                  /\ post[c].at = "arrived" /\ EventOf(post[c]) = "done" => status' \in Ended
      PROVE  DoneInv'
  BY <1>b DEF DoneInv, DoneIsCommitted, DoneEvents
<1> USE DEF rowVars, hubVars
<1>2. CASE ServerEnds
  BY <1>2, <1>b DEF ServerEnds, Ended
<1>3. ASSUME NEW c \in Clients, Commit(c) PROVE DoneInv'
  <2>1. post[c] # NoPost /\ post[c] \in Requests /\ post[c].stage \in Stages
    BY <1>3, <1>a, StagesListed DEF Commit
  <2>2. status \in Ended => status' \in Ended
    BY <1>3, <1>a, <2>1 DEF Commit, UpdateRow, Ended, Stages
  <2>3. post[c].stage \in Ended => status' \in Ended
    BY <1>3, <2>1 DEF Commit, UpdateRow, Ended
  <2>4. CASE post[c].stage = "started"
    BY <1>3, <1>a, <1>b, <2>2, <2>4 DEF Commit
  <2>5. CASE post[c].stage # "started"
    <3>1. post' = [post EXCEPT ![c] = [post[c] EXCEPT !.at = "committed", !.ended = EndsRun(post[c])]]
      BY <1>3, <2>5 DEF Commit
    <3>2. post'[c].stage = post[c].stage
      BY <1>a, <2>1, <3>1 DEF Requests
    <3>3. EventOf(post[c]) = "done" => post[c].stage \in Ended
      BY <2>1, <2>5 DEF EventOf, Stages, Ended
    <3> QED
      BY <1>3, <1>a, <1>b, <2>1, <2>2, <2>3, <3>1, <3>2, <3>3 DEF Commit, EventOf
  <2> QED
    BY <2>4, <2>5
<1>4. ASSUME NEW c \in Clients, Snapshot(c) PROVE DoneInv'
  <2>1. post[c] # NoPost /\ post[c] \in Requests /\ post[c].at = "committed"
    BY <1>4, <1>a DEF Snapshot
  <2>2. post' = [post EXCEPT ![c] = [post[c] EXCEPT !.at = "sending", !.todo = subs]]
    BY <1>4 DEF Snapshot
  <2>3. post'[c].stage = post[c].stage
    BY <1>a, <2>1, <2>2 DEF Requests
  <2> QED
    BY <1>4, <1>a, <1>b, <2>1, <2>2, <2>3 DEF Snapshot, EventOf
<1>5. ASSUME NEW c \in Clients, SendEvent(c) PROVE DoneInv'
  <2>1. post[c] # NoPost /\ post[c] \in Requests /\ post[c].at = "sending" /\ status' = status
    BY <1>5, <1>a DEF SendEvent
  <2>2. PICK v \in post[c].todo :
          \/ post' = [post EXCEPT ![c] = NoPost] /\ UNCHANGED chan
          \/ /\ chan' = IF Len(chan[v]) < BufSize
                        THEN [chan EXCEPT ![v] = Append(@, EventOf(post[c]))] ELSE chan
             /\ post' = [post EXCEPT ![c].todo = @ \ {v}]
    BY <1>5 DEF SendEvent
  <2>3. v \in Viewers
    BY <2>1, <2>2, StagesListed
  <2>4. CASE post' = [post EXCEPT ![c] = NoPost] /\ UNCHANGED chan
    BY <1>a, <1>b, <2>1, <2>4
  <2>5. CASE /\ chan' = IF Len(chan[v]) < BufSize
                        THEN [chan EXCEPT ![v] = Append(@, EventOf(post[c]))] ELSE chan
             /\ post' = [post EXCEPT ![c].todo = @ \ {v}]
    <3>1. post'[c].stage = post[c].stage /\ post'[c].at = "sending"
          /\ \A d \in Clients \ {c} : post'[d] = post[d]
      BY <1>a, <2>1, <2>5 DEF Requests
    <3>2. DoneIsCommitted'
      BY <2>1, <3>1 DEF DoneInv, DoneIsCommitted, EventOf
    <3>3. \A u \in Viewers : "done" \in ToSet(chan'[u]) => "done" \in ToSet(chan[u])
                                                           \/ EventOf(post[c]) = "done"
      <4>1. EventOf(post[c]) \in Events /\ chan[v] \in Seq(Events)
        BY <1>a, <2>3 DEF EventOf, Events
      <4>2. ToSet(Append(chan[v], EventOf(post[c]))) = ToSet(chan[v]) \cup {EventOf(post[c])}
        BY <4>1, AppendSet
      <4> QED
        BY <1>a, <2>3, <2>5, <4>2
    <3>4. DoneEvents'
      BY <2>1, <3>3 DEF DoneInv, DoneIsCommitted, DoneEvents
    <3> QED
      BY <3>2, <3>4 DEF DoneInv
  <2> QED
    BY <2>2, <2>4, <2>5
<1>6. ASSUME NEW c \in Clients, Answer(c) PROVE DoneInv'
  BY <1>6, <1>a, <1>b DEF Answer
<1> QED
  BY <1>2, <1>3, <1>4, <1>5, <1>6 DEF Server

LEMMA ViewerDone == TypeInv /\ DoneInv /\ Viewer => DoneInv'
<1> SUFFICES ASSUME TypeInv, DoneInv, Viewer PROVE DoneInv'
  OBVIOUS
<1>1. UNCHANGED <<post, status>> /\ chan \in [Viewers -> Seq(Events)]
  BY ViewerTakes DEF rowVars, TypeInv, StreamTyped
<1>2. \A v \in Viewers : ToSet(chan'[v]) \subseteq ToSet(chan[v])
  <2>1. ASSUME NEW v \in Viewers, chan[v] # <<>> PROVE ToSet(Tail(chan[v])) \subseteq ToSet(chan[v])
    <3>1. chan[v] \in Seq(Events) /\ Len(chan[v]) \in Nat
      BY <1>1
    <3>2. Len(Tail(chan[v])) = Len(chan[v]) - 1 /\ Tail(chan[v]) \in Seq(Events)
          /\ \A i \in 1 .. Len(chan[v]) - 1 : Tail(chan[v])[i] = chan[v][i + 1]
      BY <2>1, <3>1, HeadTailProperties
    <3>3. DOMAIN chan[v] = 1 .. Len(chan[v]) /\ DOMAIN Tail(chan[v]) = 1 .. Len(chan[v]) - 1
      BY <3>1, <3>2, LenProperties
    <3> QED
      BY <3>1, <3>2, <3>3 DEF ToSet
  <2> QED
    BY <1>1, <2>1, ViewerTakes
<1> QED
  BY <1>1, <1>2 DEF DoneInv, DoneIsCommitted, DoneEvents

LEMMA DoneHolds == StreamSpec => []DoneInv
<1>1. StreamInit => DoneInv
  BY DEF StreamInit, DoneInv, DoneIsCommitted, DoneEvents, ToSet
<1>2. DoneInv /\ UNCHANGED vars => DoneInv'
  BY DEF DoneInv, DoneIsCommitted, DoneEvents, vars, rowVars, hubVars
<1>3. TypeInv /\ DoneInv /\ [StreamNext]_vars => DoneInv'
  BY <1>2, AgentDone, FaultsDone, ServerDone, ViewerDone DEF StreamNext
<1> QED
  BY <1>1, <1>3, TypesHold, PTL DEF StreamSpec

\* DoneMeansOver: a page that is told of the end finds the run over.
THEOREM DoneIsAfterTheRow == StreamSpec => []DoneMeansOver
<1>1. DoneInv => DoneMeansOver
  BY DEF DoneInv, DoneEvents, DoneMeansOver, Ended, Terminal, Statuses
<1> QED
  BY <1>1, DoneHolds, PTL

-----------------------------------------------------------------------------
(* The order of the agent's reports.                                       *)

\* A handler keeps what its request says, and takes it on for good.
LEMMA ServerPosts ==
  ASSUME TypeInv, Server
  PROVE  /\ UNCHANGED <<agentVars, breaks>>
         /\ \A c \in Clients :
              post'[c] = post[c] \/ post'[c] = NoPost
                \/ /\ post[c] # NoPost /\ post'[c] # NoPost
                   /\ post'[c].stage = post[c].stage /\ post'[c].data = post[c].data
                   /\ post'[c].at # "arrived"
                   /\ post[c].at # "arrived" => post'[c].ended = post[c].ended
<1>a. post \in [Clients -> Requests \cup {NoPost}] /\ Ghost \in Clients
  BY StreamAssumption DEF TypeInv, StreamTyped, Clients
<1>b. UNCHANGED <<agentVars, breaks>>
  BY DEF Server, ServerEnds, Commit, Snapshot, SendEvent, Answer, auxVars
<1>c. ASSUME NEW c \in Clients, post' = [post EXCEPT ![c] = NoPost]
      PROVE  \A d \in Clients : post'[d] = post[d] \/ post'[d] = NoPost
  BY <1>a, <1>c
<1>2. ServerEnds => post' = post
  BY DEF ServerEnds
<1>d. \A c \in Clients : post[c] # NoPost => post[c] \in Requests
  BY <1>a
<1> DEFINE Moved(c, r) ==
      /\ post' = [post EXCEPT ![c] = r] /\ r \in Requests /\ post[c] \in Requests
      /\ r.stage = post[c].stage /\ r.data = post[c].data /\ r.at # "arrived"
      /\ post[c].at # "arrived" => r.ended = post[c].ended
<1>3. ASSUME NEW c \in Clients, Commit(c)
      PROVE  post' = [post EXCEPT ![c] = NoPost] \/ \E r : Moved(c, r)
  <2>1. post[c] \in Requests /\ post[c].at = "arrived" /\ EndsRun(post[c]) \in BOOLEAN
    BY <1>3, <1>d DEF Commit, EndsRun
  <2> DEFINE r == [post[c] EXCEPT !.at = "committed", !.ended = EndsRun(post[c])]
  <2>2. post' = [post EXCEPT ![c] = NoPost] \/ post' = [post EXCEPT ![c] = r]
    BY <1>3 DEF Commit
  <2>3. r \in Requests /\ r.stage = post[c].stage /\ r.data = post[c].data /\ r.at # "arrived"
    BY <2>1, RequestUpdated DEF Requests
  <2> HIDE DEF r
  <2> QED
    BY <2>1, <2>2, <2>3
<1>4. ASSUME NEW c \in Clients, Snapshot(c) PROVE \E r : Moved(c, r)
  <2>1. post[c] \in Requests /\ subs \in SUBSET Viewers
    BY <1>4, <1>d DEF Snapshot, TypeInv, StreamTyped
  <2> DEFINE r == [post[c] EXCEPT !.at = "sending", !.todo = subs]
  <2>2. post' = [post EXCEPT ![c] = r]
    BY <1>4 DEF Snapshot
  <2>3. r \in Requests /\ r.stage = post[c].stage /\ r.data = post[c].data /\ r.at # "arrived"
        /\ r.ended = post[c].ended
    BY <2>1, RequestUpdated DEF Requests
  <2> HIDE DEF r
  <2> QED
    BY <2>1, <2>2, <2>3
<1>5. ASSUME NEW c \in Clients, SendEvent(c)
      PROVE  post' = [post EXCEPT ![c] = NoPost] \/ \E r : Moved(c, r)
  <2>1. post[c] \in Requests /\ post[c].at = "sending"
    BY <1>5, <1>d DEF SendEvent
  <2>2. PICK v \in post[c].todo :
          post' = [post EXCEPT ![c] = NoPost] \/ post' = [post EXCEPT ![c].todo = @ \ {v}]
    BY <1>5 DEF SendEvent
  <2> DEFINE r == [post[c] EXCEPT !.todo = post[c].todo \ {v}]
  <2>3. post' = [post EXCEPT ![c] = NoPost] \/ post' = [post EXCEPT ![c] = r]
    BY <2>2
  <2>4. post[c].todo \ {v} \in SUBSET Viewers
    BY <2>1, StagesListed
  <2>5. r \in Requests /\ r.stage = post[c].stage /\ r.data = post[c].data /\ r.at # "arrived"
        /\ r.ended = post[c].ended
    BY <2>1, <2>4, RequestUpdated DEF Requests
  <2> HIDE DEF r
  <2> QED
    BY <2>1, <2>3, <2>5
<1>6. ASSUME NEW c \in Clients, Answer(c) PROVE post' = [post EXCEPT ![c] = NoPost]
  BY <1>6 DEF Answer
<1>7. ASSUME NEW c \in Clients, NEW r, Moved(c, r)
      PROVE  \A d \in Clients :
               post'[d] = post[d]
                 \/ /\ post[d] # NoPost /\ post'[d] # NoPost
                    /\ post'[d].stage = post[d].stage /\ post'[d].data = post[d].data
                    /\ post'[d].at # "arrived"
                    /\ post[d].at # "arrived" => post'[d].ended = post[d].ended
  BY <1>7, <1>a, NoPostAssumption
<1> HIDE DEF Moved
<1> QED
  BY <1>b, <1>c, <1>2, <1>3, <1>4, <1>5, <1>6, <1>7 DEF Server

LEMMA AgentOrder == TypeInv /\ Order /\ Agent => Order'
<1> SUFFICES ASSUME TypeInv, Order, Agent PROVE Order'
  OBVIOUS
<1> USE StreamAssumption DEF Order
<1>a. /\ post \in [Clients -> Requests \cup {NoPost}] /\ full \in Seq(Pieces) /\ pending \in Seq(Pieces)
      /\ pc \in [Procs -> {"start", "steps", "copy", "flush", "drain", "trailer", "tail", "final", "ended"}]
      /\ Main \in Procs /\ Procs \subseteq Clients /\ Ghost \in Clients /\ Ghost \notin Procs
      /\ Writers \subseteq Procs /\ Main \notin Writers /\ breaks \in Nat
  BY DEF TypeInv, StreamTyped, Procs, Clients
<1>b. ASSUME Record, Len(full) <= MaxWrites
      PROVE  Numbered' /\ post' = post /\ breaks' = breaks
  <2>1. /\ Len(full) + 1 \in Pieces /\ full' = Append(full, Len(full) + 1) /\ Len(full) \in Nat
        /\ Len(full') = Len(full) + 1 /\ full' \in Seq(Pieces)
    BY <1>a, <1>b DEF Record, Pieces
  <2>2. DOMAIN full' = 1 .. Len(full) + 1 /\ DOMAIN full = 1 .. Len(full)
    BY <1>a, <2>1, LenProperties
  <2>3. \A i \in 1 .. Len(full) + 1 : full'[i] = i
    BY <1>a, <2>1, <2>2 DEF Numbered
  <2> QED
    BY <1>b, <2>2, <2>3 DEF Record, Numbered, auxVars
<1>c. ASSUME NEW p \in Procs, NEW stage \in Stages, NEW data \in Seq(Pieces), Send(p, stage, data)
      PROVE  /\ post'[p] # NoPost /\ post'[p].stage = stage /\ post'[p].data = data
             /\ \A c \in Clients \ {p} : post'[c] = post[c]
  BY <1>a, <1>c, RequestTyped DEF Send
<1>1. CASE PostStarted
  <2>1. Send(Main, "started", <<>>) /\ <<>> \in Seq(Pieces) /\ "started" \in Stages
        /\ pc[Main] = "start" /\ pc' = [pc EXCEPT ![Main] = "steps"] /\ full' = full /\ breaks' = breaks
    BY <1>1 DEF PostStarted, Stages, auxVars
  <2>2. post'[Main] # NoPost /\ post'[Main].stage = "started" /\ \A c \in Clients \ {Main} : post'[c] = post[c]
    BY <1>a, <1>c, <2>1
  <2>3. CopiesFirst' /\ Numbered' /\ NoGhost'
    BY <1>a, <2>1, <2>2 DEF CopiesFirst, Numbered, NoGhost
  <2>4. OwnReports'
    BY <1>a, <2>1, <2>2 DEF OwnReports, Ended
  <2> QED
    BY <2>3, <2>4
<1>2. CASE StepsEnd
  BY <1>2, <1>a DEF StepsEnd, CopiesJoined, auxVars, CopiesFirst, OwnReports, Numbered, NoGhost
<1>3. CASE WriteTrailer
  <2>1. Numbered' /\ post' = post /\ breaks' = breaks
    BY <1>3, <1>b DEF WriteTrailer, TypeInv, RoomLeft
  <2> QED
    BY <1>3, <1>a, <2>1 DEF WriteTrailer, Waiting, CopiesFirst, OwnReports, NoGhost
<1>4. CASE PostFinal
  <2>1. PICK stage \in Ended : Send(Main, stage, full)
    BY <1>4 DEF PostFinal, Ended
  <2>2. /\ pc[Main] = "final" /\ pc' = [pc EXCEPT ![Main] = "ended"] /\ full' = full /\ breaks' = breaks
        /\ stage \in Stages
    BY <1>4 DEF PostFinal, auxVars, Ended, Stages
  <2>3. stage # "started"
    BY DEF Ended
  <2> QED
    BY <1>a, <1>c, <2>1, <2>2, <2>3 DEF CopiesFirst, OwnReports, Numbered, NoGhost
<1>5. ASSUME NEW w \in Writers, Write(w) PROVE Order'
  <2>1. Len(full) <= MaxWrites
    BY <1>5, <1>a DEF Write
  <2>2. Numbered' /\ post' = post /\ breaks' = breaks
    BY <1>5, <1>b, <2>1 DEF Write
  <2>3. pc[Main] = "steps" /\ post[Main] = NoPost /\ \E n \in {"copy", "flush"} : pc' = [pc EXCEPT ![w] = n]
    BY <1>5 DEF Write, Waiting
  <2> QED
    BY <1>a, <2>2, <2>3 DEF CopiesFirst, OwnReports, NoGhost
<1>6. ASSUME NEW w \in Writers, CopyEnds(w) PROVE Order'
  BY <1>6, <1>a DEF CopyEnds, Waiting, auxVars, CopiesFirst, OwnReports, Numbered, NoGhost
<1>7. ASSUME NEW p \in Procs, Flush(p) PROVE Order'
  <2>1. /\ pc[p] \in {"flush", "drain", "tail"} /\ post[p] = NoPost /\ full' = full /\ breaks' = breaks
        /\ pc' = [pc EXCEPT ![p] = AfterFlush[pc[p]]]
    BY <1>7 DEF Flush, AfterFlush, Waiting, auxVars
  <2>2. /\ pc[p] = "flush" => AfterFlush[pc[p]] = "copy"
        /\ pc[p] # "flush" => AfterFlush[pc[p]] \in {"trailer", "final"}
    BY <2>1 DEF AfterFlush
  <2>3. /\ \A c \in Clients \ {p} : post'[c] = post[c]
        /\ post'[p] # NoPost => post'[p].stage = "progress"
    BY <1>7, <1>a, <1>c, <2>1 DEF Flush, Stages
  <2>4. CASE p = Main
    <3>1. pc[Main] \in {"drain", "tail"} /\ pc'[Main] \in {"trailer", "final"}
      BY <1>a, <2>1, <2>2, <2>4 DEF CopiesFirst
    <3>2. CopiesFirst' /\ Numbered' /\ NoGhost'
      BY <1>a, <2>1, <2>3, <2>4, <3>1 DEF CopiesFirst, Numbered, NoGhost
    <3>3. OwnReports'
      <4>1. pc'[Main] \notin {"start", "ended"} /\ \A w \in Writers : post'[w] = post[w]
        BY <1>a, <2>3, <2>4, <3>1
      <4>2. post'[Main] # NoPost => post'[Main].stage = "progress"
        BY <2>3, <2>4
      <4> QED
        BY <4>1, <4>2 DEF OwnReports, Ended
    <3> QED
      BY <3>2, <3>3
  <2>5. CASE p \in Writers
    <3>1. pc[p] = "flush" /\ pc' = [pc EXCEPT ![p] = "copy"]
      BY <2>1, <2>2, <2>5 DEF CopiesFirst
    <3> QED
      BY <1>a, <2>1, <2>3, <2>5, <3>1 DEF CopiesFirst, OwnReports, Numbered, NoGhost
  <2> QED
    BY <2>4, <2>5 DEF Procs
<1> QED
  BY <1>1, <1>2, <1>3, <1>4, <1>5, <1>6, <1>7 DEF Agent

LEMMA FaultsOrder == TypeInv /\ Order /\ Faults => Order'
<1> SUFFICES ASSUME TypeInv, Order, Faults PROVE Order'
  OBVIOUS
<1>1. Main \in Procs /\ Writers \subseteq Procs /\ Procs \subseteq Clients /\ Ghost \notin Procs
  BY StreamAssumption DEF Procs, Clients
<1>2. \A p \in Procs : \/ post'[p] = NoPost \/ post'[p] = post[p]
                       \/ post[p] # NoPost /\ post'[p].stage = post[p].stage /\ post'[p].data = post[p].data
  BY <1>1, FaultPosts
<1>3. full' = full /\ pc' = pc
  BY FaultPosts DEF agentVars
<1>4. NoGhost'
  BY FaultPosts DEF Order, NoGhost
<1> QED
  BY <1>1, <1>2, <1>3, <1>4 DEF Order, CopiesFirst, OwnReports, Numbered

LEMMA OrderHolds == StreamSpec => []Order
<1>1. StreamInit => Order
  BY StreamAssumption
     DEF StreamInit, Order, CopiesFirst, OwnReports, Numbered, NoGhost, Procs, Clients
<1>2. ASSUME TypeInv, Order, UNCHANGED <<agentVars, breaks>>,
             \A c \in Clients :
               post'[c] = post[c] \/ post'[c] = NoPost
                 \/ /\ post[c] # NoPost /\ post'[c] # NoPost
                    /\ post'[c].stage = post[c].stage /\ post'[c].data = post[c].data
      PROVE  Order'
  <2>1. Main \in Clients /\ Ghost \in Clients /\ Writers \subseteq Clients
    BY DEF Procs, Clients
  <2> QED
    BY <1>2, <2>1 DEF agentVars, Order, CopiesFirst, OwnReports, Numbered, NoGhost
<1>3. TypeInv /\ Order /\ Server => Order'
  BY <1>2, ServerPosts
<1>4. TypeInv /\ Order /\ (Viewer \/ UNCHANGED vars) => Order'
  BY <1>2, ViewerTakes DEF vars, auxVars
<1>5. TypeInv /\ Order /\ [StreamNext]_vars => Order'
  BY <1>3, <1>4, AgentOrder, FaultsOrder DEF StreamNext
<1> QED
  BY <1>1, <1>5, TypesHold, PTL DEF StreamSpec

-----------------------------------------------------------------------------
(* The place of each piece.                                                *)
LEMMA PlacesUnchanged ==
  ASSUME EachPlaced, UNCHANGED <<full, pending, output>>, breaks' = 0 => breaks = 0,
         pc'[Main] # "ended" => pc[Main] # "ended",
         InFlight' = InFlight, \A c \in InFlight : post'[c] = post[c]
  PROVE  EachPlaced'
<1> SUFFICES ASSUME breaks = 0, pc[Main] # "ended" PROVE PiecesApart' /\ PiecesKept'
  BY DEF EachPlaced
<1>1. PiecesApart /\ PiecesKept
  BY DEF EachPlaced
<1>2. \A c \in InFlight : Carried(c)' = Carried(c)
  BY DEF Carried
<1>3. Settled' = Settled
  BY DEF Settled
<1>4. {Carried(c) : c \in InFlight}' = {Carried(c) : c \in InFlight}
  BY <1>2
<1> QED
  BY <1>1, <1>2, <1>3, <1>4 DEF PiecesApart, PiecesKept

LEMMA AgentPlaced == TypeInv /\ Order /\ EachPlaced /\ Agent => EachPlaced'
<1> SUFFICES ASSUME TypeInv, Order, EachPlaced, Agent, breaks' = 0, pc'[Main] # "ended" PROVE EachPlaced'
  BY DEF EachPlaced
<1> USE StreamAssumption
<1>a. /\ post \in [Clients -> Requests \cup {NoPost}] /\ full \in Seq(Pieces) /\ pending \in Seq(Pieces)
      /\ pc \in [Procs -> {"start", "steps", "copy", "flush", "drain", "trailer", "tail", "final", "ended"}]
      /\ output \in Seq(Pieces) /\ Len(full) \in Nat
      /\ Main \in Procs /\ Procs \subseteq Clients /\ Ghost \in Clients /\ Ghost \notin Procs
      /\ Writers \subseteq Procs /\ Main \notin Writers /\ breaks \in Nat
  BY DEF TypeInv, StreamTyped, Procs, Clients
<1>b. breaks = 0 /\ pc[Main] # "ended"
  <2>1. breaks' = breaks
    BY DEF Agent, PostStarted, StepsEnd, WriteTrailer, PostFinal, Write, CopyEnds, Flush, Record, auxVars
  <2>2. \A w \in Writers : w # Main
    BY <1>a
  <2>3. pc[Main] = "ended" => pc'[Main] = "ended"
    BY <1>a, <2>2 DEF Agent, PostStarted, StepsEnd, WriteTrailer, PostFinal, Write, CopyEnds, Flush,
       AfterFlush
  <2> QED
    BY <1>a, <2>1, <2>3
<1>c. PiecesApart /\ PiecesKept
  BY <1>b DEF EachPlaced
\* The piece that is written is new.
<1>d. ASSUME Record, Len(full) <= MaxWrites PROVE EachPlaced'
  <2> DEFINE n == Len(full) + 1
  <2>1. /\ n \in Pieces /\ full' = Append(full, n) /\ pending' = Append(pending, n)
        /\ post' = post /\ output' = output
    BY <1>a, <1>d DEF Record, Pieces, rowVars
  <2>2. Len(full') = n /\ Len(pending) \in Nat /\ n \notin 1 .. Len(full) /\ 1 .. n = (1 .. Len(full)) \cup {n}
    BY <1>a, <2>1
  <2> HIDE DEF n
  <2>3. ToSet(pending') = ToSet(pending) \cup {n}
    BY <1>a, <2>1, AppendSet
  <2>4. n \notin Settled /\ \A c \in InFlight : n \notin Carried(c)
    BY <1>c, <2>2 DEF PiecesKept
  <2>5. IsInjective(pending')
    BY <1>a, <1>c, <2>1, <2>4, AppendNewInjective DEF PiecesApart, Settled
  <2>6. InFlight' = InFlight /\ (\A c \in InFlight : Carried(c)' = Carried(c)) /\ Settled' = Settled \cup {n}
    BY <2>1, <2>3 DEF InFlight, Carried, Settled
  <2>7. {Carried(c) : c \in InFlight}' = {Carried(c) : c \in InFlight}
    BY <2>6
  <2>8. PiecesKept'
    BY <1>c, <2>2, <2>6, <2>7 DEF PiecesKept
  <2>9. ToSet(output) \cap ToSet(pending') = {}
    BY <1>c, <2>3, <2>4 DEF PiecesApart, Settled
  <2>10. PiecesApart'
    BY <1>c, <2>1, <2>4, <2>5, <2>6, <2>9 DEF PiecesApart
  <2> QED
    BY <2>8, <2>10 DEF EachPlaced
<1>e. ASSUME NEW p \in Procs, post[p] = NoPost, NEW stage \in Stages, stage # "progress",
             NEW data \in Seq(Pieces), Send(p, stage, data)
      PROVE  InFlight' = InFlight /\ \A c \in InFlight : post'[c] = post[c]
  <2>1. post'[p].stage = stage /\ \A c \in Clients \ {p} : post'[c] = post[c]
    BY <1>e, SendPosts DEF TypeInv
  <2> QED
    BY <1>e, <2>1 DEF InFlight
<1>1. CASE PostStarted
  <2>1. Send(Main, "started", <<>>) /\ <<>> \in Seq(Pieces) /\ "started" \in Stages /\ post[Main] = NoPost
    BY <1>1 DEF PostStarted, Stages, Order, OwnReports
  <2>2. InFlight' = InFlight /\ \A c \in InFlight : post'[c] = post[c]
    BY <1>a, <1>e, <2>1
  <2> QED
    BY <1>1, <1>b, <2>2, PlacesUnchanged DEF PostStarted, rowVars
<1>2. CASE StepsEnd
  BY <1>2, <1>b, PlacesUnchanged DEF StepsEnd, rowVars, InFlight
<1>3. CASE WriteTrailer
  BY <1>3, <1>d DEF WriteTrailer, TypeInv, RoomLeft
<1>4. CASE PostFinal
  BY <1>4, <1>a DEF PostFinal
<1>5. ASSUME NEW w \in Writers, Write(w) PROVE EachPlaced'
  BY <1>5, <1>a, <1>d DEF Write
<1>6. ASSUME NEW w \in Writers, CopyEnds(w) PROVE EachPlaced'
  BY <1>6, <1>b, PlacesUnchanged DEF CopyEnds, rowVars, InFlight
<1>7. ASSUME NEW p \in Procs, Flush(p) PROVE EachPlaced'
  <2>1. post[p] = NoPost /\ full' = full /\ output' = output /\ pending' = <<>>
    BY <1>7 DEF Flush, LeftPending, Waiting, rowVars
  <2>2. ToSet(pending') = {} /\ IsInjective(pending')
    BY <2>1 DEF ToSet, IsInjective
  <2>3. CASE pending = <<>>
    <3>1. post' = post
      BY <1>7, <2>3 DEF Flush
    <3> QED
      BY <1>b, <2>1, <2>3, <3>1, PlacesUnchanged DEF InFlight
  <2>4. CASE pending # <<>>
    <3>1. Send(p, "progress", pending) /\ "progress" \in Stages
      BY <1>7, <2>4 DEF Flush, Stages
    <3>2. /\ post'[p] # NoPost /\ post'[p].stage = "progress" /\ post'[p].data = pending
          /\ post'[p].at = "arrived" /\ \A c \in Clients \ {p} : post'[c] = post[c]
      BY <1>a, <3>1, SendPosts DEF TypeInv
    <3>3. p \notin InFlight /\ InFlight' = InFlight \cup {p} /\ \A c \in InFlight : post'[c] = post[c]
      <4>1. p \in Clients /\ p \notin InFlight
        BY <1>a, <2>1 DEF InFlight
      <4> QED
        BY <3>2, <4>1 DEF InFlight
    <3>4. Carried(p)' = ToSet(pending) /\ \A c \in InFlight : Carried(c)' = Carried(c)
      BY <3>2, <3>3 DEF Carried
    <3>5. Settled' = ToSet(output) /\ Settled = ToSet(output) \cup ToSet(pending)
      BY <2>1, <2>2 DEF Settled
    <3>6. (UNION {Carried(c) : c \in InFlight})' = (UNION {Carried(c) : c \in InFlight}) \cup ToSet(pending)
      BY <3>3, <3>4
    <3>7. PiecesKept'
      BY <1>c, <2>1, <3>5, <3>6 DEF PiecesKept
    <3>8. PiecesApart'
      BY <1>c, <2>1, <2>2, <3>2, <3>3, <3>4, <3>5 DEF PiecesApart
    <3> QED
      BY <3>7, <3>8 DEF EachPlaced
  <2> QED
    BY <2>3, <2>4
<1> QED
  BY <1>1, <1>2, <1>3, <1>4, <1>5, <1>6, <1>7 DEF Agent

\* After a fault nothing is claimed.
LEMMA FaultsPlaced == TypeInv /\ Order /\ Faults => EachPlaced'
BY FaultPosts DEF EachPlaced, Order, NoGhost

LEMMA ServerPlaced == TypeInv /\ Order /\ EachPlaced /\ Server => EachPlaced'
<1> SUFFICES ASSUME TypeInv, Order, EachPlaced, Server, breaks' = 0, pc'[Main] # "ended" PROVE EachPlaced'
  BY DEF EachPlaced
<1>a. /\ UNCHANGED <<full, pending>> /\ breaks = 0 /\ pc[Main] # "ended" /\ post[Ghost] = NoPost
      /\ post \in [Clients -> Requests \cup {NoPost}] /\ output \in Seq(Pieces) /\ full \in Seq(Pieces)
  BY ServerPosts DEF agentVars, Order, NoGhost, TypeInv, StreamTyped
<1>b. PiecesApart /\ PiecesKept
  BY <1>a DEF EachPlaced
<1>c. \A c \in Clients : post[c] # NoPost => post[c] \in Requests /\ post[c].stage \in Stages
  BY <1>a, StagesListed
<1>1. ASSUME UNCHANGED output, \A c \in InFlight : post'[c] = post[c] PROVE EachPlaced'
  <2>1. \A c \in Clients : c \notin InFlight => c \notin InFlight'
    BY ServerPosts DEF InFlight
  <2>2. InFlight' = InFlight
    BY <1>1, <2>1 DEF InFlight
  <2> QED
    BY <1>1, <1>a, <2>2, PlacesUnchanged
<1>2. ASSUME ServerEnds \/ \E c \in Clients : Snapshot(c) \/ SendEvent(c) \/ Answer(c)
      PROVE  EachPlaced'
  <2>1. UNCHANGED output
    BY <1>2 DEF ServerEnds, Snapshot, SendEvent, Answer, rowVars
  <2>2. \A c \in InFlight : post'[c] = post[c]
    BY <1>2, <1>a DEF ServerEnds, Snapshot, SendEvent, Answer, InFlight
  <2> QED
    BY <1>1, <2>1, <2>2
<1>3. ASSUME NEW c \in Clients, Commit(c) PROVE EachPlaced'
  <2>1. post[c] # NoPost /\ post[c].at = "arrived" /\ post[c].stage \in Stages /\ post[c] \in Requests
    BY <1>3, <1>c DEF Commit
  <2>2. \A d \in Clients \ {c} : post'[d] = post[d]
    BY <1>3, <1>a DEF Commit
  <2>3. CASE post[c].stage = "started"
    \* Nothing has been written yet.
    <3>1. c = Main /\ full = <<>>
      BY <1>a, <2>1, <2>3 DEF Order, OwnReports, Clients, Procs
    <3>2. ToSet(output) = {}
      BY <1>b, <3>1 DEF PiecesKept, Settled
    <3>3. c \notin InFlight /\ \A d \in InFlight : post'[d] = post[d]
      BY <2>2, <2>3 DEF InFlight
    <3>4. output' = output \/ output' = <<>>
      BY <1>3, <2>3 DEF Commit, UpdateRow, rowVars
    <3>5. output = <<>>
      <4>1. \A i \in DOMAIN output : output[i] \in ToSet(output)
        BY DEF ToSet
      <4>2. DOMAIN output = 1 .. Len(output) /\ Len(output) \in Nat
        BY <1>a, LenProperties
      <4>3. Len(output) = 0
        BY <3>2, <4>1, <4>2
      <4> QED
        BY <1>a, <4>3, EmptySeq
    <3> QED
      BY <1>1, <3>3, <3>4, <3>5
  <2>4. CASE post[c].stage = "progress"
    <3>1. output' = output \o post[c].data /\ c \in InFlight /\ post[c].data \in Seq(Pieces)
      BY <1>3, <2>1, <2>4, StagesListed DEF Commit, UpdateRow, InFlight
    <3>2. c \notin InFlight'
      <4>1. post'[c] = [post[c] EXCEPT !.at = "committed", !.ended = EndsRun(post[c])]
        BY <1>3, <1>a, <2>4 DEF Commit
      <4>2. post'[c].at = "committed"
        BY <2>1, <4>1 DEF Requests
      <4> QED
        BY <4>2 DEF InFlight
    <3>3. InFlight' = InFlight \ {c} /\ \A d \in InFlight \ {c} : Carried(d)' = Carried(d)
                                                               /\ post'[d].data = post[d].data
      BY <2>2, <3>2 DEF InFlight, Carried
    <3>4. ToSet(output') = ToSet(output) \cup Carried(c)
      BY <1>a, <3>1, ConcatSet DEF Carried
    <3>5. IsInjective(post[c].data) /\ ToSet(output) \cap ToSet(post[c].data) = {}
      BY <1>b, <3>1 DEF PiecesApart, Carried, Settled
    <3>6. IsInjective(output')
      BY <1>a, <1>b, <3>1, <3>5, ConcatInjective DEF PiecesApart
    <3>7. Settled' = Settled \cup Carried(c)
      BY <1>a, <3>4 DEF Settled
    <3>8. PiecesKept'
      <4>1. UNION {Carried(d) : d \in InFlight} = Carried(c) \cup (UNION {Carried(d) : d \in InFlight \ {c}})
        BY <3>1
      <4>2. (UNION {Carried(d) : d \in InFlight})' = UNION {Carried(d) : d \in InFlight \ {c}}
        BY <3>3
      <4> QED
        BY <1>a, <1>b, <3>7, <4>1, <4>2 DEF PiecesKept
    <3>9. PiecesApart'
      <4>1. ToSet(output') \cap ToSet(pending') = {} /\ IsInjective(pending')
        BY <1>a, <1>b, <3>1, <3>4 DEF PiecesApart, Settled
      <4>2. \A d \in InFlight' : Carried(d)' \cap Settled' = {} /\ IsInjective(post'[d].data)
        BY <1>b, <3>1, <3>3, <3>7 DEF PiecesApart
      <4>3. \A d, e \in InFlight' : d # e => Carried(d)' \cap Carried(e)' = {}
        BY <1>b, <3>3 DEF PiecesApart
      <4> QED
        BY <3>6, <4>1, <4>2, <4>3 DEF PiecesApart
    <3> QED
      BY <3>8, <3>9 DEF EachPlaced
  <2>5. CASE post[c].stage \in Ended
    <3>1. c = Main
      BY <1>a, <2>1, <2>5 DEF Order, OwnReports, Clients, Procs, Ended
    <3> QED
      BY <1>a, <2>1, <2>5, <3>1 DEF Order, OwnReports
  <2> QED
    BY <2>1, <2>3, <2>4, <2>5 DEF Stages, Ended
<1> QED
  BY <1>2, <1>3 DEF Server

LEMMA PlacesHold == StreamSpec => []EachPlaced
<1>1. StreamInit => EachPlaced
  <2> SUFFICES ASSUME StreamInit PROVE PiecesApart /\ PiecesKept
    BY DEF EachPlaced
  <2>1. full = <<>> /\ pending = <<>> /\ output = <<>> /\ InFlight = {}
    BY DEF StreamInit, InFlight
  <2>2. ToSet(output) = {} /\ ToSet(pending) = {} /\ IsInjective(output) /\ IsInjective(pending)
    BY <2>1 DEF ToSet, IsInjective
  <2>3. 1 .. Len(full) = {}
    BY <2>1
  <2> QED
    BY <2>1, <2>2, <2>3 DEF PiecesApart, PiecesKept, Settled
<1>2. EachPlaced /\ (Viewer \/ UNCHANGED vars) => EachPlaced'
  BY ViewerTakes, PlacesUnchanged DEF vars, agentVars, rowVars, auxVars, InFlight
<1>3. TypeInv /\ Order /\ EachPlaced /\ [StreamNext]_vars => EachPlaced'
  BY <1>2, AgentPlaced, FaultsPlaced, ServerPlaced DEF StreamNext
<1> QED
  BY <1>1, <1>3, TypesHold, OrderHolds, PTL DEF StreamSpec

\* EachPieceOnce: while the command runs, no piece is lost, doubled or in two places.
THEOREM PiecesAreKept == StreamSpec => []EachPieceOnce
<1>1. TypeInv /\ EachPlaced => EachPieceOnce
  <2> SUFFICES ASSUME TypeInv, EachPlaced, breaks = 0, pc[Main] # "ended"
               PROVE  /\ IsInjective(output \o pending)
                      /\ \A i \in DOMAIN full :
                           Cardinality({c \in InFlight : i \in ToSet(post[c].data)})
                             + (IF i \in ToSet(output \o pending) THEN 1 ELSE 0) = 1
    BY DEF EachPieceOnce
  <2>1. PiecesApart /\ PiecesKept /\ output \in Seq(Pieces) /\ pending \in Seq(Pieces) /\ full \in Seq(Pieces)
    BY DEF EachPlaced, TypeInv, StreamTyped
  <2>2. IsInjective(output \o pending)
    BY <2>1, ConcatInjective DEF PiecesApart
  <2>3. ToSet(output \o pending) = Settled
    BY <2>1, ConcatSet DEF Settled
  <2>4. ASSUME NEW i \in DOMAIN full
        PROVE  Cardinality({c \in InFlight : i \in Carried(c)}) + (IF i \in Settled THEN 1 ELSE 0) = 1
    <3> DEFINE holders == {c \in InFlight : i \in Carried(c)}
    <3>1. i \in Settled \cup (UNION {Carried(c) : c \in InFlight})
      BY <2>1, <2>4, LenProperties DEF PiecesKept
    <3>2. CASE i \in Settled
      <4>1. holders = {}
        BY <2>1, <3>2 DEF PiecesApart
      <4> QED
        BY <3>2, <4>1, FS_EmptySet
    <3>3. CASE i \notin Settled
      <4>1. PICK c \in InFlight : i \in Carried(c)
        BY <3>1, <3>3
      <4>2. holders = {c}
        BY <2>1, <4>1 DEF PiecesApart
      <4>3. Cardinality({c}) = 1
        BY FS_Singleton
      <4> QED
        BY <3>3, <4>2, <4>3
    <3> QED
      BY <3>2, <3>3
  <2> QED
    BY <2>2, <2>3, <2>4 DEF Carried
<1> QED
  BY <1>1, TypesHold, PlacesHold, PTL

-----------------------------------------------------------------------------
(* The end of the run.                                                     *)

\* The run's goroutine has ended when its final report is posted, and writes nothing after it.
LEMMA AgentFinal == TypeInv /\ Finished /\ Agent => Finished'
<1> SUFFICES ASSUME TypeInv, Finished, Agent PROVE Finished'
  OBVIOUS
<1> USE StreamAssumption
<1>1. Main \in Procs /\ Writers \subseteq Procs /\ (\A w \in Writers : w # Main)
      /\ pc \in [Procs -> {"start", "steps", "copy", "flush", "drain", "trailer", "tail", "final", "ended"}]
  BY DEF TypeInv, StreamTyped, Procs, Clients
<1>2. UNCHANGED <<status, output, breaks>>
  BY DEF Agent, PostStarted, StepsEnd, WriteTrailer, PostFinal, Write, CopyEnds, Flush, Record, auxVars, rowVars
<1>3. pc[Main] = "ended" => pc'[Main] = "ended" /\ full' = full
  BY <1>1 DEF Agent, PostStarted, StepsEnd, WriteTrailer, PostFinal, Write, CopyEnds, Flush, AfterFlush
<1> QED
  BY <1>2, <1>3 DEF Finished

LEMMA ServerFinal == TypeInv /\ Order /\ Finished /\ Server => Finished'
<1> SUFFICES ASSUME TypeInv, Order, Finished, Server, breaks = 0, status' = "completed"
             PROVE  pc[Main] = "ended" /\ output' = full
  BY ServerPosts DEF Finished, agentVars
<1>1. CASE ~\E c \in Clients : Commit(c)
  <2>1. UNCHANGED output /\ status = "completed"
    BY <1>1 DEF Server, ServerEnds, Snapshot, SendEvent, Answer, rowVars
  <2> QED
    BY <2>1 DEF Finished
<1>2. ASSUME NEW c \in Clients, Commit(c) PROVE pc[Main] = "ended" /\ output' = full
  <2>1. /\ post[c] # NoPost /\ UpdateRow(post[c]) /\ post[c].stage \in Stages
        /\ c = Main \/ c \in Writers
    <3>1. post[c] # NoPost /\ UpdateRow(post[c]) /\ post[c] \in Requests
      BY <1>2 DEF Commit, TypeInv, StreamTyped
    <3>2. c # Ghost
      BY <3>1 DEF Order, NoGhost
    <3> QED
      BY <3>1, <3>2, StagesListed DEF Clients, Procs
  <2>2. CASE status = "completed"
    <3>1. pc[Main] = "ended" /\ output = full
      BY <2>2 DEF Finished
    <3>2. c = Main /\ post[c].stage \in Ended
      BY <2>1, <3>1 DEF Order, CopiesFirst, OwnReports
    <3> QED
      BY <2>1, <2>2, <3>1, <3>2 DEF UpdateRow, Ended, rowVars
  <2>3. CASE status # "completed"
    <3>1. post[c].stage = "completed" /\ output' = post[c].data
      BY <2>1, <2>3 DEF UpdateRow, Stages, rowVars
    <3> QED
      BY <2>1, <3>1 DEF Order, OwnReports, Ended
  <2> QED
    BY <2>2, <2>3
<1> QED
  BY <1>1, <1>2

LEMMA FinalHolds == StreamSpec => []Finished
<1>1. StreamInit => Finished
  BY DEF StreamInit, Finished
<1>2. Finished /\ (Viewer \/ UNCHANGED vars) => Finished'
  BY ViewerTakes DEF Finished, vars, agentVars, rowVars, auxVars
<1>3. TypeInv /\ Finished /\ Faults => Finished'
  BY FaultPosts DEF Finished, agentVars, rowVars
<1>4. TypeInv /\ Order /\ Finished /\ [StreamNext]_vars => Finished'
  BY <1>2, <1>3, AgentFinal, ServerFinal DEF StreamNext
<1> QED
  BY <1>1, <1>4, TypesHold, OrderHolds, PTL DEF StreamSpec

\* FinalOutputWhole: no late chunk is appended to the report that completed the run.
THEOREM CompletedOutputIsWhole == StreamSpec => []FinalOutputWhole
<1>1. Finished => FinalOutputWhole
  BY DEF Finished, FinalOutputWhole
<1> QED
  BY <1>1, FinalHolds, PTL

-----------------------------------------------------------------------------
(* The notification of the end.                                            *)
NoticeInv == EndsCommitted /\ OneNotice /\ NoticeDue

\* A request that comes, goes or moves on without having ended the run changes nothing.
LEMMA NoticeKept ==
  ASSUME NoticeInv, UNCHANGED <<status, notified, panicked, cut>>,
         \A c \in Clients :
           \/ post'[c] = post[c]
           \/ /\ post[c] # NoPost /\ post'[c] # NoPost /\ post'[c].at # "arrived"
              /\ post'[c].stage = post[c].stage /\ post'[c].ended = post[c].ended
           \/ /\ post[c] = NoPost \/ post[c].ended = FALSE
              /\ post'[c] = NoPost \/ post'[c].ended = FALSE
  PROVE  NoticeInv'
<1>1. Ghost \in Clients
  BY DEF Clients
<1>2. \A c \in Clients : Completing(c)' <=> Completing(c)
  BY DEF Completing
<1>3. EndsCommitted'
  BY <1>1 DEF NoticeInv, EndsCommitted
<1>4. OneNotice' /\ NoticeDue'
  BY <1>2 DEF NoticeInv, OneNotice, NoticeDue
<1> QED
  BY <1>3, <1>4 DEF NoticeInv

LEMMA AgentNotice == TypeInv /\ Order /\ NoticeInv /\ Agent => NoticeInv'
<1> SUFFICES ASSUME TypeInv, Order, NoticeInv, Agent PROVE NoticeInv'
  OBVIOUS
<1>a. /\ post \in [Clients -> Requests \cup {NoPost}] /\ full \in Seq(Pieces) /\ pending \in Seq(Pieces)
      /\ Main \in Procs /\ Procs \subseteq Clients /\ <<>> \in Seq(Pieces)
  BY DEF TypeInv, StreamTyped, Procs, Clients
<1>b. UNCHANGED <<status, notified, panicked, cut>>
  BY DEF Agent, PostStarted, StepsEnd, WriteTrailer, PostFinal, Write, CopyEnds, Flush, Record, auxVars, rowVars
<1>c. UNCHANGED post => NoticeInv'
  BY <1>b, NoticeKept
<1>1. ASSUME NEW p \in Procs, NEW stage \in Stages, NEW data \in Seq(Pieces), Send(p, stage, data), post[p] = NoPost
      PROVE  NoticeInv'
  <2>1. post'[p].ended = FALSE /\ \A c \in Clients \ {p} : post'[c] = post[c]
    BY <1>1, SendPosts DEF TypeInv
  <2> QED
    BY <1>1, <1>b, <2>1, NoticeKept
<1>2. PostStarted => NoticeInv'
  BY <1>1, <1>a DEF PostStarted, Stages, Order, OwnReports
<1>3. PostFinal => NoticeInv'
  <2>1. PostFinal => \E stage \in {"completed", "cancelled"} : Send(Main, stage, full)
    BY DEF PostFinal
  <2> QED
    BY <1>1, <1>a, <2>1 DEF PostFinal, Waiting, Stages
<1>4. StepsEnd \/ WriteTrailer \/ (\E w \in Writers : Write(w) \/ CopyEnds(w)) => NoticeInv'
  BY <1>c DEF StepsEnd, WriteTrailer, Write, CopyEnds, Record
<1>5. ASSUME NEW p \in Procs, Flush(p) PROVE NoticeInv'
  BY <1>1, <1>5, <1>a, <1>c DEF Flush, Waiting, Stages
<1> QED
  BY <1>2, <1>3, <1>4, <1>5 DEF Agent

\* A fault that takes the report that ended the run is recorded in cut; the copy that is posted
\* again has ended nothing.
LEMMA FaultsNotice == TypeInv /\ NoticeInv /\ Faults => NoticeInv'
<1> SUFFICES ASSUME TypeInv, NoticeInv, Faults PROVE NoticeInv'
  OBVIOUS
<1>a. /\ post \in [Clients -> Requests \cup {NoPost}] /\ Procs \subseteq Clients /\ Ghost \in Clients
      /\ Ghost \notin Procs
  BY StreamAssumption DEF TypeInv, StreamTyped, Procs, Clients
<1>b. UNCHANGED <<status, notified, panicked>>
  BY FaultPosts DEF rowVars
<1>c. ASSUME \A c \in Clients : Completing(c) => Completing(c)' \/ cut', cut => cut',
             \A c \in Clients : Completing(c)' => \E d \in Clients : Completing(d),
             \A c, d \in Clients : c # d /\ Completing(c)' /\ Completing(d)' =>
               \E e, h \in Clients : e # h /\ Completing(e) /\ Completing(h)
      PROVE  OneNotice' /\ NoticeDue'
  <2>1. \A c \in Clients : Completing(c)' => \A e \in Clients \ {c} : ~Completing(e)'
    BY <1>c DEF NoticeInv, OneNotice
  <2>2. OneNotice'
    BY <1>b, <1>c, <2>1 DEF NoticeInv, OneNotice
  <2>3. NoticeDue'
    BY <1>b, <1>c DEF NoticeInv, NoticeDue
  <2> QED
    BY <2>2, <2>3
<1>1. ASSUME NEW c \in Clients, UpdateFails(c) PROVE NoticeInv'
  <2>1. /\ post'[c] = NoPost /\ \A d \in Clients \ {c} : post'[d] = post[d]
        /\ cut' = (cut \/ (post[c] # NoPost /\ post[c].ended))
    BY <1>1, <1>a DEF UpdateFails, EndAtRisk
  <2>2. EndsCommitted'
    BY <1>a, <2>1 DEF NoticeInv, EndsCommitted
  <2>3. \A d \in Clients : Completing(d) => Completing(d)' \/ cut'
    BY <2>1 DEF Completing
  <2>4. \A d \in Clients : Completing(d)' => Completing(d)
    BY <2>1 DEF Completing
  <2>5. OneNotice' /\ NoticeDue'
    BY <1>c, <2>1, <2>3, <2>4
  <2> QED
    BY <2>2, <2>5 DEF NoticeInv
<1>2. ASSUME NEW p \in Procs, Break(p) PROVE NoticeInv'
  <2>1. PICK again \in Again(p) : post' = [post EXCEPT ![Ghost] = post[p], ![p] = again]
    BY <1>2 DEF Break
  <2>2. /\ post'[Ghost] = post[p] /\ post'[p] = again /\ \A d \in Clients \ {p, Ghost} : post'[d] = post[d]
        /\ post[Ghost] = NoPost /\ cut' = (cut \/ (post[p] # NoPost /\ post[p].ended)) /\ p # Ghost /\ p \in Clients
    BY <1>2, <1>a, <2>1 DEF Break, EndAtRisk
  <2>3. again = NoPost \/ again.ended = FALSE
    BY <2>1 DEF Again, Request
  <2>4. EndsCommitted'
    BY <1>a, <2>2, <2>3 DEF NoticeInv, EndsCommitted
  <2>5. ~Completing(p)' /\ ~Completing(Ghost) /\ (Completing(Ghost)' <=> Completing(p))
        /\ \A d \in Clients \ {p, Ghost} : Completing(d)' <=> Completing(d)
    BY <2>2, <2>3 DEF Completing
  <2>6. Completing(p) => cut'
    BY <2>2 DEF Completing
  <2>7. OneNotice' /\ NoticeDue'
    <3>1. \A c \in Clients : Completing(c) => Completing(c)' \/ cut'
      BY <2>5, <2>6
    <3>2. \A c \in Clients : Completing(c)' => \E d \in Clients : Completing(d)
      BY <2>2, <2>5
    <3>3. \A c, d \in Clients : c # d /\ Completing(c)' /\ Completing(d)' =>
            \E e, h \in Clients : e # h /\ Completing(e) /\ Completing(h)
      BY <2>2, <2>5
    <3> QED
      BY <1>c, <2>2, <3>1, <3>2, <3>3
  <2> QED
    BY <2>4, <2>7 DEF NoticeInv
<1>3. CASE ServerCrash
  <2>1. \A c \in Clients : post'[c] = NoPost \/ post'[c].ended = FALSE
    <3>1. PICK again \in SUBSET Procs : post' = [c \in Clients |->
            IF c \in again /\ post[c] # NoPost THEN Request(post[c].stage, post[c].data) ELSE NoPost]
      BY <1>3 DEF ServerCrash
    <3>2. \A c \in Clients : Request(post[c].stage, post[c].data).ended = FALSE
      BY DEF Request
    <3> QED
      BY <3>1, <3>2
  <2>2. cut' = (cut \/ \E c \in Clients : post[c] # NoPost /\ post[c].ended)
    BY <1>3 DEF ServerCrash, EndAtRisk
  <2>3. EndsCommitted'
    BY <1>a, <2>1 DEF EndsCommitted
  <2>4. \A c \in Clients : ~Completing(c)' /\ (Completing(c) => cut')
    BY <2>1, <2>2 DEF Completing
  <2>5. OneNotice' /\ NoticeDue'
    BY <1>c, <2>2, <2>4
  <2> QED
    BY <2>3, <2>5 DEF NoticeInv
<1> QED
  BY <1>1, <1>2, <1>3, <1>a DEF Faults, GhostStops, Refuse

\* The first report of a completion ends the run; every later one finds it ended.
LEMMA CommitNotice ==
  ASSUME TypeInv, NoticeInv, NEW c \in Clients, Commit(c)
  PROVE  NoticeInv'
<1>1. /\ post[c] # NoPost /\ post[c].at = "arrived" /\ post[c].stage \in Stages /\ post[c] \in Requests
      /\ UpdateRow(post[c]) /\ notified' = notified /\ panicked' = panicked
      /\ cut' = (cut \/ (c = Ghost /\ EndsRun(post[c])))
      /\ post \in [Clients -> Requests \cup {NoPost}] /\ Ghost \in Clients
  <2>1. post[c] # NoPost /\ post[c] \in Requests /\ post \in [Clients -> Requests \cup {NoPost}]
    BY DEF Commit, TypeInv, StreamTyped
  <2> QED
    BY <2>1, StagesListed DEF Commit, Clients
<1>2. \A d \in Clients \ {c} : post'[d] = post[d]
  BY <1>1 DEF Commit
<1>3. \/ post[c].stage = "started" /\ post'[c] = NoPost
      \/ /\ post[c].stage # "started" /\ post'[c].stage = post[c].stage /\ post'[c].at = "committed"
         /\ post'[c].ended = EndsRun(post[c]) /\ post'[c] # NoPost
  <2>1. CASE post[c].stage = "started"
    BY <1>1, <2>1 DEF Commit
  <2>2. CASE post[c].stage # "started"
    <3> DEFINE r == [post[c] EXCEPT !.at = "committed", !.ended = EndsRun(post[c])]
    <3>1. post'[c] = r
      BY <1>1, <2>2 DEF Commit
    <3>2. EndsRun(post[c]) \in BOOLEAN
      BY DEF EndsRun
    <3>3. r \in Requests /\ r.stage = post[c].stage /\ r.at = "committed" /\ r.ended = EndsRun(post[c])
      BY <1>1, <3>2, RequestUpdated DEF Requests
    <3> HIDE DEF r
    <3> QED
      BY <2>2, <3>1, <3>3, NoPostAssumption
  <2> QED
    BY <2>1, <2>2
<1>4. EndsCommitted'
  <2>1. EndsRun(post[c]) => post[c].stage \in Ended
    BY DEF EndsRun, Ended
  <2> QED
    BY <1>1, <1>2, <1>3, <2>1 DEF NoticeInv, EndsCommitted
<1>5. ~Completing(c) /\ \A d \in Clients \ {c} : Completing(d)' <=> Completing(d)
  BY <1>1, <1>2 DEF NoticeInv, EndsCommitted, Completing
<1>6. CASE post[c].stage = "completed" /\ status \notin Ended
  <2>1. status' = "completed" /\ status # "completed" /\ EndsRun(post[c])
    BY <1>1, <1>6 DEF UpdateRow, EndsRun, Ended
  <2>2. Completing(c)'
    BY <1>3, <1>6, <2>1 DEF Completing
  <2> QED
    BY <1>1, <1>4, <1>5, <2>1, <2>2 DEF NoticeInv, OneNotice, NoticeDue
<1>7. CASE ~(post[c].stage = "completed" /\ status \notin Ended)
  <2>1. ~Completing(c)'
    BY <1>3, <1>7 DEF Completing, EndsRun
  <2>2. status' = "completed" <=> status = "completed"
    BY <1>1, <1>7 DEF UpdateRow, Stages, Ended, rowVars
  <2> QED
    BY <1>1, <1>4, <1>5, <2>1, <2>2 DEF NoticeInv, OneNotice, NoticeDue
<1> QED
  BY <1>6, <1>7

LEMMA ServerNotice == TypeInv /\ NoticeInv /\ Server => NoticeInv'
<1> SUFFICES ASSUME TypeInv, NoticeInv, Server PROVE NoticeInv'
  OBVIOUS
<1>a. post \in [Clients -> Requests \cup {NoPost}] /\ Ghost \in Clients /\ notified \in 0 .. 2
  BY DEF TypeInv, StreamTyped, Clients
<1>b. \A c \in Clients : post[c] # NoPost => post[c] \in Requests
  BY <1>a
\* A handler's last step.
<1>c. ASSUME NEW c \in Clients, post' = [post EXCEPT ![c] = NoPost], UNCHANGED <<status, cut>>
      PROVE  /\ EndsCommitted' /\ ~Completing(c)'
             /\ \A d \in Clients \ {c} : Completing(d)' <=> Completing(d)
  <2>1. post'[c] = NoPost /\ \A d \in Clients \ {c} : post'[d] = post[d]
    BY <1>a, <1>c
  <2> QED
    BY <1>a, <1>c, <2>1 DEF NoticeInv, EndsCommitted, Completing
<1>1. CASE ServerEnds
  <2>1. status # "completed" /\ status' # "completed" /\ UNCHANGED <<post, notified, cut>>
    BY <1>1 DEF ServerEnds, auxVars
  <2> QED
    BY <2>1 DEF NoticeInv, EndsCommitted, OneNotice, NoticeDue, Completing
<1>2. ASSUME NEW c \in Clients, Snapshot(c) PROVE NoticeInv'
  <2>1. UNCHANGED <<status, notified, panicked, cut>> /\ post[c] # NoPost /\ subs \in SUBSET Viewers
    BY <1>2 DEF Snapshot, rowVars, auxVars, TypeInv, StreamTyped
  <2> DEFINE r == [post[c] EXCEPT !.at = "sending", !.todo = subs]
  <2>2. post'[c] = r /\ \A d \in Clients \ {c} : post'[d] = post[d]
    BY <1>2, <1>a DEF Snapshot
  <2>3. r \in Requests /\ r.stage = post[c].stage /\ r.at = "sending" /\ r.ended = post[c].ended
    <3>1. post[c] \in Requests
      BY <1>b, <2>1
    <3>2. r \in Requests
      BY <2>1, <3>1, RequestUpdated
    <3> QED
      BY <3>1, <3>2 DEF Requests
  <2> HIDE DEF r
  <2> QED
    BY <2>1, <2>2, <2>3, NoticeKept, NoPostAssumption
<1>3. ASSUME NEW c \in Clients, SendEvent(c) PROVE NoticeInv'
  <2>1. UNCHANGED <<status, notified, cut>> /\ post[c] \in Requests /\ post[c].at = "sending"
    BY <1>3, <1>b DEF SendEvent, rowVars
  <2>2. PICK v \in post[c].todo :
          \/ panicked' = panicked \cup {EventOf(post[c])} /\ post' = [post EXCEPT ![c] = NoPost]
          \/ panicked' = panicked /\ post' = [post EXCEPT ![c].todo = @ \ {v}]
    BY <1>3 DEF SendEvent
  <2>3. CASE panicked' = panicked \cup {EventOf(post[c])} /\ post' = [post EXCEPT ![c] = NoPost]
    <3>1. Completing(c) => "done" \in panicked'
      BY <2>3 DEF Completing, EventOf
    <3> QED
      BY <1>c, <2>1, <2>3, <3>1 DEF NoticeInv, OneNotice, NoticeDue
  <2>4. CASE panicked' = panicked /\ post' = [post EXCEPT ![c].todo = @ \ {v}]
    <3> DEFINE r == [post[c] EXCEPT !.todo = post[c].todo \ {v}]
    <3>1. post'[c] = r /\ \A d \in Clients \ {c} : post'[d] = post[d]
      BY <1>a, <2>4
    <3>2. post[c].todo \ {v} \in SUBSET Viewers
      BY <2>1, StagesListed
    <3>3. r.stage = post[c].stage /\ r.at = post[c].at /\ r.ended = post[c].ended /\ r \in Requests
      BY <2>1, <3>2, RequestUpdated DEF Requests
    <3> HIDE DEF r
    <3> QED
      BY <2>1, <2>4, <3>1, <3>3, NoticeKept, NoPostAssumption
  <2> QED
    BY <2>2, <2>3, <2>4
<1>4. ASSUME NEW c \in Clients, Answer(c) PROVE NoticeInv'
  <2>1. UNCHANGED <<status, panicked, cut>> /\ post[c] # NoPost /\ post' = [post EXCEPT ![c] = NoPost]
    BY <1>4 DEF Answer, rowVars
  <2>2. CASE Completing(c)
    <3>1. /\ status = "completed" /\ notified = 0 /\ \A d \in Clients \ {c} : ~Completing(d)
      BY <2>2 DEF NoticeInv, OneNotice
    <3>2. notified' = 1 \/ (notified' = notified /\ c = Ghost)
      BY <1>4, <2>2, <3>1 DEF Answer, Completing
    <3>3. c = Ghost => cut
      BY <2>2 DEF NoticeInv, EndsCommitted, Completing
    <3>4. EndsCommitted' /\ \A d \in Clients : ~Completing(d)'
      BY <1>c, <2>1, <3>1
    <3>5. notified' <= 1 /\ (cut' \/ notified' = 1) /\ status' = "completed"
      BY <2>1, <3>1, <3>2, <3>3
    <3> QED
      BY <3>4, <3>5 DEF NoticeInv, OneNotice, NoticeDue
  <2>3. CASE ~Completing(c)
    <3>1. notified' = notified
      BY <1>4, <2>1, <2>3 DEF Answer, Completing
    <3> QED
      BY <1>c, <2>1, <2>3, <3>1 DEF NoticeInv, OneNotice, NoticeDue
  <2> QED
    BY <2>2, <2>3
<1> QED
  BY <1>1, <1>2, <1>3, <1>4, CommitNotice DEF Server

LEMMA NoticesHold == StreamSpec => []NoticeInv
<1>1. StreamInit => NoticeInv
  BY DEF StreamInit, NoticeInv, EndsCommitted, OneNotice, NoticeDue, Completing, Clients
<1>2. NoticeInv /\ (Viewer \/ UNCHANGED vars) => NoticeInv'
  <2>1. Viewer \/ UNCHANGED vars => UNCHANGED <<status, notified, panicked, cut, post>>
    BY ViewerTakes DEF vars, rowVars, auxVars
  <2> QED
    BY <2>1, NoticeKept
<1>3. TypeInv /\ Order /\ NoticeInv /\ [StreamNext]_vars => NoticeInv'
  BY <1>2, AgentNotice, FaultsNotice, ServerNotice DEF StreamNext
<1> QED
  BY <1>1, <1>3, TypesHold, OrderHolds, PTL DEF StreamSpec

\* EndNoticed: a completion is never notified twice, and it is notified when the handlers have
\* answered, unless a fault took the report that ended the run or a publish panicked.
THEOREM CompletionIsNoticed == StreamSpec => []EndNoticed
<1>1. NoticeInv => EndNoticed
  BY DEF NoticeInv, OneNotice, NoticeDue, Completing, EndNoticed
<1> QED
  BY <1>1, NoticesHold, PTL

-----------------------------------------------------------------------------
(* What a page shows.                                                      *)
LEMMA ConcatExtends ==
  ASSUME NEW a \in Seq(Pieces), NEW b \in Seq(Pieces)
  PROVE  IsPrefix(a, a \o b)
<1>1. a \o b \in Seq(Pieces) /\ Len(a) \in Nat /\ Len(b) \in Nat /\ Len(a \o b) = Len(a) + Len(b)
      /\ \A i \in 1 .. Len(a) : (a \o b)[i] = a[i]
  BY ConcatProperties, LenProperties
<1>2. SubSeq(a, 1, Len(a)) = SubSeq(a \o b, 1, Len(a))
  BY <1>1
<1> QED
  BY <1>1, <1>2 DEF IsPrefix

LEMMA CommitGrows ==
  ASSUME TypeInv, Order, EachPlaced, breaks = 0, NEW c \in Clients, Commit(c)
  PROVE  \/ output' = full \/ output' = output
         \/ pc[Main] # "ended" /\ IsPrefix(output, output')
<1> USE StreamAssumption
<1>0. /\ post[c] # NoPost /\ UpdateRow(post[c]) /\ output \in Seq(Pieces)
      /\ post[c].stage \in Stages /\ post[c].data \in Seq(Pieces)
  <2>1. post[c] # NoPost /\ UpdateRow(post[c]) /\ post[c] \in Requests /\ output \in Seq(Pieces)
    BY DEF Commit, TypeInv, StreamTyped
  <2> QED
    BY <2>1, StagesListed
<1>1. c = Main \/ c \in Writers
  BY <1>0 DEF Order, NoGhost, Clients, Procs
<1>2. CASE post[c].stage = "started"
  <2>1. c = Main
    BY <1>0, <1>1, <1>2 DEF Order, OwnReports
  <2>2. full = <<>> /\ pc[Main] # "ended"
    BY <1>0, <1>2, <2>1 DEF Order, OwnReports
  <2>3. ToSet(output) = {}
    BY <2>2 DEF EachPlaced, PiecesKept, Settled
  <2>4. output = <<>>
    <3>1. DOMAIN output = {}
      BY <2>3 DEF ToSet
    <3> QED
      BY <1>0, <3>1, LenProperties, EmptySeq
  <2> QED
    BY <1>0, <1>2, <2>4 DEF UpdateRow, rowVars
<1>3. CASE post[c].stage = "progress"
  <2>1. pc[Main] # "ended"
    BY <1>0, <1>1, <1>3 DEF Order, OwnReports, CopiesFirst, Ended
  <2>2. output' = output \o post[c].data
    BY <1>0, <1>3 DEF UpdateRow
  <2> QED
    BY <1>0, <2>1, <2>2, ConcatExtends
<1>4. CASE post[c].stage \in Ended
  <2>1. c = Main
    BY <1>0, <1>1, <1>4 DEF Order, OwnReports, Ended
  <2>2. post[c].data = full
    BY <1>0, <1>4, <2>1 DEF Order, OwnReports
  <2> QED
    BY <1>0, <1>4, <2>2 DEF UpdateRow, Ended, rowVars
<1> QED
  BY <1>0, <1>2, <1>3, <1>4 DEF Stages, Ended

\* OutputOnlyGrows: while connections hold, the text a page has shown is not taken back, and
\* nothing follows the final report.
THEOREM OutputGrows == StreamSpec => OutputOnlyGrows
<1> DEFINE Grows == breaks' = 0 => \/ output' = full \/ output' = output
                                   \/ pc[Main] # "ended" /\ IsPrefix(output, output')
<1>1. TypeInv /\ Order /\ EachPlaced /\ [StreamNext]_vars => [Grows]_vars
  <2> SUFFICES ASSUME TypeInv, Order, EachPlaced, StreamNext, breaks' = 0, output' # output
               PROVE  output' = full \/ (pc[Main] # "ended" /\ IsPrefix(output, output'))
    OBVIOUS
  <2>0. Agent => output' = output
    BY DEF Agent, PostStarted, StepsEnd, WriteTrailer, PostFinal, Write, CopyEnds, Flush, Record, rowVars
  <2>b. Faults => output' = output
    BY FaultPosts DEF rowVars
  <2>a. Viewer => output' = output
    BY ViewerTakes DEF rowVars
  <2>1. PICK c \in Clients : Commit(c)
    BY <2>0, <2>a, <2>b DEF StreamNext, Server, ServerEnds, Snapshot, SendEvent, Answer, rowVars
  <2>2. breaks = 0
    BY <2>1 DEF Commit, auxVars
  <2> QED
    BY <2>1, <2>2, CommitGrows
<1> QED
  BY <1>1, TypesHold, OrderHolds, PlacesHold, PTL DEF StreamSpec, OutputOnlyGrows

=============================================================================
