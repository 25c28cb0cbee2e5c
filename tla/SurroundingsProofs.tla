-------------------------- MODULE SurroundingsProofs --------------------------
(***************************************************************************)
(* Proofs about the components that Surroundings puts side by side: the    *)
(* events and their reader (EventFeed), the approval of batches            *)
(* (BatchApproval) and the resource governor (ResourceGovernor), each      *)
(* first by itself; the start of processes by the theorems of              *)
(* ProcessStartProofs.                                                     *)
(***************************************************************************)
EXTENDS Surroundings, Counting

-----------------------------------------------------------------------------
(* The events and their reader *)

\* The last event is still in the buffer.
BufferInv ==
  /\ epoch \in Nat \ {0} /\ sequence \in Nat /\ IsFiniteSet(buffer)
  /\ \A e \in buffer : e.n \in 1..sequence
  /\ sequence > 0 => \E e \in buffer : e.n = sequence

\* One and the same Cardinality, of FiniteSets, here and in EventFeed.
LEMMA FeedCounts == \A S : Feed!Cardinality(S) = Cardinality(S)
BY DEF Feed!Cardinality, Cardinality

Response == [epoch : Nat, last : Nat, gap : BOOLEAN, numbers : SUBSET Nat]

\* What a response on its way says of the numbers after the place of the reader.
ReaderInv ==
  /\ reader \in [epoch : Nat, last : Nat, known : SUBSET (Nat \X Nat),
                 phase : {"idle", "first", "again"}, response : Response]
  /\ reader.epoch = 0 => reader.last = 0
  /\ reader.phase # "idle" => reader.response.epoch # 0
  /\ reader.phase = "first" /\ ~reader.response.gap =>
       \A n \in (reader.last + 1)..reader.response.last : n \in reader.response.numbers

FeedInv == BufferInv /\ ReaderInv /\ Feed!NoSilentGap

\* Without a gap every number after the request is in the buffer.
LEMMA NothingMissing ==
  ASSUME BufferInv, NEW after \in Nat, after < sequence,
         NEW events, events = {e \in buffer : e.n > after}, ~Feed!Gap(events, after),
         NEW n \in (after + 1)..sequence
  PROVE  \E e \in events : e.n = n
<1> DEFINE S == {k \in Nat : k < sequence - after => \E e \in events : e.n = sequence - k}
<1>1. 0 \in S
  <2>1. PICK e \in buffer : e.n = sequence
    BY DEF BufferInv
  <2> QED
    BY <2>1 DEF BufferInv
<1>2. ASSUME NEW k \in S PROVE k + 1 \in S
  <2> SUFFICES ASSUME k + 1 < sequence - after
               PROVE  \E e \in events : e.n = sequence - (k + 1)
    OBVIOUS
  <2>0. k \in Nat /\ sequence \in Nat
    BY DEF BufferInv
  <2>1. PICK e \in events : e.n = sequence - k
    BY <2>0
  <2>2. e.n # after + 1
    BY <2>0, <2>1
  <2>3. PICK d \in events : e.n = d.n + 1
    BY <2>2 DEF Feed!Gap, Feed!Loose
  <2>4. d.n \in Nat
    BY DEF BufferInv
  <2> QED
    BY <2>0, <2>1, <2>3, <2>4
<1>3. S = Nat
  BY <1>1, <1>2, NumberInduction
<1>4. sequence - n \in Nat /\ sequence - n < sequence - after /\ sequence - (sequence - n) = n
  BY DEF BufferInv
<1>5. sequence - n \in S
  BY <1>3, <1>4
<1> QED
  BY <1>4, <1>5

\* A page that is cut out of some events has a last event.
LEMMA PageEnds ==
  ASSUME BufferInv, Limit \in Nat \ {0}, NEW events \in SUBSET buffer, events # {}
  PROVE  LET page == {e \in events : Feed!Cardinality({d \in events : d.n < e.n}) < Limit} IN
         \E b \in page : \A d \in page : d.n <= b.n
<1> DEFINE page == {e \in events : Feed!Cardinality({d \in events : d.n < e.n}) < Limit}
           numbers == {e.n : e \in events}
           steps == {sequence - e.n : e \in page}
<1>1. \A e \in events : e.n \in 1..sequence
  BY DEF BufferInv
<1>2. page # {}
  <2>1. numbers \in SUBSET Nat /\ numbers # {}
    BY <1>1
  <2>2. PICK k \in numbers : \A m \in numbers : k <= m
    BY <2>1, LeastNumber
  <2>3. PICK e \in events : e.n = k
    OBVIOUS
  <2>4. {d \in events : d.n < e.n} = {}
    BY <1>1, <2>2, <2>3
  <2>5. Feed!Cardinality({d \in events : d.n < e.n}) = 0
    BY <2>4, FS_EmptySet, FeedCounts
  <2> QED
    BY <2>5
<1>3. steps \in SUBSET Nat /\ steps # {}
  <2>1. \A e \in page : sequence - e.n \in Nat
    BY <1>1 DEF BufferInv
  <2> QED
    BY <1>2, <2>1
<1>4. PICK k \in steps : \A m \in steps : k <= m
  BY <1>3, LeastNumber
<1>5. PICK b \in page : k = sequence - b.n
  OBVIOUS
<1>6. ASSUME NEW d \in page PROVE d.n <= b.n
  <2>1. sequence - b.n <= sequence - d.n
    BY <1>4, <1>5
  <2>2. d.n \in 1..sequence /\ b.n \in 1..sequence /\ sequence \in Nat
    BY <1>1 DEF BufferInv
  <2> QED
    BY <2>1, <2>2
<1> QED
  BY <1>6

\* A response that reports no gap brings every number between the request and
\* its own last one.
LEMMA AnswerWhole ==
  ASSUME BufferInv, Limit \in Nat \ {0}, NEW after \in Nat,
         NEW answer, answer = Feed!Answer(after)
  PROVE  /\ answer \in Response /\ answer.epoch = epoch
         /\ ~answer.gap => \A n \in (after + 1)..answer.last : n \in answer.numbers
<1> DEFINE events == {e \in buffer : e.n > after}
           below(e) == {d \in events : d.n < e.n}
           page == {e \in events : Feed!Cardinality(below(e)) < Limit}
           last == IF Feed!Cardinality(events) > Limit
                     THEN CHOOSE n \in {e.n : e \in Feed!Last(page)} : TRUE ELSE sequence
<1>1. answer = [epoch |-> epoch, last |-> last, gap |-> Feed!Gap(events, after),
                numbers |-> {e.n : e \in page}]
  BY DEF Feed!Answer
<1>2. /\ IsFiniteSet(events) /\ Cardinality(events) \in Nat /\ events \in SUBSET buffer
      /\ \A e \in events : IsFiniteSet(below(e)) /\ Cardinality(below(e)) \in Nat
      /\ \A e \in events : Cardinality(below(e)) < Cardinality(events)
  <2>0. events \in SUBSET buffer
    OBVIOUS
  <2>1. IsFiniteSet(events) /\ events \in SUBSET buffer
    BY <2>0, FS_Subset DEF BufferInv
  <2>2. ASSUME NEW e \in events
        PROVE  /\ IsFiniteSet(below(e)) /\ Cardinality(below(e)) \in Nat
               /\ Cardinality(below(e)) < Cardinality(events)
    <3>1. e.n \in Nat
      BY DEF BufferInv
    <3>2. below(e) \in SUBSET events /\ e \notin below(e)
      BY <3>1
    <3> HIDE DEF below, events
    <3>3. IsFiniteSet(below(e)) /\ Cardinality(below(e)) <= Cardinality(events)
          /\ Cardinality(below(e)) # Cardinality(events)
      BY <2>1, <3>2, FS_Subset
    <3> QED
      BY <2>1, <3>3, FS_CardinalityType
  <2> QED
    BY <2>1, <2>2, FS_CardinalityType
<1>3. last \in Nat /\ (~Feed!Gap(events, after) =>
        \A n \in (after + 1)..last : \E e \in page : e.n = n)
  <2>1. CASE Feed!Cardinality(events) > Limit
    <3>1. events # {}
      BY <2>1, FS_EmptySet, FeedCounts
    <3>2. \E b \in page : \A d \in page : d.n <= b.n
      BY <3>1, PageEnds
    <3>3. PICK b \in page : last = b.n /\ \A d \in page : d.n <= b.n
      <4>1. {e.n : e \in Feed!Last(page)} # {}
        BY <3>2 DEF Feed!Last
      <4>2. last \in {e.n : e \in Feed!Last(page)}
        BY <2>1, <4>1
      <4> QED
        BY <4>2 DEF Feed!Last
    <3>4. b.n \in 1..sequence /\ b \in events /\ b.n > after /\ sequence \in Nat
      BY DEF BufferInv
    <3>5. ASSUME ~Feed!Gap(events, after), NEW n \in (after + 1)..last
          PROVE  \E e \in page : e.n = n
      <4>1. after < sequence /\ n \in (after + 1)..sequence
        BY <3>3, <3>4
      <4>2. PICK e \in events : e.n = n
        BY <4>1, <3>5, NothingMissing
      <4>3. below(e) \in SUBSET below(b)
        <5>1. \A d \in events : d.n \in Nat
          BY DEF BufferInv
        <5> QED
          BY <5>1, <3>3, <3>4, <4>2
      <4>4. Cardinality(below(b)) < Limit
        BY FeedCounts
      <4>5. e \in page
        <5> HIDE DEF below, events
        <5>1. Cardinality(below(e)) <= Cardinality(below(b))
          BY <1>2, <3>4, <4>3, FS_Subset
        <5> QED
          BY <1>2, <3>4, <4>2, <4>4, <5>1, FeedCounts
      <4> QED
        BY <4>2, <4>5
    <3>6. last \in Nat
      BY <3>3, <3>4
    <3> HIDE DEF last, page, events
    <3> QED
      BY <3>5, <3>6
  <2>2. CASE ~(Feed!Cardinality(events) > Limit)
    <3>1. last = sequence /\ sequence \in Nat
      BY <2>2 DEF BufferInv
    <3>2. page = events
      <4>1. ASSUME NEW e \in events PROVE Feed!Cardinality(below(e)) < Limit
        <5> HIDE DEF below, events
        <5>1. /\ Feed!Cardinality(below(e)) = Cardinality(below(e))
              /\ Feed!Cardinality(events) = Cardinality(events)
          BY FeedCounts
        <5> QED
          BY <1>2, <2>2, <5>1
      <4> QED
        BY <4>1
    <3>3. ASSUME ~Feed!Gap(events, after), NEW n \in (after + 1)..last
          PROVE  \E e \in page : e.n = n
      <4>1. after < sequence /\ n \in (after + 1)..sequence
        <5> HIDE DEF last
        <5> QED
          BY <3>1
      <4> QED
        BY <3>2, <3>3, <4>1, NothingMissing
    <3> HIDE DEF last, page, events
    <3> QED
      BY <3>1, <3>3
  <2> QED
    BY <2>1, <2>2
<1>4. {e.n : e \in page} \in SUBSET Nat /\ epoch \in Nat /\ Feed!Gap(events, after) \in BOOLEAN
  <2>1. \A e \in page : e.n \in Nat
    BY DEF BufferInv
  <2>2. Feed!Gap(events, after) \in BOOLEAN
    <3> HIDE DEF events
    <3> QED
      BY DEF Feed!Gap
  <2> HIDE DEF page
  <2> QED
    BY <2>1, <2>2 DEF BufferInv
<1> HIDE DEF last, page, events
<1>5. answer.last = last /\ answer.gap = Feed!Gap(events, after)
      /\ answer.numbers = {e.n : e \in page}
  BY <1>1
<1>6. answer \in Response
  BY <1>1, <1>3, <1>4 DEF Response
<1> QED
  BY <1>1, <1>3, <1>5, <1>6

LEMMA FeedInit == Feed!Init => FeedInv
<1> SUFFICES ASSUME Feed!Init PROVE FeedInv
  OBVIOUS
<1>1. BufferInv
  BY FS_EmptySet DEF Feed!Init, BufferInv
<1>2. Feed!NoResponse \in Response
  BY DEF Feed!NoResponse, Response
<1>3. ReaderInv
  BY <1>2 DEF Feed!Init, ReaderInv
<1>4. Feed!NoSilentGap
  BY DEF Feed!Init, Feed!NoSilentGap
<1> QED
  BY <1>1, <1>3, <1>4 DEF FeedInv

\* The server: what it emits is the new last event, a new process has none.
LEMMA EmitStep ==
  ASSUME BufferInv, NEW job, NEW persisted, Feed!Emit(job, persisted)
  PROVE  BufferInv' /\ reader' = reader
<1> DEFINE new == [n |-> sequence + 1, job |-> job, persisted |-> persisted]
<1>1. PICK dropped : buffer' = (buffer \ dropped) \union {new}
  BY DEF Feed!Emit
<1>2. sequence' = sequence + 1 /\ epoch' = epoch /\ reader' = reader /\ new.n = sequence + 1
  BY DEF Feed!Emit
<1> HIDE DEF new
<1>3. IsFiniteSet(buffer')
  <2>1. IsFiniteSet(buffer \ dropped)
    BY FS_Difference DEF BufferInv
  <2> QED
    BY <1>1, <2>1, FS_AddElement
<1> QED
  BY <1>1, <1>2, <1>3 DEF BufferInv

LEMMA RestartStep == BufferInv /\ Feed!Restart => BufferInv' /\ reader' = reader
<1> SUFFICES ASSUME BufferInv, Feed!Restart PROVE BufferInv' /\ reader' = reader
  OBVIOUS
<1>1. IsFiniteSet(buffer')
  BY FS_EmptySet DEF Feed!Restart
<1> QED
  BY <1>1 DEF BufferInv, Feed!Restart

LEMMA KeptBuffer == BufferInv /\ UNCHANGED <<epoch, sequence, buffer>> => BufferInv'
BY DEF BufferInv

LEMMA KeptReader ==
  ReaderInv /\ Feed!NoSilentGap /\ UNCHANGED reader => ReaderInv' /\ Feed!NoSilentGap'
BY DEF ReaderInv, Feed!NoSilentGap

\* The reader: the answer to a request stands until it is taken, since the
\* place of the reader does not move before.
LEMMA PollStep ==
  ASSUME FeedInv, Limit \in Nat \ {0}, Feed!Poll
  PROVE  FeedInv'
<1> DEFINE answer == Feed!Answer(reader.last)
<1>1. /\ reader' = [reader EXCEPT !.phase = "first", !.response = answer]
      /\ UNCHANGED <<epoch, sequence, buffer>>
  BY DEF Feed!Poll
<1>2. /\ answer \in Response /\ answer.epoch = epoch
      /\ ~answer.gap => \A n \in (reader.last + 1)..answer.last : n \in answer.numbers
  BY AnswerWhole DEF FeedInv, ReaderInv
<1> HIDE DEF answer
<1>3. /\ reader'.phase = "first" /\ reader'.response = answer /\ reader'.last = reader.last
      /\ reader'.epoch = reader.epoch /\ reader'.known = reader.known
  BY <1>1 DEF FeedInv, ReaderInv
<1>4. ReaderInv'
  <2>1. reader' \in [epoch : Nat, last : Nat, known : SUBSET (Nat \X Nat),
                     phase : {"idle", "first", "again"}, response : Response]
    BY <1>1, <1>2 DEF FeedInv, ReaderInv
  <2> QED
    BY <1>2, <1>3, <2>1 DEF FeedInv, BufferInv, ReaderInv
<1>5. Feed!NoSilentGap'
  BY <1>3 DEF FeedInv, Feed!NoSilentGap
<1> QED
  BY <1>1, <1>4, <1>5, KeptBuffer DEF FeedInv

LEMMA PollAgainStep ==
  ASSUME FeedInv, Limit \in Nat \ {0}, Feed!PollAgain
  PROVE  FeedInv'
<1> DEFINE answer == Feed!Answer(0)
<1>1. /\ reader' = [reader EXCEPT !.phase = "again", !.response = answer]
      /\ UNCHANGED <<epoch, sequence, buffer>>
  BY DEF Feed!PollAgain
<1>2. answer \in Response /\ answer.epoch = epoch
  BY AnswerWhole DEF FeedInv
<1> HIDE DEF answer
<1>3. /\ reader'.phase = "again" /\ reader'.response = answer /\ reader'.last = reader.last
      /\ reader'.epoch = reader.epoch /\ reader'.known = reader.known
  BY <1>1 DEF FeedInv, ReaderInv
<1>4. ReaderInv'
  <2>1. reader' \in [epoch : Nat, last : Nat, known : SUBSET (Nat \X Nat),
                     phase : {"idle", "first", "again"}, response : Response]
    BY <1>1, <1>2 DEF FeedInv, ReaderInv
  <2> QED
    BY <1>2, <1>3, <2>1 DEF FeedInv, BufferInv, ReaderInv
<1>5. Feed!NoSilentGap'
  BY <1>3 DEF FeedInv, Feed!NoSilentGap
<1> QED
  BY <1>1, <1>4, <1>5, KeptBuffer DEF FeedInv

LEMMA LoseStep == FeedInv /\ Feed!Lose => FeedInv'
<1> SUFFICES ASSUME FeedInv, Feed!Lose PROVE FeedInv'
  OBVIOUS
<1>1. /\ reader' = [reader EXCEPT !.phase = "idle", !.response = Feed!NoResponse]
      /\ UNCHANGED <<epoch, sequence, buffer>>
  BY DEF Feed!Lose
<1>2. Feed!NoResponse \in Response
  BY DEF Feed!NoResponse, Response
<1>3. /\ reader'.phase = "idle" /\ reader'.last = reader.last
      /\ reader'.epoch = reader.epoch /\ reader'.known = reader.known
  BY <1>1 DEF FeedInv, ReaderInv
<1>4. ReaderInv'
  <2>1. reader' \in [epoch : Nat, last : Nat, known : SUBSET (Nat \X Nat),
                     phase : {"idle", "first", "again"}, response : Response]
    BY <1>1, <1>2 DEF FeedInv, ReaderInv
  <2> QED
    BY <1>3, <2>1 DEF FeedInv, ReaderInv
<1>5. Feed!NoSilentGap'
  BY <1>3 DEF FeedInv, Feed!NoSilentGap
<1> QED
  BY <1>1, <1>4, <1>5, KeptBuffer DEF FeedInv

\* A response that is taken moves the reader and says what became of the
\* numbers in between; one that resets it says so of all.
LEMMA TakeStep ==
  ASSUME FeedInv, Feed!Take \/ Feed!TakeAgain
  PROVE  FeedInv'
<1> DEFINE response == reader.response
<1>1. /\ response \in Response /\ response.epoch # 0 /\ reader.known \in SUBSET (Nat \X Nat)
      /\ reader.last \in Nat /\ reader.epoch \in Nat
  BY DEF FeedInv, ReaderInv, Feed!Take, Feed!TakeAgain
<1>2. /\ reader'.epoch = response.epoch /\ reader'.last = response.last /\ reader'.phase = "idle"
      /\ UNCHANGED <<epoch, sequence, buffer>>
  <2>1. CASE Feed!Take
    BY <2>1 DEF Feed!Take
  <2>2. CASE Feed!TakeAgain
    BY <2>2 DEF Feed!TakeAgain
  <2> QED
    BY <2>1, <2>2
<1>3. response.epoch \in Nat /\ response.last \in Nat /\ response.numbers \in SUBSET Nat
  BY <1>1 DEF Response
<1>4. \A from \in Nat, gap \in BOOLEAN : Feed!Learned(from, gap) \in SUBSET (Nat \X Nat)
  BY <1>3 DEF Feed!Learned
<1>5. ReaderInv'
  <2>1. response.gap \in BOOLEAN /\ Feed!NoResponse \in Response
    BY <1>1 DEF Response, Feed!NoResponse
  <2>2. reader' \in [epoch : Nat, last : Nat, known : SUBSET (Nat \X Nat),
                     phase : {"idle", "first", "again"}, response : Response]
    <3>1. CASE Feed!Take
      <4>1. reader.known \union Feed!Learned(reader.last, response.gap) \in SUBSET (Nat \X Nat)
        BY <1>1, <1>4, <2>1
      <4> QED
        BY <1>3, <2>1, <3>1, <4>1 DEF Feed!Take
    <3>2. CASE Feed!TakeAgain
      <4>1. Feed!Learned(0, TRUE) \in SUBSET (Nat \X Nat)
        BY <1>4
      <4> QED
        BY <1>3, <2>1, <3>2, <4>1 DEF Feed!TakeAgain
    <3> QED
      BY <3>1, <3>2
  <2> QED
    BY <1>1, <1>2, <2>2 DEF ReaderInv
<1>6. Feed!NoSilentGap'
  <2> SUFFICES ASSUME NEW n \in 1..response.last
               PROVE  <<response.epoch, n>> \in reader'.known
    BY <1>2 DEF Feed!NoSilentGap
  <2>1. CASE Feed!TakeAgain
    <3>1. reader'.known = Feed!Learned(0, TRUE)
      BY <2>1 DEF Feed!TakeAgain
    <3> QED
      BY <3>1 DEF Feed!Learned
  <2>2. CASE Feed!Take
    <3>1. /\ reader'.known = reader.known \union Feed!Learned(reader.last, response.gap)
          /\ reader.epoch # 0 => response.epoch = reader.epoch
      BY <2>2 DEF Feed!Take, Feed!Reset
    <3>2. CASE n <= reader.last
      <4>1. reader.last # 0 /\ n \in 1..reader.last
        BY <1>1, <1>3, <3>2
      <4>2. reader.epoch = response.epoch
        BY <3>1, <4>1 DEF FeedInv, ReaderInv
      <4> QED
        BY <3>1, <4>1, <4>2 DEF FeedInv, Feed!NoSilentGap
    <3>3. CASE n > reader.last
      <4>1. n \in (reader.last + 1)..response.last
        BY <1>1, <1>3, <3>3
      <4>2. response.gap \/ n \in response.numbers
        BY <2>2, <4>1 DEF FeedInv, ReaderInv, Feed!Take
      <4> QED
        BY <3>1, <4>1, <4>2 DEF Feed!Learned
    <3> QED
      BY <1>1, <1>3, <3>2, <3>3
  <2> QED
    BY <2>1, <2>2
<1> QED
  BY <1>2, <1>5, <1>6, KeptBuffer DEF FeedInv

LEMMA FeedNext ==
  ASSUME FeedInv, Limit \in Nat \ {0}, [Feed!Next]_Feed!vars
  PROVE  FeedInv'
<1>1. ASSUME NEW job \in Jobs, NEW persisted \in BOOLEAN, Feed!Emit(job, persisted) PROVE FeedInv'
  BY <1>1, EmitStep, KeptReader DEF FeedInv
<1>2. CASE Feed!Restart
  BY <1>2, RestartStep, KeptReader DEF FeedInv
<1>3. CASE Feed!Poll
  BY <1>3, PollStep
<1>4. CASE Feed!PollAgain
  BY <1>4, PollAgainStep
<1>5. CASE Feed!Lose
  BY <1>5, LoseStep
<1>6. CASE Feed!Take \/ Feed!TakeAgain
  BY <1>6, TakeStep
<1>7. CASE UNCHANGED Feed!vars
  BY <1>7, KeptBuffer, KeptReader DEF FeedInv, Feed!vars
<1> QED
  BY <1>1, <1>2, <1>3, <1>4, <1>5, <1>6, <1>7 DEF Feed!Next

\* A reader that moves past an event has got it or was told of a gap, for every
\* capacity of the buffer and every size of the page that is not zero, through
\* merged and dropped events, lost responses and restarts of the server.
LEMMA FeedTells ==
  ASSUME Limit \in Nat \ {0}
  PROVE  Feed!Spec => []Feed!NoSilentGap
<1>1. FeedInv /\ [Feed!Next]_Feed!vars => FeedInv'
  BY FeedNext
<1>2. FeedInv => Feed!NoSilentGap
  BY DEF FeedInv
<1> QED
  BY <1>1, <1>2, FeedInit, PTL DEF Feed!Spec

-----------------------------------------------------------------------------
(* The approval of batches *)

\* One and the same Cardinality here and in BatchApproval.
LEMMA ApprovalCounts == \A S : Approval!Cardinality(S) = Cardinality(S)
BY DEF Approval!Cardinality, Cardinality

Manifest == [batch : Nat, sources : SUBSET Source, limit : Nat, expires : Nat, deadline : Nat]

Row == [batch : Nat, source : Source, limit : Nat, deadline : Nat, admitted : Nat, life : Nat,
        status : Approval!Status]

ApprovalTyped ==
  /\ clock \in Nat /\ life \in Nat
  /\ singles \in [admitted : Nat, resumed : Nat, stopped : Nat]
  /\ issued \in SUBSET [key : Nat, manifest : Manifest] /\ IsFiniteSet(issued)
  /\ rows \in SUBSET Row /\ IsFiniteSet(rows)
  /\ handler \in [Thread -> [manifest : Manifest, left : SUBSET Source]]

\* What a thread works on is a manifest that this process has shown.
Confirmed ==
  \A t \in Thread : handler[t].manifest # Approval!NoManifest =>
    [key |-> life, manifest |-> handler[t].manifest] \in issued

\* Digest stands for the row: it was approved as it is, in time ...
Covers(digest, r) ==
  /\ digest.manifest.batch = r.batch /\ digest.key = r.life
  /\ r.source \in digest.manifest.sources
  /\ r.limit = digest.manifest.limit /\ r.deadline = digest.manifest.deadline
  /\ r.admitted < r.deadline

\* ... and each source of the manifest has a row or had one.
Whole(m) ==
  \A s \in m.sources : \/ \E q \in rows : q.batch = m.batch /\ q.source = s
                      \/ <<m.batch, s>> \in gone

RowsApproved == \A r \in rows : \E digest \in issued : Covers(digest, r) /\ Whole(digest.manifest)

\* The jobs that are active since their admission, and what becomes of them.
SinceAdmission == {r \in rows : r.status = "admitted"}
Fitted         == Approval!InStatus("admitted") <= QueueCapacity

ApprovalInv == ApprovalTyped /\ Confirmed /\ RowsApproved /\ Fitted

LEMMA Honoured == Approval!ApprovalHonoured <=> RowsApproved /\ Fitted
BY DEF Approval!ApprovalHonoured, RowsApproved, Covers, Whole, Fitted

LEMMA IdleTyped ==
  /\ Approval!NoManifest \in Manifest
  /\ Approval!Idle \in [manifest : Manifest, left : SUBSET Source]
  /\ Approval!Idle.manifest = Approval!NoManifest
BY DEF Approval!NoManifest, Approval!Idle, Manifest

\* The jobs in a status, counted with the Cardinality of this module.
LEMMA StatusCount ==
  /\ Approval!InStatus("admitted") = singles.admitted + Cardinality(SinceAdmission)
  /\ Approval!InStatus("admitted")' = singles'.admitted + Cardinality(SinceAdmission')
  /\ Approval!InStatus("resumed") = singles.resumed + Cardinality({r \in rows : r.status = "resumed"})
BY ApprovalCounts DEF Approval!InStatus, SinceAdmission

\* What is active since its admission is some of what is active.
LEMMA ActiveCount ==
  ASSUME ApprovalTyped
  PROVE  /\ Approval!InStatus("admitted") \in Nat /\ Approval!ActiveRows \in Nat
         /\ Approval!InStatus("admitted") <= Approval!ActiveRows
<1>1. IsFiniteSet(SinceAdmission) /\ IsFiniteSet({r \in rows : r.status = "resumed"})
  BY FS_Subset DEF ApprovalTyped, SinceAdmission
<1>2. /\ Cardinality(SinceAdmission) \in Nat
      /\ Cardinality({r \in rows : r.status = "resumed"}) \in Nat
  BY <1>1, FS_CardinalityType
<1>3. singles.admitted \in Nat /\ singles.resumed \in Nat
  BY DEF ApprovalTyped
<1>4. Approval!InStatus("admitted") \in Nat /\ Approval!InStatus("resumed") \in Nat
  BY <1>2, <1>3, StatusCount
<1> QED
  BY <1>4 DEF Approval!ActiveRows

\* Fewer or the same of these rows and jobs keep to the capacity.
LEMMA FewerActive ==
  ASSUME ApprovalInv, QueueCapacity \in Nat,
         singles'.admitted \in Nat, singles'.admitted <= singles.admitted,
         SinceAdmission' \in SUBSET SinceAdmission
  PROVE  Fitted'
<1>1. IsFiniteSet(SinceAdmission) /\ singles.admitted \in Nat
  BY FS_Subset DEF ApprovalInv, ApprovalTyped, SinceAdmission
<1>2. /\ Cardinality(SinceAdmission') <= Cardinality(SinceAdmission)
      /\ Cardinality(SinceAdmission') \in Nat /\ Cardinality(SinceAdmission) \in Nat
  BY <1>1, FS_Subset, FS_CardinalityType
<1>3. singles.admitted + Cardinality(SinceAdmission) <= QueueCapacity
  BY StatusCount DEF ApprovalInv, Fitted
<1>4. singles'.admitted + Cardinality(SinceAdmission') <= QueueCapacity
  BY <1>1, <1>2, <1>3
<1> QED
  BY <1>4, StatusCount DEF Fitted

\* Rows that change their status or are deleted are still approved.
LEMMA RowsEnd ==
  ASSUME ApprovalInv, issued' = issued, gone \subseteq gone',
         \A r \in rows' : \E q \in rows :
           /\ r.batch = q.batch /\ r.source = q.source /\ r.limit = q.limit
           /\ r.deadline = q.deadline /\ r.admitted = q.admitted /\ r.life = q.life,
         \A q \in rows : \/ \E r \in rows' : r.batch = q.batch /\ r.source = q.source
                         \/ <<q.batch, q.source>> \in gone'
  PROVE  RowsApproved'
<1>1. ASSUME NEW m, Whole(m) PROVE Whole(m)'
  BY <1>1 DEF Whole
<1>2. ASSUME NEW r \in rows' PROVE \E digest \in issued : Covers(digest, r) /\ Whole(digest.manifest)'
  <2>1. PICK q \in rows :
          /\ r.batch = q.batch /\ r.source = q.source /\ r.limit = q.limit
          /\ r.deadline = q.deadline /\ r.admitted = q.admitted /\ r.life = q.life
    OBVIOUS
  <2>2. PICK digest \in issued : Covers(digest, q) /\ Whole(digest.manifest)
    BY DEF ApprovalInv, RowsApproved
  <2> QED
    BY <1>1, <2>1, <2>2 DEF Covers
<1> QED
  BY <1>2 DEF RowsApproved, Covers, Whole

\* Some rows end, or are resumed.
LEMMA StatusStep ==
  ASSUME ApprovalInv, QueueCapacity \in Nat,
         NEW some \in SUBSET rows, NEW status \in Approval!Status \ {"admitted"},
         Approval!Turned(some, status),
         UNCHANGED <<issued, singles, gone>>
  PROVE  /\ rows' \in SUBSET Row /\ IsFiniteSet(rows')
         /\ RowsApproved' /\ Fitted'
<1> DEFINE turned(r) == [r EXCEPT !.status = status]
           ended == {turned(r) : r \in some}
<1>1. \A r \in some : /\ turned(r) \in Row
                      /\ turned(r).status = status
                      /\ turned(r).batch = r.batch /\ turned(r).source = r.source
                      /\ turned(r).limit = r.limit /\ turned(r).deadline = r.deadline
                      /\ turned(r).admitted = r.admitted /\ turned(r).life = r.life
  BY DEF ApprovalInv, ApprovalTyped, Row
<1>2. rows' = (rows \ some) \union ended
  BY DEF Approval!Turned
<1> HIDE DEF turned
<1>3. \A r \in ended : \E q \in some :
        /\ r \in Row /\ r.status = status /\ r.batch = q.batch /\ r.source = q.source
        /\ r.limit = q.limit /\ r.deadline = q.deadline /\ r.admitted = q.admitted
        /\ r.life = q.life
  BY <1>1
<1>4. \A q \in some : \E r \in ended : r.batch = q.batch /\ r.source = q.source
  BY <1>1
<1>5. IsFiniteSet(some) => IsFiniteSet(ended)
  <2> DEFINE f == [r \in some |-> turned(r)]
  <2>1. DOMAIN f = some /\ ended = {f[r] : r \in some}
    OBVIOUS
  <2> HIDE DEF f, ended
  <2> QED
    BY <2>1, ImageNoLarger
<1> HIDE DEF ended
<1>6. rows' \in SUBSET Row
  BY <1>3, <1>2 DEF ApprovalInv, ApprovalTyped
<1>7. IsFiniteSet(rows')
  <2>1. IsFiniteSet(some) /\ IsFiniteSet(rows \ some)
    BY FS_Subset, FS_Difference DEF ApprovalInv, ApprovalTyped
  <2>2. IsFiniteSet((rows \ some) \union ended)
    BY <1>5, <2>1, FS_Union
  <2> QED
    BY <1>2, <2>2
<1>8. RowsApproved'
  BY <1>3, <1>4, <1>2, RowsEnd
<1>9. SinceAdmission' \in SUBSET SinceAdmission
  BY <1>3, <1>2 DEF SinceAdmission
<1>10. singles'.admitted \in Nat /\ singles'.admitted <= singles.admitted
  BY DEF ApprovalInv, ApprovalTyped
<1> QED
  BY <1>6, <1>7, <1>8, <1>9, <1>10, FewerActive

LEMMA ApprovalInit ==
  ASSUME QueueCapacity \in Nat, Approval!Init
  PROVE  ApprovalInv
<1>1. ApprovalTyped
  BY IdleTyped, FS_EmptySet DEF Approval!Init, ApprovalTyped
<1>2. Confirmed
  BY IdleTyped DEF Approval!Init, Confirmed
<1>3. RowsApproved
  BY DEF Approval!Init, RowsApproved
<1>4. Fitted
  <2>1. SinceAdmission = {} /\ singles.admitted = 0
    BY DEF Approval!Init, SinceAdmission
  <2>2. Cardinality(SinceAdmission) = 0
    BY <2>1, FS_EmptySet
  <2> QED
    BY <2>1, <2>2, StatusCount DEF Fitted
<1> QED
  BY <1>1, <1>2, <1>3, <1>4 DEF ApprovalInv

\* What leaves rows, singles and deletions alone leaves the rows approved.
LEMMA RowsKept ==
  ASSUME ApprovalInv, UNCHANGED <<rows, singles, gone>>, issued \subseteq issued'
  PROVE  RowsApproved' /\ Fitted'
<1>1. RowsApproved'
  BY DEF ApprovalInv, RowsApproved, Covers, Whole
<1>2. Approval!InStatus("admitted")' = Approval!InStatus("admitted")
  BY StatusCount DEF SinceAdmission
<1> QED
  BY <1>1, <1>2 DEF ApprovalInv, Fitted

LEMMA TickStep ==
  ASSUME ApprovalInv, Approval!Tick
  PROVE  ApprovalInv'
<1>1. clock' = clock + 1 /\ UNCHANGED <<life, issued, handler, rows, singles, gone>>
  BY DEF Approval!Tick
<1>2. ApprovalTyped' /\ Confirmed'
  BY <1>1 DEF ApprovalInv, ApprovalTyped, Confirmed
<1> QED
  BY <1>1, <1>2, RowsKept DEF ApprovalInv

LEMMA PreviewStep ==
  ASSUME ApprovalInv, Spans \subseteq Nat, PreviewLeast \in Nat, PreviewMost \in Nat,
         Approval!Preview
  PROVE  ApprovalInv'
<1>1. PICK sources \in SUBSET Source, span \in Spans :
        issued' = issued \union
          {[key |-> life,
            manifest |-> [batch |-> Approval!Cardinality(issued) + 1, sources |-> sources, limit |-> 1,
                          expires |-> clock + Approval!PreviewTime(span), deadline |-> clock + span]]}
  BY DEF Approval!Preview
<1>2. UNCHANGED <<clock, life, handler, rows, singles, gone>>
  BY DEF Approval!Preview
<1> DEFINE m == [batch |-> Approval!Cardinality(issued) + 1, sources |-> sources, limit |-> 1,
                 expires |-> clock + Approval!PreviewTime(span), deadline |-> clock + span]
<1>3. m \in Manifest
  <2>1. Approval!Cardinality(issued) \in Nat
    BY ApprovalCounts, FS_CardinalityType DEF ApprovalInv, ApprovalTyped
  <2>2. span \in Nat /\ clock \in Nat
    BY DEF ApprovalInv, ApprovalTyped
  <2>3. Approval!PreviewTime(span) \in Nat
    BY <2>2 DEF Approval!PreviewTime
  <2> QED
    BY <2>1, <2>2, <2>3 DEF Manifest
<1> HIDE DEF m
<1>4. issued' = issued \union {[key |-> life, manifest |-> m]}
  BY <1>1 DEF m
<1>5. IsFiniteSet(issued')
  BY <1>4, FS_AddElement DEF ApprovalInv, ApprovalTyped
<1>6. ApprovalTyped'
  BY <1>2, <1>3, <1>4, <1>5 DEF ApprovalInv, ApprovalTyped
<1>7. Confirmed'
  BY <1>2, <1>4 DEF ApprovalInv, Confirmed
<1>8. issued \subseteq issued'
  BY <1>4
<1> QED
  BY <1>2, <1>6, <1>7, <1>8, RowsKept DEF ApprovalInv

\* A thread gets another task.
LEMMA TaskStep ==
  ASSUME ApprovalInv, NEW t \in Thread, NEW h \in [manifest : Manifest, left : SUBSET Source],
         Approval!Becomes(t, h), UNCHANGED <<clock, life, issued>>,
         h.manifest # Approval!NoManifest => [key |-> life, manifest |-> h.manifest] \in issued
  PROVE  handler' \in [Thread -> [manifest : Manifest, left : SUBSET Source]] /\ Confirmed'
<1>1. handler' = [handler EXCEPT ![t] = h]
  BY DEF Approval!Becomes
<1> QED
  BY <1>1 DEF ApprovalInv, ApprovalTyped, Confirmed

\* The manifest that a thread takes on is the one of the digest, not an edited one.
LEMMA ConfirmStep ==
  ASSUME ApprovalInv, NEW t \in Thread, Approval!Confirm(t)
  PROVE  ApprovalInv'
<1>1. PICK digest \in issued : \E manifest \in Approval!Edited(digest.manifest) :
        /\ Approval!Matches(digest, manifest)
        /\ Approval!Becomes(t, [manifest |-> manifest, left |-> manifest.sources])
  BY DEF Approval!Confirm
<1>2. PICK manifest :
        /\ Approval!Matches(digest, manifest)
        /\ Approval!Becomes(t, [manifest |-> manifest, left |-> manifest.sources])
  BY <1>1
<1>3. UNCHANGED <<clock, life, issued, rows, singles, gone>>
  BY DEF Approval!Confirm
<1>4. digest = [key |-> life, manifest |-> manifest]
  BY <1>2 DEF Approval!Matches
<1>5. manifest \in Manifest
  BY <1>4 DEF ApprovalInv, ApprovalTyped
<1>6. [manifest |-> manifest, left |-> manifest.sources] \in [manifest : Manifest, left : SUBSET Source]
  BY <1>5 DEF Manifest
<1>7. handler' \in [Thread -> [manifest : Manifest, left : SUBSET Source]] /\ Confirmed'
  BY <1>2, <1>3, <1>4, <1>6, TaskStep
<1>8. ApprovalTyped'
  BY <1>3, <1>7 DEF ApprovalInv, ApprovalTyped
<1> QED
  BY <1>3, <1>7, <1>8, RowsKept DEF ApprovalInv

LEMMA PrepareStep ==
  ASSUME ApprovalInv, NEW t \in Thread, Approval!PrepareItem(t)
  PROVE  ApprovalInv'
<1>1. PICK s \in handler[t].left :
        Approval!Becomes(t, [handler[t] EXCEPT !.left = handler[t].left \ {s}])
  BY DEF Approval!PrepareItem
<1>2. UNCHANGED <<clock, life, issued, rows, singles, gone>>
  BY DEF Approval!PrepareItem
<1> DEFINE h == [handler[t] EXCEPT !.left = handler[t].left \ {s}]
<1>3. handler[t] \in [manifest : Manifest, left : SUBSET Source]
  BY DEF ApprovalInv, ApprovalTyped
<1>4. h \in [manifest : Manifest, left : SUBSET Source] /\ h.manifest = handler[t].manifest
  BY <1>3
<1>5. h.manifest # Approval!NoManifest => [key |-> life, manifest |-> h.manifest] \in issued
  BY <1>4 DEF ApprovalInv, Confirmed
<1>6. Approval!Becomes(t, h)
  BY <1>1
<1> HIDE DEF h
<1>7. handler' \in [Thread -> [manifest : Manifest, left : SUBSET Source]] /\ Confirmed'
  BY <1>2, <1>4, <1>5, <1>6, TaskStep
<1>8. ApprovalTyped'
  BY <1>2, <1>7 DEF ApprovalInv, ApprovalTyped
<1> QED
  BY <1>2, <1>7, <1>8, RowsKept DEF ApprovalInv

LEMMA RefuseStep ==
  ASSUME ApprovalInv, NEW t \in Thread, Approval!Refuse(t)
  PROVE  ApprovalInv'
<1>1. Approval!Becomes(t, Approval!Idle) /\ UNCHANGED <<clock, life, issued, rows, singles, gone>>
  BY DEF Approval!Refuse
<1>2. handler' \in [Thread -> [manifest : Manifest, left : SUBSET Source]] /\ Confirmed'
  BY <1>1, IdleTyped, TaskStep
<1>3. ApprovalTyped'
  BY <1>1, <1>2 DEF ApprovalInv, ApprovalTyped
<1> QED
  BY <1>1, <1>2, <1>3, RowsKept DEF ApprovalInv

\* The rows that an admission adds are those that the manifest misses; they
\* fit into the capacity, and with them the batch is whole.
LEMMA AdmitStep ==
  ASSUME ApprovalInv, IsFiniteSet(Source), QueueCapacity \in Nat,
         NEW t \in Thread, Approval!Admit(t)
  PROVE  ApprovalInv'
<1> DEFINE manifest == handler[t].manifest
           missing == Approval!Missing(manifest)
           newRow(s) == [batch |-> manifest.batch, source |-> s, limit |-> manifest.limit,
                         deadline |-> manifest.deadline, admitted |-> clock, life |-> life,
                         status |-> "admitted"]
           new == {newRow(s) : s \in missing}
           digest == [key |-> life, manifest |-> manifest]
<1>1. /\ manifest # Approval!NoManifest /\ clock < manifest.deadline
      /\ missing = {} \/ Approval!ActiveRows + Approval!Cardinality(missing) <= QueueCapacity
      /\ rows' = rows \union new
      /\ Approval!Becomes(t, Approval!Idle)
      /\ UNCHANGED <<clock, life, issued, singles, gone>>
  BY DEF Approval!Admit
<1>2. manifest \in Manifest /\ digest \in issued /\ clock \in Nat /\ life \in Nat
  BY <1>1 DEF ApprovalInv, ApprovalTyped, Confirmed
<1>3. /\ manifest.sources \in SUBSET Source /\ manifest.batch \in Nat /\ manifest.limit \in Nat
      /\ manifest.deadline \in Nat
  BY <1>2 DEF Manifest
<1>4. missing \in SUBSET manifest.sources /\ IsFiniteSet(missing)
  <2>1. missing \in SUBSET manifest.sources
    BY DEF Approval!Missing
  <2> QED
    BY <1>3, <2>1, FS_Subset
<1>5. \A s \in manifest.sources \ missing : \E q \in rows : q.batch = manifest.batch /\ q.source = s
  BY DEF Approval!Missing
<1>6. digest.key = life /\ digest.manifest = manifest
  OBVIOUS
<1> HIDE DEF manifest, missing, digest
<1>7. \A s \in missing : /\ newRow(s) \in Row /\ newRow(s).batch = manifest.batch /\ newRow(s).source = s
                         /\ Covers(digest, newRow(s))
  BY <1>1, <1>2, <1>3, <1>4, <1>6 DEF Row, Covers, Approval!Status, Approval!Active
<1>8. IsFiniteSet(new) /\ Cardinality(new) <= Cardinality(missing)
  <2> DEFINE f == [s \in missing |-> newRow(s)]
  <2>1. DOMAIN f = missing /\ new = {f[s] : s \in missing}
    OBVIOUS
  <2> HIDE DEF f, new
  <2> QED
    BY <1>4, <2>1, ImageNoLarger
<1>9. new \in SUBSET Row /\ \A s \in missing : newRow(s) \in new
  BY <1>7
<1>10. \A r \in new : Covers(digest, r)
  BY <1>7
<1>11. missing = {} => new = {}
  OBVIOUS
<1> HIDE DEF newRow, new
<1>12. handler' \in [Thread -> [manifest : Manifest, left : SUBSET Source]] /\ Confirmed'
  BY <1>1, IdleTyped, TaskStep
<1>13. ApprovalTyped'
  <2>1. IsFiniteSet(rows')
    BY <1>1, <1>8, FS_Union DEF ApprovalInv, ApprovalTyped
  <2> QED
    BY <1>1, <1>9, <1>12, <2>1 DEF ApprovalInv, ApprovalTyped
<1>14. RowsApproved'
  <2>1. \A m : Whole(m) => Whole(m)'
    BY <1>1 DEF Whole
  <2>2. ASSUME NEW m, m = manifest PROVE Whole(m)'
    <3>1. m' = m /\ missing \subseteq m.sources
      BY <1>4, <2>2
    <3>2. ASSUME NEW s \in m.sources
          PROVE  \E q \in rows' : q.batch = m.batch /\ q.source = s
      <4>1. CASE s \in missing
        BY <1>1, <1>7, <1>9, <2>2, <4>1
      <4>2. CASE s \notin missing
        BY <1>1, <1>5, <2>2, <4>2
      <4> QED
        BY <4>1, <4>2
    <3> QED
      BY <3>1, <3>2 DEF Whole
  <2>3. \A r \in rows : \E d \in issued : Covers(d, r) /\ Whole(d.manifest)'
    BY <2>1 DEF ApprovalInv, RowsApproved
  <2>4. \A r \in rows' : \E d \in issued' : Covers(d, r) /\ Whole(d.manifest)'
    <3>1. ASSUME NEW r \in new PROVE Covers(digest, r) /\ \A m : m = digest.manifest => Whole(m)'
      BY <1>6, <1>10, <2>2
    <3>2. ASSUME NEW r \in new PROVE \E d \in issued : Covers(d, r) /\ Whole(d.manifest)'
      <4>1. PICK d \in issued : d = digest
        BY <1>2
      <4>2. Covers(d, r) /\ Whole(d.manifest)'
        BY <3>1, <4>1
      <4> QED
        BY <4>2
    <3> QED
      BY <1>1, <2>3, <3>2
  <2> QED
    BY <2>4 DEF RowsApproved, Covers, Whole
<1>15. Fitted'
  <2>1. CASE missing = {}
    <3>1. rows' = rows
      BY <1>1, <1>11, <2>1
    <3> QED
      BY <1>1, <3>1, RowsKept
  <2>2. CASE missing # {}
    <3>1. IsFiniteSet(SinceAdmission) /\ singles.admitted \in Nat
      BY FS_Subset DEF ApprovalInv, ApprovalTyped, SinceAdmission
    <3>2. SinceAdmission' \in SUBSET (SinceAdmission \union new)
      BY <1>1 DEF SinceAdmission
    <3>3. /\ IsFiniteSet(SinceAdmission \union new)
          /\ Cardinality(SinceAdmission \union new) = Cardinality(SinceAdmission) + Cardinality(new) - Cardinality(SinceAdmission \intersect new)
      BY <1>8, <3>1, FS_Union
    <3>4. IsFiniteSet(SinceAdmission \intersect new)
      BY <3>1, FS_Intersection
    <3>5. Cardinality(SinceAdmission') <= Cardinality(SinceAdmission \union new) /\ IsFiniteSet(SinceAdmission')
      BY <3>2, <3>3, FS_Subset
    <3>6. /\ Cardinality(SinceAdmission) \in Nat /\ Cardinality(new) \in Nat /\ Cardinality(SinceAdmission') \in Nat
          /\ Cardinality(SinceAdmission \intersect new) \in Nat /\ Cardinality(missing) \in Nat
      BY <1>4, <1>8, <3>1, <3>4, <3>5, FS_CardinalityType
    <3>7. Cardinality(SinceAdmission') <= Cardinality(SinceAdmission) + Cardinality(missing)
      BY <1>8, <3>3, <3>5, <3>6
    <3>8. Approval!InStatus("admitted") + Cardinality(missing) <= QueueCapacity
      BY <1>1, <2>2, <3>6, ApprovalCounts, ActiveCount DEF ApprovalInv
    <3>9. (singles.admitted + Cardinality(SinceAdmission)) + Cardinality(missing) <= QueueCapacity
      BY <3>8, StatusCount
    <3>10. singles'.admitted + Cardinality(SinceAdmission') <= QueueCapacity
      BY <1>1, <3>1, <3>6, <3>7, <3>9
    <3> QED
      BY <3>10, StatusCount DEF Fitted
  <2> QED
    BY <2>1, <2>2
<1> QED
  BY <1>12, <1>13, <1>14, <1>15 DEF ApprovalInv

\* Single jobs come and go: only an admission adds to those that are active
\* since their admission, and it finds room.
LEMMA SingleStep ==
  ASSUME ApprovalInv, QueueCapacity \in Nat,
         \/ Approval!CreateJob \/ Approval!EndSingle \/ Approval!ResumeSingle \/ Approval!DeleteSingle
  PROVE  ApprovalInv'
<1>1. UNCHANGED <<clock, life, issued, handler, rows, gone>>
  BY DEF Approval!CreateJob, Approval!EndSingle, Approval!ResumeSingle, Approval!DeleteSingle
<1>2. /\ singles' \in [admitted : Nat, resumed : Nat, stopped : Nat]
      /\ \/ singles'.admitted <= singles.admitted
         \/ Approval!ActiveRows < QueueCapacity /\ singles'.admitted = singles.admitted + 1
  <2>1. singles \in [admitted : Nat, resumed : Nat, stopped : Nat]
    BY DEF ApprovalInv, ApprovalTyped
  <2>2. CASE Approval!CreateJob
    <3>1. Approval!ActiveRows < QueueCapacity
      BY <2>2 DEF Approval!CreateJob
    <3>2. singles' = [singles EXCEPT !.admitted = singles.admitted + 1]
      BY <2>2 DEF Approval!CreateJob
    <3> QED
      BY <2>1, <3>1, <3>2
  <2>3. CASE Approval!EndSingle
    <3>1. PICK status \in {"admitted", "resumed"} :
            /\ singles[status] > 0
            /\ \/ singles' = [singles EXCEPT ![status] = singles[status] - 1]
               \/ singles' = [singles EXCEPT ![status] = singles[status] - 1,
                                           !.stopped = singles.stopped + 1]
      BY <2>3 DEF Approval!EndSingle, Approval!Active
    <3>2. /\ singles.admitted \in Nat /\ singles.resumed \in Nat /\ singles.stopped \in Nat
          /\ singles = [admitted |-> singles.admitted, resumed |-> singles.resumed,
                        stopped |-> singles.stopped]
      BY <2>1
    <3>3. CASE status = "admitted"
      <4>1. singles.admitted > 0
        BY <3>1, <3>3
      <4>2. \/ singles' = [admitted |-> singles.admitted - 1, resumed |-> singles.resumed,
                           stopped |-> singles.stopped]
            \/ singles' = [admitted |-> singles.admitted - 1, resumed |-> singles.resumed,
                           stopped |-> singles.stopped + 1]
        BY <3>1, <3>2, <3>3
      <4> QED
        BY <3>2, <4>1, <4>2
    <3>4. CASE status = "resumed"
      <4>1. singles.resumed > 0
        BY <3>1, <3>4
      <4>2. \/ singles' = [admitted |-> singles.admitted, resumed |-> singles.resumed - 1,
                           stopped |-> singles.stopped]
            \/ singles' = [admitted |-> singles.admitted, resumed |-> singles.resumed - 1,
                           stopped |-> singles.stopped + 1]
        BY <3>1, <3>2, <3>4
      <4> QED
        BY <3>2, <4>1, <4>2
    <3>5. status = "admitted" \/ status = "resumed"
      OBVIOUS
    <3> QED
      BY <3>3, <3>4, <3>5
  <2>4. CASE Approval!ResumeSingle
    <3>1. singles.stopped \in Nat /\ singles.stopped > 0 /\ singles.resumed \in Nat
      BY <2>1, <2>4 DEF Approval!ResumeSingle
    <3>2. singles' = [admitted |-> singles.admitted, resumed |-> singles.resumed + 1,
                      stopped |-> singles.stopped - 1]
      BY <2>1, <2>4 DEF Approval!ResumeSingle
    <3> QED
      BY <2>1, <3>1, <3>2
  <2>5. CASE Approval!DeleteSingle
    BY <2>1, <2>5 DEF Approval!DeleteSingle
  <2> QED
    BY <2>2, <2>3, <2>4, <2>5
<1>3. ApprovalTyped' /\ Confirmed'
  BY <1>1, <1>2 DEF ApprovalInv, ApprovalTyped, Confirmed
<1>4. RowsApproved'
  BY <1>1 DEF ApprovalInv, RowsApproved, Covers, Whole
<1>5. SinceAdmission' = SinceAdmission
  BY <1>1 DEF SinceAdmission
<1>6. Fitted'
  <2>1. CASE singles'.admitted <= singles.admitted
    BY <1>2, <1>5, <2>1, FewerActive
  <2>2. CASE Approval!ActiveRows < QueueCapacity /\ singles'.admitted = singles.admitted + 1
    <3>1. Approval!InStatus("admitted") \in Nat /\ Approval!InStatus("admitted") < QueueCapacity
      BY <2>2, ActiveCount DEF ApprovalInv
    <3>2. singles.admitted \in Nat /\ Cardinality(SinceAdmission) \in Nat
      BY FS_Subset, FS_CardinalityType DEF ApprovalInv, ApprovalTyped, SinceAdmission
    <3>3. singles'.admitted + Cardinality(SinceAdmission') <= QueueCapacity
      BY <1>5, <2>2, <3>1, <3>2, StatusCount
    <3> QED
      BY <3>3, StatusCount DEF Fitted
  <2> QED
    BY <1>2, <2>1, <2>2
<1> QED
  BY <1>3, <1>4, <1>6 DEF ApprovalInv

\* A row ends or is resumed; a batch is cancelled.
LEMMA TurnStep ==
  ASSUME ApprovalInv, QueueCapacity \in Nat,
         NEW some \in SUBSET rows, NEW status \in Approval!Status \ {"admitted"},
         Approval!Turned(some, status),
         UNCHANGED <<clock, life, issued, handler, singles, gone>>
  PROVE  ApprovalInv'
<1>1. rows' \in SUBSET Row /\ IsFiniteSet(rows') /\ RowsApproved' /\ Fitted'
  BY StatusStep
<1>2. ApprovalTyped' /\ Confirmed'
  BY <1>1 DEF ApprovalInv, ApprovalTyped, Confirmed
<1> QED
  BY <1>1, <1>2 DEF ApprovalInv

LEMMA EndStep ==
  ASSUME ApprovalInv, QueueCapacity \in Nat, Approval!End
  PROVE  ApprovalInv'
<1>1. PICK chosen \in rows, status \in Approval!Status \ Approval!Active :
        Approval!Turned({chosen}, status)
  BY DEF Approval!End
<1>2. status \in Approval!Status \ {"admitted"}
  BY DEF Approval!Active
<1>3. UNCHANGED <<clock, life, issued, handler, singles, gone>>
  BY DEF Approval!End
<1> QED
  BY <1>1, <1>2, <1>3, TurnStep, {chosen} \in SUBSET rows

\* A resumption may exceed the capacity, but not with what is active since its
\* admission.
LEMMA ResumeStep ==
  ASSUME ApprovalInv, QueueCapacity \in Nat, Approval!Resume
  PROVE  ApprovalInv'
<1>1. PICK chosen \in rows : Approval!Turned({chosen}, "resumed")
  BY DEF Approval!Resume
<1>2. "resumed" \in Approval!Status \ {"admitted"}
  BY DEF Approval!Status, Approval!Active
<1>3. UNCHANGED <<clock, life, issued, handler, singles, gone>>
  BY DEF Approval!Resume
<1> QED
  BY <1>1, <1>2, <1>3, TurnStep, {chosen} \in SUBSET rows

LEMMA CancelBatchStep ==
  ASSUME ApprovalInv, QueueCapacity \in Nat, Approval!CancelBatch
  PROVE  ApprovalInv'
<1>1. PICK batch \in 1..MaxBatch :
        Approval!Turned({r \in rows : r.batch = batch /\ r.status \in Approval!Active}, "stopped")
  BY DEF Approval!CancelBatch
<1>2. "stopped" \in Approval!Status \ {"admitted"}
  BY DEF Approval!Status
<1>3. UNCHANGED <<clock, life, issued, handler, singles, gone>>
  BY DEF Approval!CancelBatch
<1> DEFINE some == {r \in rows : r.batch = batch /\ r.status \in Approval!Active}
<1>4. some \in SUBSET rows
  OBVIOUS
<1>5. Approval!Turned(some, "stopped")
  BY <1>1
<1> HIDE DEF some
<1> QED
  BY <1>2, <1>3, <1>4, <1>5, TurnStep

LEMMA DeleteStep ==
  ASSUME ApprovalInv, QueueCapacity \in Nat, Approval!Delete
  PROVE  ApprovalInv'
<1>1. PICK ended \in rows : /\ rows' = rows \ {ended}
                           /\ gone' = gone \union {<<ended.batch, ended.source>>}
  BY DEF Approval!Delete
<1>2. UNCHANGED <<clock, life, issued, handler, singles>>
  BY DEF Approval!Delete
<1>3. IsFiniteSet(rows')
  BY <1>1, FS_RemoveElement DEF ApprovalInv, ApprovalTyped
<1>4. ApprovalTyped' /\ Confirmed'
  BY <1>1, <1>2, <1>3 DEF ApprovalInv, ApprovalTyped, Confirmed
<1>5. RowsApproved'
  BY <1>1, <1>2, RowsEnd
<1>6. SinceAdmission' \in SUBSET SinceAdmission
  BY <1>1 DEF SinceAdmission
<1>7. singles'.admitted \in Nat /\ singles'.admitted <= singles.admitted
  BY <1>2 DEF ApprovalInv, ApprovalTyped
<1> QED
  BY <1>4, <1>5, <1>6, <1>7, FewerActive DEF ApprovalInv

\* The next process knows none of the keys and has no thread at work.
LEMMA CrashStep ==
  ASSUME ApprovalInv, QueueCapacity \in Nat, Approval!Crash
  PROVE  ApprovalInv'
<1>1. PICK batch \in 1..MaxBatch :
        \E some \in SUBSET {r \in rows : r.batch = batch /\ r.status \in Approval!Active} :
          Approval!Turned(some, "stopped")
  BY DEF Approval!Crash
<1>2. PICK some \in SUBSET {r \in rows : r.batch = batch /\ r.status \in Approval!Active} :
        Approval!Turned(some, "stopped")
  BY <1>1
<1>3. some \in SUBSET rows /\ "stopped" \in Approval!Status \ {"admitted"}
  BY DEF Approval!Status
<1>4. /\ life' = life + 1 /\ handler' = [t \in Thread |-> Approval!Idle]
      /\ UNCHANGED <<clock, issued, singles, gone>>
  BY DEF Approval!Crash
<1>5. rows' \in SUBSET Row /\ IsFiniteSet(rows') /\ RowsApproved' /\ Fitted'
  BY <1>2, <1>3, <1>4, StatusStep
<1>6. ApprovalTyped'
  BY <1>4, <1>5, IdleTyped DEF ApprovalInv, ApprovalTyped
<1>7. Confirmed'
  BY <1>4, IdleTyped DEF Confirmed
<1> QED
  BY <1>5, <1>6, <1>7 DEF ApprovalInv

LEMMA ApprovalNext ==
  ASSUME IsFiniteSet(Source), Spans \subseteq Nat, QueueCapacity \in Nat,
         PreviewLeast \in Nat, PreviewMost \in Nat,
         ApprovalInv, [Approval!Next]_Approval!vars
  PROVE  ApprovalInv'
<1>1. CASE Approval!Tick
  BY <1>1, TickStep
<1>2. CASE Approval!Preview
  BY <1>2, PreviewStep
<1>3. CASE \/ Approval!CreateJob \/ Approval!EndSingle \/ Approval!ResumeSingle
           \/ Approval!DeleteSingle
  BY <1>3, SingleStep
<1>4. CASE Approval!End \/ Approval!Resume
  BY <1>4, EndStep, ResumeStep
<1>5. CASE Approval!Delete
  BY <1>5, DeleteStep
<1>6. CASE Approval!CancelBatch
  BY <1>6, CancelBatchStep
<1>7. CASE Approval!Crash
  BY <1>7, CrashStep
<1>8. ASSUME NEW t \in Thread,
             \/ Approval!Confirm(t) \/ Approval!PrepareItem(t) \/ Approval!Admit(t)
             \/ Approval!Refuse(t)
      PROVE  ApprovalInv'
  BY <1>8, ConfirmStep, PrepareStep, AdmitStep, RefuseStep
<1>9. CASE UNCHANGED Approval!vars
  <2>1. UNCHANGED <<clock, life, issued, handler, rows, singles, gone>>
    BY <1>9 DEF Approval!vars
  <2>2. ApprovalTyped' /\ Confirmed'
    BY <2>1 DEF ApprovalInv, ApprovalTyped, Confirmed
  <2> QED
    BY <2>1, <2>2, RowsKept DEF ApprovalInv
<1> QED
  BY <1>1, <1>2, <1>3, <1>4, <1>5, <1>6, <1>7, <1>8, <1>9 DEF Approval!Next

\* Every row of a batch is what the process that admitted it had shown, admitted
\* in time and with the rest of its batch, and jobs that are active since their
\* admission keep to the capacity: for any number of threads, previews, repeated
\* confirmations, resumptions and restarts.
LEMMA ApprovalHonours ==
  ASSUME IsFiniteSet(Source), Spans \subseteq Nat, QueueCapacity \in Nat,
         PreviewLeast \in Nat, PreviewMost \in Nat
  PROVE  Approval!Spec => []Approval!ApprovalHonoured
<1>1. Approval!Init => ApprovalInv
  BY ApprovalInit
<1>2. ApprovalInv /\ [Approval!Next]_Approval!vars => ApprovalInv'
  BY ApprovalNext
<1>3. ApprovalInv => Approval!ApprovalHonoured
  BY Honoured DEF ApprovalInv
<1> QED
  BY <1>1, <1>2, <1>3, PTL DEF Approval!Spec

-----------------------------------------------------------------------------
(* The resource governor *)

\* An open window was opened after the last disturbance.
GovernorInv ==
  /\ now \in Nat /\ since \in Int /\ disturbedAt \in Int
  /\ disturbedAt <= now
  /\ since # Governor!Never => disturbedAt <= since

LEMMA GovernorInit == Governor!Init => GovernorInv
BY DEF Governor!Init, GovernorInv, Governor!Never

LEMMA SampleStep ==
  ASSUME GovernorInv, NEW level, Governor!Sample(level)
  PROVE  /\ GovernorInv'
         /\ paused /\ ~paused' => since # Governor!Never /\ now - since >= Window /\ disturbedAt' = disturbedAt
<1> DEFINE over == {s \in Governor!Signal : level[s] = "over"}
           lost == \E s \in tripped : level[s] = "unsupported"
<1>1. now' = now /\ Governor!Never \in Int
  BY DEF Governor!Sample, Governor!Never
<1>2. CASE over # {} /\ paused' = TRUE /\ since' = Governor!Never /\ disturbedAt' = now
  BY <1>1, <1>2 DEF GovernorInv
<1>3. CASE UNCHANGED <<paused, tripped, since, disturbedAt>>
  BY <1>1, <1>3 DEF GovernorInv
<1>4. CASE since' = Governor!Never /\ disturbedAt' = now /\ UNCHANGED <<paused, tripped>>
  BY <1>1, <1>4 DEF GovernorInv
<1>5. CASE since = Governor!Never /\ since' = now /\ UNCHANGED <<paused, tripped, disturbedAt>>
  BY <1>1, <1>5 DEF GovernorInv
<1>6. CASE /\ since # Governor!Never /\ disturbedAt' = disturbedAt
           /\ IF now - since >= Window THEN paused' = FALSE /\ tripped' = {} /\ since' = Governor!Never
                                       ELSE UNCHANGED <<paused, tripped, since>>
  BY <1>1, <1>6 DEF GovernorInv
<1> QED
  BY <1>2, <1>3, <1>4, <1>5, <1>6 DEF Governor!Sample

LEMMA GovernorNext == GovernorInv /\ [Governor!Next]_Governor!vars => GovernorInv'
<1> SUFFICES ASSUME GovernorInv, [Governor!Next]_Governor!vars PROVE GovernorInv'
  OBVIOUS
<1>1. CASE Governor!Tick
  BY <1>1 DEF Governor!Tick, GovernorInv
<1>2. CASE Governor!ClockFails
  BY <1>2 DEF Governor!ClockFails, GovernorInv, Governor!Never
<1>3. ASSUME NEW level \in [Governor!Signal -> Governor!Level], Governor!Sample(level) PROVE GovernorInv'
  BY <1>3, SampleStep
<1>4. CASE UNCHANGED Governor!vars
  BY <1>4 DEF Governor!vars, GovernorInv
<1> QED
  BY <1>1, <1>2, <1>3, <1>4 DEF Governor!Next

\* Leases are given again only after a whole recovery window without a
\* disturbance, for every window, interval and sequence of samples.
LEMMA GovernorWaits == ASSUME Window \in Int PROVE Governor!Spec => Governor!ResumesAfterWindow
<1> DEFINE Kept == paused /\ ~paused' => now - disturbedAt >= Window
<1>1. GovernorInv /\ [Governor!Next]_Governor!vars => [Kept]_Governor!vars
  <2> SUFFICES ASSUME GovernorInv, [Governor!Next]_Governor!vars PROVE Kept \/ UNCHANGED Governor!vars
    OBVIOUS
  <2>1. ASSUME NEW level \in [Governor!Signal -> Governor!Level], Governor!Sample(level) PROVE Kept
    <3>1. paused /\ ~paused' => since # Governor!Never /\ now - since >= Window
      BY <2>1, SampleStep
    <3> QED
      BY <3>1 DEF GovernorInv
  <2>2. CASE Governor!Tick \/ Governor!ClockFails
    BY <2>2 DEF Governor!Tick, Governor!ClockFails
  <2> QED
    BY <2>1, <2>2 DEF Governor!Next
<1>2. Governor!Spec => []GovernorInv
  BY GovernorInit, GovernorNext, PTL DEF Governor!Spec
<1> QED
  BY <1>1, <1>2, PTL DEF Governor!Spec, Governor!ResumesAfterWindow

-----------------------------------------------------------------------------
(* The components side by side *)

StartupP == INSTANCE ProcessStartProofs WITH MaxLife <- MaxStarts, pc <- place

\* Each component goes its own way.
LEMMA Apart ==
  PartsSpec => Approval!Spec /\ Feed!Spec /\ Startup!Spec /\ Governor!Spec
<1>1. PartsInit => Approval!Init /\ Feed!Init /\ Startup!Init /\ Governor!Init
  BY DEF PartsInit
<1>2. ASSUME [PartsNext]_<<part, vars, others>>
      PROVE  /\ [Approval!Next]_Approval!vars /\ [Feed!Next]_Feed!vars
             /\ [Startup!Next]_Startup!vars /\ [Governor!Next]_Governor!vars
  <2>1. CASE BrowserMoves \/ UNCHANGED <<part, vars, others>>
    BY <2>1 DEF BrowserMoves, others, approvalVars, feedVars, startupVars, governorVars,
                Approval!vars, Feed!vars, Startup!vars, Governor!vars
  <2>2. CASE ApprovalMoves \/ FeedMoves \/ StartupMoves \/ GovernorMoves
    BY <2>2 DEF ApprovalMoves, FeedMoves, StartupMoves, GovernorMoves,
                approvalVars, feedVars, startupVars, governorVars,
                Approval!vars, Feed!vars, Startup!vars, Governor!vars
  <2> QED
    BY <1>2, <2>1, <2>2 DEF PartsNext
<1> QED
  BY <1>1, <1>2, PTL DEF PartsSpec, Approval!Spec, Feed!Spec, Startup!Spec, Governor!Spec

\* Each row of a batch is what the process that admitted it had shown, admitted
\* in time and with the rest of its batch, and only a resumption goes beyond the
\* capacity: for any number of sources, threads, previews, repeated confirmations,
\* resumptions and restarts.
THEOREM ApprovalsHonoured == PartsSpec => []ApprovalHonoured
<1>1. Approval!Spec => []Approval!ApprovalHonoured
  BY ApprovalHonours, SurroundingsAssumption
<1> QED
  BY <1>1, Apart, PTL DEF ApprovalHonoured

\* A reader that moves past an event has got it or was told of a gap, for every
\* capacity of the buffer and every size of the page, through merged and dropped
\* events, lost responses and restarts of the server.
THEOREM GapsTold == PartsSpec => []NoSilentGap
<1>1. Feed!Spec => []Feed!NoSilentGap
  BY FeedTells, SurroundingsAssumption
<1> QED
  BY <1>1, Apart, PTL DEF NoSilentGap

\* Leases are given again only after a whole recovery window without a
\* disturbance, for every window, interval and sequence of samples.
THEOREM WindowKept == PartsSpec => ResumesAfterWindow
<1>1. Governor!Spec => Governor!ResumesAfterWindow
  BY GovernorWaits, SurroundingsAssumption
<1> QED
  BY <1>1, Apart, PTL DEF ResumesAfterWindow

\* The start of processes is that of ProcessStartProofs.
LEMMA SameStart == Startup!Spec => StartupP!Spec
<1>1. Startup!Init => StartupP!Init
  BY DEF Startup!Init, StartupP!Init, Startup!NoLock, StartupP!NoLock, Startup!NoPid, StartupP!NoPid
<1>2. /\ Startup!NoPid = StartupP!NoPid /\ Startup!NoLock = StartupP!NoLock
      /\ Startup!Whole = StartupP!Whole
      /\ \A p \in Process : Startup!Pid(p) = StartupP!Pid(p)
      /\ \A pid : Startup!Alive(pid) = StartupP!Alive(pid)
      /\ \A pid : Startup!Holder(pid) = StartupP!Holder(pid)
      /\ \A form : Startup!Destination(form) = StartupP!Destination(form)
      /\ \A p \in Process : \A to : Startup!Goes(p, to) = StartupP!Goes(p, to)
  BY DEF Startup!Goes, StartupP!Goes, Startup!Destination, StartupP!Destination, Startup!Whole,
         StartupP!Whole, Startup!Holder, StartupP!Holder, Startup!Alive, StartupP!Alive,
         Startup!Pid, StartupP!Pid, Startup!NoPid, StartupP!NoPid, Startup!NoLock, StartupP!NoLock
<1>3. Startup!Next => StartupP!Next
  BY <1>2
     DEF Startup!Next, StartupP!Next,
         Startup!Start, StartupP!Start, Startup!Create, StartupP!Create, Startup!Created,
         StartupP!Created, Startup!CheckBackup, StartupP!CheckBackup, Startup!Copy, StartupP!Copy,
         Startup!Backup, StartupP!Backup, Startup!Migrate, StartupP!Migrate, Startup!Migrated,
         StartupP!Migrated, Startup!Fails, StartupP!Fails, Startup!CreateLock, StartupP!CreateLock,
         Startup!GiveUp, StartupP!GiveUp, Startup!WriteLock, StartupP!WriteLock, Startup!ReadLock,
         StartupP!ReadLock, Startup!Unlink, StartupP!Unlink, Startup!Release, StartupP!Release,
         Startup!Released, StartupP!Released, Startup!Crash, StartupP!Crash
<1>4. [Startup!Next]_Startup!vars => [StartupP!Next]_StartupP!vars
  BY <1>3 DEF Startup!vars, StartupP!vars
<1> QED
  BY <1>1, <1>4, PTL DEF Startup!Spec, StartupP!Spec

\* Who goes for the lock has a complete database, and a migrated one has its
\* backup, which held the old database when the migration began, for any number
\* of processes and starts that fail anywhere.
THEOREM WholeDatabase == PartsSpec => []WorksOnWholeDatabase
<1>1. StartupP!WorksOnWholeDatabase => WorksOnWholeDatabase
  BY DEF StartupP!WorksOnWholeDatabase, WorksOnWholeDatabase, Startup!WorksOnWholeDatabase,
         StartupP!Whole, Startup!Whole
<1> QED
  BY <1>1, Apart, SameStart, StartupP!DatabaseWhole, PTL

\* A live process loses its lock file only to one that read something else in it,
\* for any number of processes: a pid that was dead when it was read stays dead.
THEOREM LockKept == PartsSpec => LiveLockKept
<1>1. StartupP!LiveLockKept => LiveLockKept
  BY PTL DEF StartupP!LiveLockKept, LiveLockKept, Startup!LiveLockKept, StartupP!vars, Startup!vars,
         StartupP!Alive, Startup!Alive, StartupP!Pid, Startup!Pid, StartupP!NoLock,
         Startup!NoLock, StartupP!NoPid, Startup!NoPid
<1> QED
  BY <1>1, Apart, SameStart, StartupP!LockStays, PTL
=============================================================================
