--------------------------- MODULE RestApiProofs ---------------------------
(***************************************************************************)
(* Theorems about RestApi, for every number of connections and every       *)
(* capacity of the bus and of the streams: streams are gapless, answers    *)
(* are true, our own changes are seen, and callers meet their handlers.    *)
(***************************************************************************)
EXTENDS RestApi, FiniteSetTheorems, WellFoundedInduction, TLAPS

\* Whether the request in hand waits for its job to be sent, and who does.
Wait(c) == Effect(Op(c), BodyOf(c)) = "wait"
Awaiting == {c \in Conn : job[c] # 0}
CacheEntry == [version : Nat, overlapped : BOOLEAN, since : Nat]
JobStates == {"queued", "sent", "failed"}

\* The statuses of refusals and failures.
Codes == {400, 403, 404, 500, 503}

\* What a stage says of its request.
ConnInv ==
  /\ conn \in [Conn -> Stages] /\ DOMAIN req = Conn /\ DOMAIN answer = Conn
  /\ \A c \in Conn :
       /\ answer[c].job \in 0 .. Len(jobs)
       /\ conn[c] \in {"head", "streaming"} => req[c] = NoReq
       /\ conn[c] \in {"calling", "changed", "fetching"} => ~Wait(c)

\* An announced job has ended, and exactly the waiting requests hold a job.
JobsInv ==
  /\ jobs \in Seq(JobStates) /\ announced \subseteq DOMAIN jobs
  /\ \A j \in announced : jobs[j] # "queued"
  /\ job \in [Conn -> Nat]
  /\ \A c \in Conn : IF conn[c] = "waiting" THEN job[c] \in DOMAIN jobs ELSE job[c] = 0

\* Every job was promised to a client or is waited for.
Books == promised \in Nat /\ IsFiniteSet(Awaiting) /\ Len(jobs) = promised + Cardinality(Awaiting)

BusInv ==
  /\ bus \in Seq(Nat) /\ \A i \in DOMAIN bus : bus[i] = Other \/ bus[i] \in announced
  /\ rx \in [Conn -> Nat] /\ \A c \in Conn : rx[c] <= Len(bus) + 1

Permits == sseFree \in Nat /\ IsFiniteSet(Streams) /\ sseFree + Cardinality(Streams) = SsePermits

\* A stream has written every event from its first up to its receiver's position.
StreamInv(c) ==
  /\ frames[c] \in Seq(Nat) /\ first[c] \in Nat \ {0}
  /\ conn[c] = "streaming" => rx[c] = first[c] + Len(frames[c])
  /\ conn[c] \notin {"streaming", "closed"} => frames[c] = <<>>
  /\ \A i \in DOMAIN frames[c] :
       \/ frames[c][i] = first[c] + i - 1
       \/ frames[c][i] = Gap /\ i = Len(frames[c]) /\ conn[c] = "closed"
StreamsInv == DOMAIN frames = Conn /\ DOMAIN first = Conn /\ \A c \in Conn : StreamInv(c)

\* What the response on c says of its job.
AnswerInv(c) ==
  conn[c] = "closed" /\ Waited(c) =>
    /\ ExitCode(answer[c].status) = 0 => answer[c].job # 0 /\ jobs[answer[c].job] = "sent"
    /\ answer[c].status = 500 /\ answer[c].job # 0 => jobs[answer[c].job] = "failed"
    /\ answer[c].status = 504 => answer[c].job # 0
AnswersInv == \A c \in Conn : AnswerInv(c)

\* The metadata in a handler's hands is no older than what it has seen complete.
GroupInv ==
  /\ group \in Nat /\ own \in 1 .. group
  /\ cache \in CacheEntry /\ cache.version <= group
  /\ cache # Empty /\ cache.version < own => cache.overlapped
  /\ fetched \in [Conn -> CacheEntry]
  /\ \A c \in Conn : /\ fetched[c].version <= group /\ fetched[c].since <= own
                     /\ fetched[c].version # 0 => fetched[c].since <= fetched[c].version

CoreInv == ConnInv /\ JobsInv /\ Books /\ BusInv /\ Permits /\ StreamsInv /\ AnswersInv
AInv == CoreInv /\ GroupInv

-----------------------------------------------------------------------------
(* Refusals *)

\* A set of numbers has a least one.
LEMMA Least ==
  ASSUME NEW T, T \subseteq Nat, T # {}
  PROVE  \E x \in T : \A y \in T : x <= y
  <1> DEFINE R == {ss \in Nat \X Nat : ss[1] < ss[2]}
  <1>1. IsWellFoundedOn(R, Nat) BY NatLessThanWellFounded DEF OpToRel
  <1> HIDE DEF R
  <1>2. PICK x \in T : \A y \in T : ~ (<<y, x>> \in R) BY <1>1, WFMin
  <1>3. ASSUME NEW y \in T PROVE x <= y
    <2>1. x \in Nat /\ y \in Nat OBVIOUS
    <2>2. <<y, x>> \in Nat \X Nat BY <2>1
    <2>3. ~ (y < x) BY <1>2, <2>2 DEF R
    <2> QED BY <2>1, <2>3
  <1> QED BY <1>3

\* A list of refusals, each with one of these codes.
CodedBy(s, X) == s \in Seq(X) /\ \A x \in X : x[2] \in Codes
Coded(s) == \E X : CodedBy(s, X)
LEMMA Coded0 == Coded(<<>>)
  <1>1. CodedBy(<<>>, {}) BY DEF CodedBy
  <1> QED BY <1>1 DEF Coded
LEMMA Coded1 == ASSUME NEW u, u[2] \in Codes PROVE Coded(<<u>>)
  <1>1. CodedBy(<<u>>, {u}) BY DEF CodedBy
  <1> QED BY <1>1 DEF Coded
LEMMA Coded2 == ASSUME NEW u, NEW v, u[2] \in Codes, v[2] \in Codes PROVE Coded(<<u, v>>)
  <1>1. CodedBy(<<u, v>>, {u, v}) BY DEF CodedBy
  <1> QED BY <1>1 DEF Coded
LEMMA Coded3 == ASSUME NEW u, NEW v, NEW w, u[2] \in Codes, v[2] \in Codes, w[2] \in Codes
      PROVE Coded(<<u, v, w>>)
  <1>1. CodedBy(<<u, v, w>>, {u, v, w}) BY DEF CodedBy
  <1> QED BY <1>1 DEF Coded
LEMMA CodedBoth == ASSUME NEW s, NEW t, Coded(s), Coded(t) PROVE Coded(s \o t)
  <1>1. PICK X : CodedBy(s, X) BY DEF Coded
  <1>2. PICK Y : CodedBy(t, Y) BY DEF Coded
  <1>3. s \in Seq(X \cup Y) /\ t \in Seq(X \cup Y) BY <1>1, <1>2 DEF CodedBy
  <1>4. CodedBy(s \o t, X \cup Y) BY <1>1, <1>2, <1>3 DEF CodedBy
  <1> QED BY <1>4 DEF Coded

\* The first refusal is one of those listed.
LEMMA RefusalCode ==
  ASSUME NEW s, Coded(s), FirstRefusal(s) # 0
  PROVE  FirstRefusal(s) \in Codes
  <1> DEFINE I == {i \in 1 .. Len(s) : s[i][1]}
             k == SelectInSeq(s, LAMBDA c : c[1])
  <1>1. k = IF I # {} THEN Min(I) ELSE 0 BY DEF SelectInSeq
  <1>2. FirstRefusal(s) = IF k = 0 THEN 0 ELSE s[k][2] BY DEF FirstRefusal
  <1> HIDE DEF k
  <1>3. I # {} /\ k = Min(I) BY <1>1, <1>2
  <1>4. I \subseteq Nat OBVIOUS
  <1>5. \E x \in I : \A y \in I : x <= y BY <1>3, <1>4, Least
  <1>6. k \in I BY <1>3, <1>5 DEF Min
  <1>7. PICK X : CodedBy(s, X) BY DEF Coded
  <1>8. s[k] \in X BY <1>6, <1>7 DEF CodedBy
  <1>9. s[k][2] \in Codes BY <1>7, <1>8 DEF CodedBy
  <1> QED BY <1>2, <1>3, <1>9

\* What every handler lists.
LEMMA SendRefuses == ASSUME NEW b PROVE Coded(HandleSend(b))
  BY Coded1 DEF Codes, HandleSend
LEMMA AddressRefuses == ASSUME NEW b PROVE Coded(Addressed(b))
  BY Coded1 DEF Codes, Addressed
LEMMA ReplyRefuses == ASSUME NEW b PROVE Coded(HandleReply(b))
  <1>1. Coded(<< <<b.sender = "none", 400>>, <<b.jid = "group" /\ b.sender = "number", 400>> >>)
    BY Coded2 DEF Codes
  <1> QED BY <1>1, AddressRefuses, CodedBoth DEF HandleReply
LEMMA TargetRefuses == ASSUME NEW b PROVE Coded(ReactionTarget(b))
  BY Coded2 DEF Codes, ReactionTarget
LEMMA ReactRefuses == ASSUME NEW b PROVE Coded(HandleReact(b)) /\ Coded(HandleUnreact(b))
  <1>1. Coded(<< <<~b.full, 400>> >>) BY Coded1 DEF Codes
  <1> QED BY <1>1, TargetRefuses, CodedBoth DEF HandleReact, HandleUnreact
LEMMA MediaRefuses == ASSUME NEW op, NEW b, NEW loopback PROVE Coded(HandleMedia(op, b, loopback))
  <1>1. Coded(<< <<b.path # "none" /\ b.data # "none", 400>>,
           <<b.data \notin {"none", "fine"}, 400>>,
           <<b.path # "none" /\ ~loopback, 403>> >>) BY Coded3 DEF Codes
  <1>2. Coded(ReadFile(b)) BY Coded1 DEF Codes, ReadFile
  <1>3. Coded(<< <<b.path = "none" /\ b.data = "none", 400>>,
           <<op = "media" /\ b.path = "empty", 500>> >>) BY Coded2 DEF Codes
  <1> QED BY <1>1, <1>2, <1>3, CodedBoth DEF HandleMedia
LEMMA PollRefuses == ASSUME NEW b PROVE Coded(HandlePoll(b))
  BY Coded3 DEF Codes, HandlePoll
LEMMA StatusRefuses == ASSUME NEW b PROVE Coded(HandleStatusText(b)) /\ Coded(HandleStatusMedia(b))
  BY Coded1, Coded2 DEF Codes, HandleStatusText, HandleStatusMedia
LEMMA PlainRefuses ==
  ASSUME NEW b, NEW known, NEW connected
  PROVE  /\ Coded(HandleLocation(b)) /\ Coded(HandleContact(b)) /\ Coded(HandleForward(known))
         /\ Coded(HandleSearch(b)) /\ Coded(HandleFetch(b)) /\ Coded(HandlePurge(b))
         /\ Coded(HandleQr(connected)) /\ Coded(NeedsClient(connected))
  <1>1. Coded(HandleLocation(b)) /\ Coded(HandleContact(b)) BY Coded1 DEF Codes, HandleLocation, HandleContact
  <1>2. Coded(HandleForward(known)) /\ Coded(HandleSearch(b)) BY Coded1 DEF Codes, HandleForward, HandleSearch
  <1>3. Coded(HandleFetch(b)) /\ Coded(HandlePurge(b)) BY Coded1 DEF Codes, HandleFetch, HandlePurge
  <1>4. Coded(HandleQr(connected)) /\ Coded(NeedsClient(connected)) BY Coded1 DEF Codes, HandleQr, NeedsClient
  <1> QED BY <1>1, <1>2, <1>3, <1>4
LEMMA ClientRefuses ==
  ASSUME NEW b, NEW known, NEW connected
  PROVE  /\ Coded(HandleGroups(connected)) /\ Coded(HandleGroupInfo(b, connected, known))
         /\ Coded(HandleGroupCreate(b, connected)) /\ Coded(HandleChatCall(b, connected))
  BY PlainRefuses, AddressRefuses, CodedBoth, Coded0
  DEF HandleGroups, HandleGroupInfo, HandleGroupCreate, HandleChatCall

\* A handler that refuses answers with one of the codes of a refusal.
LEMMA HandlerCode ==
  ASSUME NEW op, NEW b, NEW loopback, NEW connected, NEW known,
         HandlerRefusal(op, b, loopback, connected, known) # 0
  PROVE  HandlerRefusal(op, b, loopback, connected, known) \in Codes
  <1> DEFINE rest ==
    CASE op = "send"         -> HandleSend(b)
      [] op = "reply"        -> HandleReply(b)
      [] op = "react"        -> HandleReact(b)
      [] op = "unreact"      -> HandleUnreact(b)
      [] op \in {"media", "sticker"} -> HandleMedia(op, b, loopback)
      [] op = "location"     -> HandleLocation(b)
      [] op = "contact"      -> HandleContact(b)
      [] op = "forward"      -> HandleForward(known)
      [] op = "poll"         -> HandlePoll(b)
      [] op = "status_text"  -> HandleStatusText(b)
      [] op = "status_media" -> HandleStatusMedia(b)
      [] op = "search"       -> HandleSearch(b)
      [] op = "purge"        -> HandlePurge(b)
      [] op = "fetch"        -> HandleFetch(b)
      [] op = "qr"           -> HandleQr(connected)
      [] op = "groups"       -> HandleGroups(connected)
      [] op = "group_info"   -> HandleGroupInfo(b, connected, known)
      [] op = "create_group" -> HandleGroupCreate(b, connected)
      [] op \in {"chat", "message", "change_group", "invite_link"} -> HandleChatCall(b, connected)
      [] OTHER -> <<>>
  <1> HIDE DEF rest
  <1>1. HandlerRefusal(op, b, loopback, connected, known) = FirstRefusal(<< <<~b.parses, 400>> >> \o rest)
    BY DEF HandlerRefusal, rest
  <1>2. Coded(rest)
    BY SendRefuses, ReplyRefuses, ReactRefuses, MediaRefuses, PollRefuses, StatusRefuses, PlainRefuses,
         ClientRefuses, Coded0 DEF rest
  <1>3. Coded(<< <<~b.parses, 400>> >>) BY Coded1 DEF Codes
  <1>4. Coded(<< <<~b.parses, 400>> >> \o rest) BY <1>2, <1>3, CodedBoth
  <1> QED BY <1>1, <1>4, RefusalCode

USE RestConstants

-----------------------------------------------------------------------------
(* One connection moves *)

Moved(c) ==
  /\ conn' \in [Conn -> Stages] /\ DOMAIN req' = Conn /\ DOMAIN answer' = Conn
  /\ \A d \in Conn \ {c} : conn'[d] = conn[d] /\ req'[d] = req[d] /\ answer'[d] = answer[d]

LEMMA CloseFacts ==
  ASSUME ConnInv, Books, NEW c \in Conn, NEW s, NEW j, Close(c, s, j)
  PROVE  /\ Moved(c) /\ conn'[c] = "closed" /\ req' = req
         /\ answer'[c].status = s /\ answer'[c].job = j
         /\ j = 0 => promised' = promised
         /\ j # 0 => promised' = promised + 1
  BY DEF ConnInv, Books, Close, Moved, Stages

LEMMA StageFacts ==
  ASSUME ConnInv, NEW c \in Conn, NEW s \in Stages, Stage(c, s)
  PROVE  /\ Moved(c) /\ conn'[c] = s /\ req' = req /\ answer' = answer /\ promised' = promised
  BY DEF ConnInv, Stage, Moved

\* The permits of the streams.
LEMMA PermitsSame ==
  ASSUME ConnInv, Permits, NEW c \in Conn, Moved(c), sseFree' = sseFree,
         conn[c] = "streaming" <=> conn'[c] = "streaming"
  PROVE  Permits'
  <1>1. Streams' = Streams BY DEF Moved, Streams
  <1> QED BY <1>1 DEF Permits

LEMMA PermitsTaken ==
  ASSUME ConnInv, Permits, NEW c \in Conn, Moved(c), sseFree > 0, sseFree' = sseFree - 1,
         conn[c] # "streaming", conn'[c] = "streaming"
  PROVE  Permits'
  <1>1. Streams' = Streams \cup {c} /\ c \notin Streams BY DEF Moved, Streams
  <1>2. IsFiniteSet(Streams') /\ Cardinality(Streams') = Cardinality(Streams) + 1
    BY <1>1, FS_AddElement DEF Permits
  <1>3. Cardinality(Streams) \in Nat BY FS_CardinalityType DEF Permits
  <1> QED BY <1>2, <1>3 DEF Permits

LEMMA PermitsReturned ==
  ASSUME ConnInv, Permits, NEW c \in Conn, Moved(c), sseFree' = sseFree + 1,
         conn[c] = "streaming", conn'[c] # "streaming"
  PROVE  Permits'
  <1>1. Streams' = Streams \ {c} /\ c \in Streams BY DEF Moved, Streams
  <1>2. IsFiniteSet(Streams') /\ Cardinality(Streams') = Cardinality(Streams) - 1
    BY <1>1, FS_RemoveElement DEF Permits
  <1>3. Cardinality(Streams) \in Nat BY FS_CardinalityType DEF Permits
  <1> QED BY <1>2, <1>3 DEF Permits

\* The books of the jobs.
LEMMA BooksSame ==
  ASSUME Books, Len(jobs') = Len(jobs), promised' = promised, job' = job
  PROVE  Books'
  <1>1. Awaiting' = Awaiting BY DEF Awaiting
  <1> QED BY <1>1 DEF Books

LEMMA BooksPromised ==
  ASSUME Books, jobs \in Seq(JobStates), Len(jobs') = Len(jobs) + 1, promised' = promised + 1, job' = job
  PROVE  Books'
  <1>1. Awaiting' = Awaiting BY DEF Awaiting
  <1>2. Cardinality(Awaiting) \in Nat BY FS_CardinalityType DEF Books
  <1> QED BY <1>1, <1>2 DEF Books

LEMMA BooksWaited ==
  ASSUME Books, JobsInv, NEW c \in Conn, NEW j, j # 0, job[c] = 0, job' = [job EXCEPT ![c] = j],
         Len(jobs') = Len(jobs) + 1, promised' = promised
  PROVE  Books'
  <1>1. Awaiting' = Awaiting \cup {c} /\ c \notin Awaiting BY DEF Awaiting, JobsInv
  <1>2. IsFiniteSet(Awaiting') /\ Cardinality(Awaiting') = Cardinality(Awaiting) + 1
    BY <1>1, FS_AddElement DEF Books
  <1>3. Cardinality(Awaiting) \in Nat BY FS_CardinalityType DEF Books
  <1> QED BY <1>2, <1>3 DEF Books

LEMMA BooksAnswered ==
  ASSUME Books, JobsInv, NEW c \in Conn, job[c] # 0, job' = [job EXCEPT ![c] = 0],
         jobs' = jobs, promised' = promised + 1
  PROVE  Books'
  <1>1. Awaiting' = Awaiting \ {c} /\ c \in Awaiting BY DEF Awaiting, JobsInv
  <1>2. IsFiniteSet(Awaiting') /\ Cardinality(Awaiting') = Cardinality(Awaiting) - 1
    BY <1>1, FS_RemoveElement DEF Books
  <1>3. Cardinality(Awaiting) \in Nat BY FS_CardinalityType DEF Books
  <1> QED BY <1>2, <1>3 DEF Books

\* A stream that nothing happens to, and a connection that has none.
LEMMA StreamKept ==
  ASSUME NEW d \in Conn, StreamInv(d), UNCHANGED <<frames[d], first[d], rx[d], conn[d]>>
  PROVE  StreamInv(d)'
  BY DEF StreamInv

LEMMA NoStream ==
  ASSUME NEW c \in Conn, StreamInv(c), UNCHANGED <<frames[c], first[c]>>,
         conn[c] # "streaming", conn'[c] # "streaming", conn[c] = "closed" => conn'[c] = "closed"
  PROVE  StreamInv(c)'
  BY DEF StreamInv

\* Ended jobs keep their state.
Settled == \A j \in DOMAIN jobs : jobs[j] # "queued" => jobs'[j] = jobs[j]

LEMMA AnswerKept ==
  ASSUME ConnInv, JobsInv, Settled, NEW d \in Conn, AnswerInv(d),
         UNCHANGED <<conn[d], req[d], answer[d]>>
  PROVE  AnswerInv(d)'
  <1>1. Waited(d)' <=> Waited(d) BY DEF Waited, Op, BodyOf
  <1>2. CASE ~ (conn[d] = "closed" /\ Waited(d)) BY <1>1, <1>2 DEF AnswerInv
  <1>3. CASE conn[d] = "closed" /\ Waited(d)
    <2> DEFINE j == answer[d].job
    <2>1. j # 0 => j \in DOMAIN jobs BY DEF ConnInv, JobsInv
    <2>2. ExitCode(answer[d].status) = 0 => j # 0 /\ jobs[j] = "sent" BY <1>3 DEF AnswerInv
    <2>3. answer[d].status = 500 /\ j # 0 => jobs[j] = "failed" BY <1>3 DEF AnswerInv
    <2>4. answer[d].status = 504 => j # 0 BY <1>3 DEF AnswerInv
    <2>5. j # 0 /\ jobs[j] # "queued" => jobs'[j] = jobs[j] BY <2>1 DEF Settled
    <2> QED BY <1>1, <2>2, <2>3, <2>4, <2>5 DEF AnswerInv
  <1> QED BY <1>2, <1>3

\* A response that says of no job that it was sent, or answers no waiting request.
LEMMA AnswerRefused ==
  ASSUME ConnInv, Books, NEW c \in Conn, NEW s, Close(c, s, 0), ~Waited(c) \/ s \in Codes
  PROVE  AnswerInv(c)'
  <1>1. Waited(c)' <=> Waited(c) BY CloseFacts DEF Waited, Op, BodyOf
  <1>2. answer'[c].status = s /\ answer'[c].job = 0 BY CloseFacts
  <1>3. s \in Codes => ExitCode(s) = 1 /\ s # 504 BY DEF Codes, ExitCode, Unanswered
  <1> QED BY <1>1, <1>2, <1>3 DEF AnswerInv

Quiet == UNCHANGED <<jobs, announced, job, bus, frames, first, sseFree>>
Receiver(c) == rx' \in {rx, [rx EXCEPT ![c] = 0], [rx EXCEPT ![c] = Len(bus) + 1]}

\* A request refused, failed or answered without a job.
LEMMA CloseStep ==
  ASSUME CoreInv, NEW c \in Conn, NEW s, Close(c, s, 0), Quiet, Receiver(c),
         conn[c] \notin {"streaming", "waiting"}, ~Waited(c) \/ s \in Codes
  PROVE  CoreInv'
  <1> USE DEF CoreInv, Quiet
  <1>0. Moved(c) /\ conn'[c] = "closed" /\ req' = req /\ promised' = promised
        /\ answer'[c].job = 0 BY CloseFacts
  <1>1. ConnInv' BY <1>0 DEF ConnInv, Moved, Wait, Op, BodyOf, JobsInv
  <1>2. JobsInv' BY <1>0 DEF JobsInv, Moved
  <1>3. Books' BY <1>0, BooksSame
  <1>4. BusInv' BY DEF BusInv, Receiver
  <1>5. Permits' BY <1>0, PermitsSame
  <1>6. StreamsInv'
    <2>1. ASSUME NEW d \in Conn PROVE StreamInv(d)'
      <3>1. CASE d = c BY <1>0, <3>1, NoStream DEF StreamsInv
      <3>2. CASE d # c
        <4>1. rx'[d] = rx[d] BY <3>2 DEF Receiver, BusInv
        <4> QED BY <1>0, <3>2, <4>1, StreamKept DEF StreamsInv, Moved
      <3> QED BY <3>1, <3>2
    <2> QED BY <2>1 DEF StreamsInv
  <1>7. AnswersInv'
    <2>1. Settled BY DEF Settled
    <2>2. ASSUME NEW d \in Conn PROVE AnswerInv(d)'
      BY <1>0, <2>1, AnswerKept, AnswerRefused DEF AnswersInv, Moved
    <2> QED BY <2>2 DEF AnswersInv
  <1> QED BY <1>1, <1>2, <1>3, <1>4, <1>5, <1>6, <1>7

\* A request that goes on.
LEMMA StageStep ==
  ASSUME CoreInv, NEW c \in Conn, NEW s \in {"enqueueing", "calling", "changed", "fetching"}, Stage(c, s),
         Quiet, Receiver(c), conn[c] \notin {"streaming", "waiting", "closed"},
         s # "enqueueing" => ~Wait(c)
  PROVE  CoreInv'
  <1> USE DEF CoreInv, Quiet
  <1>0. Moved(c) /\ conn'[c] = s /\ req' = req /\ promised' = promised /\ answer' = answer
    BY StageFacts DEF Stages
  <1>1. ConnInv' BY <1>0 DEF ConnInv, Moved, Wait, Op, BodyOf, JobsInv
  <1>2. JobsInv' BY <1>0 DEF JobsInv, Moved
  <1>3. Books' BY <1>0, BooksSame
  <1>4. BusInv' BY DEF BusInv, Receiver
  <1>5. Permits' BY <1>0, PermitsSame
  <1>6. StreamsInv'
    <2>1. ASSUME NEW d \in Conn PROVE StreamInv(d)'
      <3>1. CASE d = c BY <1>0, <3>1, NoStream DEF StreamsInv
      <3>2. CASE d # c
        <4>1. rx'[d] = rx[d] BY <3>2 DEF Receiver, BusInv
        <4> QED BY <1>0, <3>2, <4>1, StreamKept DEF StreamsInv, Moved
      <3> QED BY <3>1, <3>2
    <2> QED BY <2>1 DEF StreamsInv
  <1>7. AnswersInv'
    <2>1. Settled BY DEF Settled
    <2>2. ASSUME NEW d \in Conn PROVE AnswerInv(d)'
      <3>1. CASE d = c BY <1>0, <3>1 DEF AnswerInv
      <3>2. CASE d # c BY <1>0, <2>1, <3>2, AnswerKept DEF AnswersInv, Moved
      <3> QED BY <3>1, <3>2
    <2> QED BY <2>2 DEF AnswersInv
  <1> QED BY <1>1, <1>2, <1>3, <1>4, <1>5, <1>6, <1>7

-----------------------------------------------------------------------------
(* The steps of a connection *)

LEMMA GroupKept == ASSUME GroupInv, UNCHANGED <<group, own, cache, fetched>> PROVE GroupInv'
  BY DEF GroupInv

LEMMA AcceptStep == ASSUME AInv, NEW c \in Conn, Accept(c) PROVE AInv'
  <1> USE DEF AInv, CoreInv
  <1>0. /\ Moved(c) /\ conn[c] = "closed" /\ conn'[c] = "head" /\ req'[c] = NoReq /\ answer'[c] = NoAnswer
        /\ UNCHANGED <<promised, queueVars, bus, rx, sseFree, groupVars>>
    BY DEF Accept, Moved, ConnInv, Stages
  <1>1. ConnInv' BY <1>0 DEF ConnInv, Moved, Wait, Op, BodyOf, JobsInv, queueVars, NoAnswer
  <1>2. JobsInv' BY <1>0 DEF JobsInv, Moved, queueVars
  <1>3. Books' BY <1>0, BooksSame DEF queueVars
  <1>4. BusInv' BY <1>0 DEF BusInv, queueVars
  <1>5. Permits' BY <1>0, PermitsSame
  <1>6. StreamsInv'
    <2>1. /\ frames' = [frames EXCEPT ![c] = <<>>] /\ first' = [first EXCEPT ![c] = 1]
      BY DEF Accept
    <2>2. ASSUME NEW d \in Conn PROVE StreamInv(d)'
      <3>1. CASE d = c BY <1>0, <2>1, <3>1 DEF StreamInv, StreamsInv
      <3>2. CASE d # c BY <1>0, <2>1, <3>2, StreamKept DEF StreamsInv, Moved
      <3> QED BY <3>1, <3>2
    <2> QED BY <2>1, <2>2 DEF StreamsInv
  <1>7. AnswersInv'
    <2>1. Settled BY <1>0 DEF Settled, queueVars
    <2>2. ASSUME NEW d \in Conn PROVE AnswerInv(d)'
      <3>1. CASE d = c BY <1>0, <3>1 DEF AnswerInv
      <3>2. CASE d # c BY <1>0, <2>1, <3>2, AnswerKept DEF AnswersInv, Moved
      <3> QED BY <3>1, <3>2
    <2> QED BY <2>2 DEF AnswersInv
  <1>8. GroupInv' BY <1>0, GroupKept DEF groupVars
  <1> QED BY <1>1, <1>2, <1>3, <1>4, <1>5, <1>6, <1>7, <1>8

LEMMA UnreadableStep == ASSUME AInv, NEW c \in Conn, Unreadable(c) PROVE AInv'
  <1> USE DEF AInv, Unreadable
  <1>1. GroupInv' BY GroupKept DEF groupVars
  <1>2. Quiet /\ Receiver(c) BY DEF Quiet, Receiver, queueVars, busVars
  <1>3. 400 \in Codes BY DEF Codes
  <1> QED BY <1>1, <1>2, <1>3, CloseStep

\* A stream begins.
LEMMA StreamBegins ==
  ASSUME CoreInv, NEW c \in Conn, conn[c] = "head", Stage(c, "streaming"), sseFree > 0, sseFree' = sseFree - 1,
         Subscribe(c), first' = [first EXCEPT ![c] = Len(bus) + 1], UNCHANGED <<queueVars, bus, frames>>
  PROVE  CoreInv'
  <1> USE DEF CoreInv, queueVars
  <1>0. /\ Moved(c) /\ conn'[c] = "streaming" /\ req' = req /\ promised' = promised /\ answer' = answer
        /\ rx' = [rx EXCEPT ![c] = Len(bus) + 1]
    BY StageFacts DEF Stages, Subscribe
  <1>1. ConnInv' BY <1>0 DEF ConnInv, Moved, Wait, Op, BodyOf, JobsInv
  <1>2. JobsInv' BY <1>0 DEF JobsInv, Moved
  <1>3. Books' BY <1>0, BooksSame
  <1>4. BusInv' BY <1>0 DEF BusInv
  <1>5. Permits' BY <1>0, PermitsTaken
  <1>6. StreamsInv'
    <2>1. ASSUME NEW d \in Conn PROVE StreamInv(d)'
      <3>1. CASE d = c
        <4>1. frames'[c] = <<>> BY DEF StreamsInv, StreamInv
        <4>2. first'[c] = Len(bus) + 1 /\ rx'[c] = Len(bus) + 1 BY <1>0 DEF StreamsInv, BusInv
        <4>3. Len(bus) \in Nat BY DEF BusInv
        <4> QED BY <1>0, <3>1, <4>1, <4>2, <4>3 DEF StreamInv
      <3>2. CASE d # c
        <4>1. rx'[d] = rx[d] /\ first'[d] = first[d] BY <1>0, <3>2 DEF BusInv, StreamsInv
        <4> QED BY <1>0, <3>2, <4>1, StreamKept DEF StreamsInv, Moved
      <3> QED BY <3>1, <3>2
    <2> QED BY <2>1 DEF StreamsInv
  <1>7. AnswersInv'
    <2>1. Settled BY DEF Settled
    <2>2. ASSUME NEW d \in Conn PROVE AnswerInv(d)'
      <3>1. CASE d = c BY <1>0, <3>1 DEF AnswerInv
      <3>2. CASE d # c BY <1>0, <2>1, <3>2, AnswerKept DEF AnswersInv, Moved
      <3> QED BY <3>1, <3>2
    <2> QED BY <2>2 DEF AnswersInv
  <1> QED BY <1>1, <1>2, <1>3, <1>4, <1>5, <1>6, <1>7

\* A request's head has been taken in, and its body is awaited.
LEMMA HeadTaken ==
  ASSUME CoreInv, NEW c \in Conn, conn[c] = "head", NEW r,
         conn' = [conn EXCEPT ![c] = "body"], req' = [req EXCEPT ![c] = r],
         UNCHANGED <<answer, promised, rx>>, Quiet
  PROVE  CoreInv'
  <1> USE DEF CoreInv, Quiet
  <1>0. Moved(c) /\ conn'[c] = "body" BY DEF Moved, ConnInv, Stages
  <1>1. ConnInv' BY <1>0 DEF ConnInv, Moved, Wait, Op, BodyOf, JobsInv
  <1>2. JobsInv' BY <1>0 DEF JobsInv, Moved
  <1>3. Books' BY <1>0, BooksSame
  <1>4. BusInv' BY DEF BusInv
  <1>5. Permits' BY <1>0, PermitsSame
  <1>6. StreamsInv'
    <2>1. ASSUME NEW d \in Conn PROVE StreamInv(d)'
      <3>1. CASE d = c BY <1>0, <3>1, NoStream DEF StreamsInv
      <3>2. CASE d # c BY <1>0, <3>2, StreamKept DEF StreamsInv, Moved
      <3> QED BY <3>1, <3>2
    <2> QED BY <2>1 DEF StreamsInv
  <1>7. AnswersInv'
    <2>1. Settled BY DEF Settled
    <2>2. ASSUME NEW d \in Conn PROVE AnswerInv(d)'
      <3>1. CASE d = c BY <1>0, <3>1 DEF AnswerInv
      <3>2. CASE d # c BY <1>0, <2>1, <3>2, AnswerKept DEF AnswersInv, Moved
      <3> QED BY <3>1, <3>2
    <2> QED BY <2>2 DEF AnswersInv
  <1> QED BY <1>1, <1>2, <1>3, <1>4, <1>5, <1>6, <1>7

LEMMA HeadReadStep == ASSUME AInv, NEW c \in Conn, HeadRead(c) PROVE AInv'
  <1> USE DEF AInv
  <1>1. conn[c] = "head" /\ UNCHANGED <<queueVars, bus, frames, groupVars, cancelled, mix>> BY DEF HeadRead
  <1>2. PICK r \in mix.names :
          \/ \E s : Close(c, s, 0) /\ UNCHANGED <<rx, first, sseFree>>
          \/ /\ Stage(c, "streaming") /\ sseFree > 0 /\ sseFree' = sseFree - 1
             /\ Subscribe(c) /\ first' = [first EXCEPT ![c] = Len(bus) + 1]
          \/ /\ conn' = [conn EXCEPT ![c] = "body"] /\ req' = [req EXCEPT ![c] = r]
             /\ UNCHANGED <<answer, promised, arrivals, rx, first, sseFree>>
    BY Zenon DEF HeadRead
  <1>3. GroupInv' BY <1>1, GroupKept DEF groupVars
  <1>4. CASE \E s : Close(c, s, 0) /\ UNCHANGED <<rx, first, sseFree>>
    <2>1. PICK s : Close(c, s, 0) BY <1>4
    <2>2. Quiet /\ Receiver(c) BY <1>1, <1>4 DEF Quiet, Receiver, queueVars
    <2>3. ~Waited(c) BY <1>1 DEF Waited, CoreInv, ConnInv
    <2> QED BY <1>1, <1>3, <2>1, <2>2, <2>3, CloseStep
  <1>5. CASE /\ Stage(c, "streaming") /\ sseFree > 0 /\ sseFree' = sseFree - 1
             /\ Subscribe(c) /\ first' = [first EXCEPT ![c] = Len(bus) + 1]
    BY <1>1, <1>3, <1>5, StreamBegins
  <1>6. CASE /\ conn' = [conn EXCEPT ![c] = "body"] /\ req' = [req EXCEPT ![c] = r]
             /\ UNCHANGED <<answer, promised, arrivals, rx, first, sseFree>>
    <2>1. Quiet BY <1>1, <1>6 DEF Quiet, queueVars
    <2> QED BY <1>1, <1>3, <1>6, <2>1, HeadTaken
  <1> QED BY <1>2, <1>4, <1>5, <1>6

LEMMA BodyReadStep == ASSUME AInv, NEW c \in Conn, BodyRead(c) PROVE AInv'
  <1> USE DEF AInv
  <1>1. /\ conn[c] = "body" /\ Quiet /\ UNCHANGED <<group, own, cache>>
    BY DEF BodyRead, Quiet, queueVars
  <1>2. PICK connected \in BOOLEAN :
          \/ Close(c, 404, 0) /\ UNCHANGED <<rx, fetched>>
          \/ LET refusal == HandlerRefusal(Op(c), BodyOf(c), Settings.loopback, connected, cache # Empty)
             IN  refusal # 0 /\ Close(c, refusal, 0) /\ UNCHANGED <<rx, fetched>>
          \/ Stage(c, "enqueueing") /\ Subscribe(c) /\ UNCHANGED fetched
          \/ Stage(c, "enqueueing") /\ UNCHANGED <<rx, fetched>>
          \/ Effect(Op(c), BodyOf(c)) \in {"client", "change"} /\ Stage(c, "calling") /\ UNCHANGED <<rx,
                 fetched>>
          \/ /\ Op(c) \in {"groups", "group_info"} /\ Stage(c, "fetching")
             /\ fetched' = [fetched EXCEPT ![c] = [Empty EXCEPT !.since = own]] /\ UNCHANGED rx
          \/ Effect(Op(c), BodyOf(c)) # "wait" /\ (\E s : Close(c, s, 0)) /\ UNCHANGED <<rx, fetched>>
    BY DEF BodyRead
  <1>3. Receiver(c) BY <1>2 DEF Receiver, Subscribe
  <1>4. GroupInv'
    <2>1. CASE UNCHANGED fetched BY <1>1, <2>1, GroupKept
    <2>2. CASE fetched' = [fetched EXCEPT ![c] = [Empty EXCEPT !.since = own]]
      <3> DEFINE e == [Empty EXCEPT !.since = own]
      <3>1. own \in Nat BY DEF GroupInv
      <3>2. e \in CacheEntry /\ e.version = 0 /\ e.since = own BY <3>1 DEF Empty, CacheEntry
      <3> HIDE DEF e
      <3>3. fetched' \in [Conn -> CacheEntry] /\ \A d \in Conn : fetched'[d] \in {fetched[d], e}
        BY <2>2, <3>2 DEF GroupInv, e
      <3> QED BY <1>1, <3>1, <3>2, <3>3 DEF GroupInv
    <2> QED BY <1>2, <2>1, <2>2
  <1> HIDE DEF AInv
  <1>5. CoreInv /\ (GroupInv' /\ CoreInv' => AInv') BY DEF AInv
  <1>6. ASSUME NEW s, Close(c, s, 0), ~Waited(c) \/ s \in Codes PROVE AInv'
    BY <1>1, <1>3, <1>4, <1>5, <1>6, CloseStep
  <1>7. ASSUME NEW s \in {"enqueueing", "calling", "changed", "fetching"}, Stage(c, s),
         s # "enqueueing" => ~Wait(c)
        PROVE  AInv'
    BY <1>1, <1>3, <1>4, <1>5, <1>7, StageStep
  <1>8. 404 \in Codes BY DEF Codes
  <1>9. Waited(c) => Effect(Op(c), BodyOf(c)) = "wait" BY DEF Waited
  <1>10. Wait(c) => Effect(Op(c), BodyOf(c)) = "wait" BY DEF Wait
  <1>11. Op(c) \in {"groups", "group_info"} => Effect(Op(c), BodyOf(c)) = "none"
    BY DEF Effect, Reads, Waits, Statuses, Enqueues, Media, Notes, Direct, Changes, Locals
  <1> QED BY <1>2, <1>6, <1>7, <1>8, <1>9, <1>10, <1>11, HandlerCode

\* A job is queued, which its client will wait for, or is told of.
LEMMA JobWaited ==
  ASSUME CoreInv, NEW c \in Conn, conn[c] = "enqueueing", jobs' = Append(jobs, "queued"), Stage(c, "waiting"),
         job' = [job EXCEPT ![c] = Len(jobs) + 1], UNCHANGED <<rx, announced, bus, frames, first, sseFree>>
  PROVE  CoreInv'
  <1> USE DEF CoreInv
  <1>0. /\ Moved(c) /\ conn'[c] = "waiting" /\ req' = req /\ promised' = promised /\ answer' = answer
    BY StageFacts DEF Stages
  <1>a. /\ Len(jobs') = Len(jobs) + 1 /\ jobs' \in Seq(JobStates) /\ DOMAIN jobs' = DOMAIN jobs \cup {Len(jobs) + 1}
        /\ \A j \in DOMAIN jobs : jobs'[j] = jobs[j]
    BY DEF JobsInv, JobStates
  <1>b. Len(jobs) \in Nat /\ job[c] = 0 BY <1>0 DEF JobsInv
  <1>1. ConnInv' BY <1>0, <1>a, <1>b DEF ConnInv, Moved, Wait, Op, BodyOf
  <1>2. JobsInv'
    <2>1. job' \in [Conn -> Nat] /\ job'[c] = Len(jobs) + 1 /\ \A d \in Conn \ {c} : job'[d] = job[d]
      BY <1>b DEF JobsInv
    <2> QED BY <1>0, <1>a, <2>1 DEF JobsInv, Moved
  <1>3. Books'
    <2>1. Len(jobs) + 1 # 0 BY <1>b
    <2> QED BY <1>0, <1>a, <1>b, <2>1, BooksWaited
  <1>4. BusInv' BY DEF BusInv
  <1>5. Permits' BY <1>0, PermitsSame
  <1>6. StreamsInv'
    <2>1. ASSUME NEW d \in Conn PROVE StreamInv(d)'
      <3>1. CASE d = c BY <1>0, <3>1, NoStream DEF StreamsInv
      <3>2. CASE d # c BY <1>0, <3>2, StreamKept DEF StreamsInv, Moved
      <3> QED BY <3>1, <3>2
    <2> QED BY <2>1 DEF StreamsInv
  <1>7. AnswersInv'
    <2>1. Settled BY <1>a DEF Settled
    <2>2. ASSUME NEW d \in Conn PROVE AnswerInv(d)'
      <3>1. CASE d = c BY <1>0, <3>1 DEF AnswerInv
      <3>2. CASE d # c BY <1>0, <2>1, <3>2, AnswerKept DEF AnswersInv, Moved
      <3> QED BY <3>1, <3>2
    <2> QED BY <2>2 DEF AnswersInv
  <1> QED BY <1>1, <1>2, <1>3, <1>4, <1>5, <1>6, <1>7

LEMMA JobAccepted ==
  ASSUME CoreInv, NEW c \in Conn, conn[c] = "enqueueing", jobs' = Append(jobs, "queued"), ~Waited(c),
         Close(c, 200, Len(jobs) + 1), UNCHANGED <<job, rx, announced, bus, frames, first, sseFree>>
  PROVE  CoreInv'
  <1> USE DEF CoreInv
  <1>a. /\ Len(jobs') = Len(jobs) + 1 /\ jobs' \in Seq(JobStates) /\ DOMAIN jobs' = DOMAIN jobs \cup {Len(jobs) + 1}
        /\ \A j \in DOMAIN jobs : jobs'[j] = jobs[j]
    BY DEF JobsInv, JobStates
  <1>b. Len(jobs) \in Nat /\ Len(jobs) + 1 # 0 BY DEF JobsInv
  <1>0. /\ Moved(c) /\ conn'[c] = "closed" /\ req' = req /\ answer'[c].job = Len(jobs) + 1
        /\ promised' = promised + 1
    BY <1>b, CloseFacts
  <1>1. ConnInv' BY <1>0, <1>a, <1>b DEF ConnInv, Moved, Wait, Op, BodyOf
  <1>2. JobsInv' BY <1>0, <1>a, <1>b DEF JobsInv, Moved
  <1>3. Books' BY <1>0, <1>a, <1>b, BooksPromised DEF JobsInv
  <1>4. BusInv' BY DEF BusInv
  <1>5. Permits' BY <1>0, PermitsSame
  <1>6. StreamsInv'
    <2>1. ASSUME NEW d \in Conn PROVE StreamInv(d)'
      <3>1. CASE d = c BY <1>0, <3>1, NoStream DEF StreamsInv
      <3>2. CASE d # c BY <1>0, <3>2, StreamKept DEF StreamsInv, Moved
      <3> QED BY <3>1, <3>2
    <2> QED BY <2>1 DEF StreamsInv
  <1>7. AnswersInv'
    <2>1. Settled BY <1>a DEF Settled
    <2>2. ASSUME NEW d \in Conn PROVE AnswerInv(d)'
      <3>1. CASE d = c
        <4>1. ~ Waited(c)' BY <1>0 DEF Waited, Op, BodyOf
        <4> QED BY <3>1, <4>1 DEF AnswerInv
      <3>2. CASE d # c BY <1>0, <2>1, <3>2, AnswerKept DEF AnswersInv, Moved
      <3> QED BY <3>1, <3>2
    <2> QED BY <2>2 DEF AnswersInv
  <1> QED BY <1>1, <1>2, <1>3, <1>4, <1>5, <1>6, <1>7

LEMMA EnqueueOpStep == ASSUME AInv, NEW c \in Conn, EnqueueOp(c) PROVE AInv'
  <1> USE DEF AInv
  <1>1. conn[c] = "enqueueing" /\ UNCHANGED <<announced, bus, frames, first, sseFree, groupVars>>
    BY DEF EnqueueOp
  <1>2. GroupInv' BY <1>1, GroupKept DEF groupVars
  <1>3. \/ /\ jobs' = Append(jobs, "queued") /\ Stage(c, "waiting")
           /\ job' = [job EXCEPT ![c] = Len(jobs) + 1] /\ UNCHANGED rx
        \/ /\ jobs' = Append(jobs, "queued") /\ Effect(Op(c), BodyOf(c)) # "wait"
           /\ Close(c, 200, Len(jobs) + 1) /\ UNCHANGED <<job, rx>>
        \/ Close(c, 500, 0) /\ rx' = [rx EXCEPT ![c] = 0] /\ UNCHANGED <<jobs, job>>
    BY DEF EnqueueOp
  <1>4. CASE /\ jobs' = Append(jobs, "queued") /\ Stage(c, "waiting")
             /\ job' = [job EXCEPT ![c] = Len(jobs) + 1] /\ UNCHANGED rx
    BY <1>1, <1>2, <1>4, JobWaited
  <1>5. CASE /\ jobs' = Append(jobs, "queued") /\ Effect(Op(c), BodyOf(c)) # "wait"
             /\ Close(c, 200, Len(jobs) + 1) /\ UNCHANGED <<job, rx>>
    <2>1. ~Waited(c) BY <1>5 DEF Waited
    <2> QED BY <1>1, <1>2, <1>5, <2>1, JobAccepted
  <1>6. CASE Close(c, 500, 0) /\ rx' = [rx EXCEPT ![c] = 0] /\ UNCHANGED <<jobs, job>>
    <2>1. Quiet /\ Receiver(c) /\ 500 \in Codes BY <1>1, <1>6 DEF Quiet, Receiver, Codes
    <2> QED BY <1>1, <1>2, <1>6, <2>1, CloseStep
  <1> QED BY <1>3, <1>4, <1>5, <1>6

\* A waiting request is answered with its job.
LEMMA WaiterAnswered ==
  ASSUME CoreInv, NEW c \in Conn, conn[c] = "waiting", NEW s, Close(c, s, job[c]),
         \/ s = 200 /\ jobs[job[c]] = "sent"
         \/ s = 500 /\ jobs[job[c]] = "failed"
         \/ s = 504,
         rx' = [rx EXCEPT ![c] = 0], job' = [job EXCEPT ![c] = 0],
         UNCHANGED <<jobs, announced, bus, frames, first, sseFree>>
  PROVE  CoreInv'
  <1> USE DEF CoreInv
  <1>a. job[c] # 0 /\ job[c] \in DOMAIN jobs BY DEF JobsInv
  <1>0. /\ Moved(c) /\ conn'[c] = "closed" /\ req' = req /\ promised' = promised + 1
        /\ answer'[c].job = job[c] /\ answer'[c].status = s
    BY <1>a, CloseFacts
  <1>b. job[c] \in 0 .. Len(jobs) BY <1>a DEF JobsInv
  <1>1. ConnInv' BY <1>0, <1>b DEF ConnInv, Moved, Wait, Op, BodyOf
  <1>2. JobsInv'
    <2>1. job' \in [Conn -> Nat] /\ job'[c] = 0 /\ \A d \in Conn \ {c} : job'[d] = job[d] BY DEF JobsInv
    <2>2. ASSUME NEW d \in Conn
          PROVE  IF conn'[d] = "waiting" THEN job'[d] \in DOMAIN jobs ELSE job'[d] = 0
      BY <1>0, <2>1 DEF JobsInv, Moved
    <2> QED BY <2>1, <2>2 DEF JobsInv
  <1>3. Books' BY <1>0, <1>a, BooksAnswered
  <1>4. BusInv' BY DEF BusInv
  <1>5. Permits' BY <1>0, PermitsSame
  <1>6. StreamsInv'
    <2>1. ASSUME NEW d \in Conn PROVE StreamInv(d)'
      <3>1. CASE d = c BY <1>0, <3>1, NoStream DEF StreamsInv
      <3>2. CASE d # c
        <4>1. rx'[d] = rx[d] BY <3>2 DEF BusInv
        <4> QED BY <1>0, <3>2, <4>1, StreamKept DEF StreamsInv, Moved
      <3> QED BY <3>1, <3>2
    <2> QED BY <2>1 DEF StreamsInv
  <1>7. AnswersInv'
    <2>1. Settled BY DEF Settled
    <2>2. ASSUME NEW d \in Conn PROVE AnswerInv(d)'
      <3>1. CASE d = c
        <4>1. s # 200 => ExitCode(s) = 1 BY DEF ExitCode, Unanswered
        <4> QED BY <1>0, <1>a, <3>1, <4>1 DEF AnswerInv
      <3>2. CASE d # c BY <1>0, <2>1, <3>2, AnswerKept DEF AnswersInv, Moved
      <3> QED BY <3>1, <3>2
    <2> QED BY <2>2 DEF AnswersInv
  <1> QED BY <1>1, <1>2, <1>3, <1>4, <1>5, <1>6, <1>7

\* A receiver moves over the bus.
LEMMA WaiterMoves ==
  ASSUME CoreInv, NEW c \in Conn, conn[c] = "waiting", NEW p \in Nat, p <= Len(bus) + 1,
         rx' = [rx EXCEPT ![c] = p], UNCHANGED <<requestVars, job, jobs, announced, bus, frames, first,
                sseFree>>
  PROVE  CoreInv'
  <1> USE DEF CoreInv, requestVars
  <1>0. Moved(c) /\ conn' = conn BY DEF Moved, ConnInv
  <1>1. ConnInv' BY DEF ConnInv, Wait, Op, BodyOf
  <1>2. JobsInv' BY DEF JobsInv
  <1>3. Books' BY BooksSame
  <1>4. BusInv' BY DEF BusInv
  <1>5. Permits' BY <1>0, PermitsSame
  <1>6. StreamsInv'
    <2>1. ASSUME NEW d \in Conn PROVE StreamInv(d)'
      <3>1. CASE d = c BY <1>0, <3>1, NoStream DEF StreamsInv
      <3>2. CASE d # c
        <4>1. rx'[d] = rx[d] BY <3>2 DEF BusInv
        <4> QED BY <1>0, <3>2, <4>1, StreamKept DEF StreamsInv, Moved
      <3> QED BY <3>1, <3>2
    <2> QED BY <2>1 DEF StreamsInv
  <1>7. AnswersInv'
    <2>1. Settled BY DEF Settled
    <2> QED BY <2>1, AnswerKept DEF AnswersInv
  <1> QED BY <1>1, <1>2, <1>3, <1>4, <1>5, <1>6, <1>7

LEMMA WaiterReceivesStep == ASSUME AInv, NEW c \in Conn, WaiterReceives(c) PROVE AInv'
  <1> USE DEF AInv
  <1>1. /\ conn[c] = "waiting" /\ rx[c] # 0 /\ rx[c] <= Len(bus)
        /\ UNCHANGED <<jobs, announced, bus, frames, first, sseFree, groupVars>>
    BY DEF WaiterReceives, Pending
  <1>2. GroupInv' BY <1>1, GroupKept DEF groupVars
  <1>3. Len(bus) \in Nat /\ rx[c] \in Nat /\ rx[c] \in DOMAIN bus BY <1>1 DEF CoreInv, BusInv
  <1>4. \/ Lagged(c) /\ rx' = [rx EXCEPT ![c] = OldestHeld] /\ UNCHANGED <<requestVars, job>>
        \/ /\ bus[rx[c]] = job[c]
           /\ Close(c, IF bus[rx[c]] # Other /\ jobs[bus[rx[c]]] = "sent" THEN 200 ELSE 500, job[c])
           /\ rx' = [rx EXCEPT ![c] = 0] /\ job' = [job EXCEPT ![c] = 0]
        \/ rx' = [rx EXCEPT ![c] = rx[c] + 1] /\ UNCHANGED <<requestVars, job>>
    <2>1. rx \in [Conn -> Nat] BY DEF CoreInv, BusInv
    <2> QED BY <2>1 DEF WaiterReceives, EndsWait
  <1>5. CASE Lagged(c) /\ rx' = [rx EXCEPT ![c] = OldestHeld] /\ UNCHANGED <<requestVars, job>>
    <2>1. OldestHeld \in Nat /\ OldestHeld <= Len(bus) + 1 BY <1>3, <1>5 DEF OldestHeld, Lagged
    <2> QED BY <1>1, <1>2, <1>5, <2>1, WaiterMoves
  <1>6. CASE /\ bus[rx[c]] = job[c]
             /\ Close(c, IF bus[rx[c]] # Other /\ jobs[bus[rx[c]]] = "sent" THEN 200 ELSE 500, job[c])
             /\ rx' = [rx EXCEPT ![c] = 0] /\ job' = [job EXCEPT ![c] = 0]
    <2>1. job[c] \in DOMAIN jobs /\ job[c] # 0 BY <1>1 DEF CoreInv, JobsInv
    <2>2. job[c] \in announced BY <1>3, <1>6, <2>1 DEF CoreInv, BusInv, Other
    <2>3. jobs[job[c]] \in {"sent", "failed"} BY <2>1, <2>2 DEF CoreInv, JobsInv, JobStates
    <2>4. CASE jobs[job[c]] = "sent"
      <3>1. Close(c, 200, job[c]) BY <1>6, <2>1, <2>4 DEF Other
      <3> QED BY <1>1, <1>2, <1>6, <2>4, <3>1, WaiterAnswered
    <2>5. CASE jobs[job[c]] = "failed"
      <3>1. Close(c, 500, job[c]) BY <1>6, <2>5
      <3> QED BY <1>1, <1>2, <1>6, <2>5, <3>1, WaiterAnswered
    <2> QED BY <2>3, <2>4, <2>5
  <1>7. CASE rx' = [rx EXCEPT ![c] = rx[c] + 1] /\ UNCHANGED <<requestVars, job>>
    <2>1. rx[c] + 1 \in Nat /\ rx[c] + 1 <= Len(bus) + 1 BY <1>1, <1>3
    <2> QED BY <1>1, <1>2, <1>7, <2>1, WaiterMoves
  <1> QED BY <1>4, <1>5, <1>6, <1>7

LEMMA WaitTimesOutStep == ASSUME AInv, NEW c \in Conn, WaitTimesOut(c) PROVE AInv'
  <1> USE DEF AInv, WaitTimesOut
  <1>1. GroupInv' BY GroupKept DEF groupVars
  <1> QED BY <1>1, WaiterAnswered

\* The group moves on.
LEMMA GroupGrows == ASSUME GroupInv, group' = group + 1, UNCHANGED <<own, cache, fetched>> PROVE GroupInv'
  <1>1. group' \in Nat /\ own' \in 1 .. group' /\ cache'.version <= group'
    BY DEF GroupInv, CacheEntry
  <1>2. \A c \in Conn : fetched'[c].version <= group' BY DEF GroupInv, CacheEntry
  <1> QED BY <1>1, <1>2 DEF GroupInv

LEMMA ClientReturnsStep == ASSUME AInv, NEW c \in Conn, ClientReturns(c) PROVE AInv'
  <1> USE DEF AInv
  <1>1. conn[c] = "calling" /\ UNCHANGED <<queueVars, busVars, own, cache, fetched>> BY DEF ClientReturns
  <1>2. Quiet /\ Receiver(c) BY <1>1 DEF Quiet, Receiver, queueVars, busVars
  <1>3. ~Waited(c) /\ ~Wait(c) BY <1>1 DEF CoreInv, ConnInv, Waited, Wait
  <1>4. \/ (\E s : Close(c, s, 0)) /\ UNCHANGED group
        \/ group' = group + 1 /\ Stage(c, "changed")
    BY DEF ClientReturns
  <1>5. GroupInv' BY <1>1, <1>4, GroupGrows, GroupKept
  <1> QED BY <1>1, <1>2, <1>3, <1>4, <1>5, CloseStep, StageStep

LEMMA InvalidateStep == ASSUME AInv, NEW c \in Conn, Invalidate(c) PROVE AInv'
  <1> USE DEF AInv
  <1>1. /\ conn[c] = "changed" /\ cache' = Empty /\ own' = group /\ Close(c, 200, 0)
        /\ UNCHANGED <<queueVars, busVars, group, fetched>>
    BY DEF Invalidate, Invalidated
  <1>2. Quiet /\ Receiver(c) BY <1>1 DEF Quiet, Receiver, queueVars, busVars
  <1>3. ~Waited(c) BY <1>1 DEF CoreInv, ConnInv, Waited, Wait
  <1>4. GroupInv' BY <1>1 DEF GroupInv, CacheEntry, Empty
  <1> QED BY <1>1, <1>2, <1>3, <1>4, CloseStep

\* A step that only touches the metadata.
LEMMA CoreKept ==
  ASSUME CoreInv, UNCHANGED <<requestVars, queueVars, busVars>>
  PROVE  CoreInv'
  <1> USE DEF CoreInv, requestVars, queueVars, busVars
  <1>1. ConnInv' BY DEF ConnInv, Wait, Op, BodyOf
  <1>2. JobsInv' BY DEF JobsInv
  <1>3. Books' BY BooksSame
  <1>4. BusInv' BY DEF BusInv
  <1>5. Permits' BY DEF Permits, Streams
  <1>6. StreamsInv' BY StreamKept DEF StreamsInv
  <1>7. AnswersInv'
    <2>1. Settled BY DEF Settled
    <2> QED BY <2>1, AnswerKept DEF AnswersInv
  <1> QED BY <1>1, <1>2, <1>3, <1>4, <1>5, <1>6, <1>7

LEMMA FetchedStep == ASSUME AInv, NEW c \in Conn, Fetched(c) PROVE AInv'
  <1> USE DEF AInv
  <1>1. /\ conn[c] = "fetching" /\ fetched[c].version = 0 /\ UNCHANGED <<queueVars, busVars, group, own, cache>>
    BY DEF Fetched
  <1>2. CASE fetched' = [fetched EXCEPT ![c].version = group] /\ UNCHANGED requestVars
    <2>1. GroupInv'
      <3>1. fetched[c] \in CacheEntry BY DEF GroupInv
      <3>2. fetched' = [fetched EXCEPT ![c] = [fetched[c] EXCEPT !.version = group]] BY <1>2
      <3> QED BY <1>1, <3>1, <3>2 DEF GroupInv, CacheEntry
    <2> QED BY <1>1, <1>2, <2>1, CoreKept
  <1>3. CASE Close(c, 500, 0) /\ fetched' = [fetched EXCEPT ![c] = Empty]
    <2>1. GroupInv' BY <1>1, <1>3 DEF GroupInv, Empty, CacheEntry
    <2>2. Quiet /\ Receiver(c) /\ 500 \in Codes BY <1>1 DEF Quiet, Receiver, queueVars, busVars, Codes
    <2> QED BY <1>1, <1>3, <2>1, <2>2, CloseStep
  <1> QED BY <1>2, <1>3 DEF Fetched

LEMMA CacheInsertStep == ASSUME AInv, NEW c \in Conn, CacheInsert(c) PROVE AInv'
  <1> USE DEF AInv
  <1>1. /\ conn[c] = "fetching" /\ fetched[c].version # 0 /\ Close(c, 200, 0)
        /\ cache' = [fetched[c] EXCEPT !.overlapped = own > fetched[c].since]
        /\ fetched' = [fetched EXCEPT ![c] = Empty] /\ UNCHANGED <<queueVars, busVars, group, own>>
    BY DEF CacheInsert
  <1>2. Quiet /\ Receiver(c) BY <1>1 DEF Quiet, Receiver, queueVars, busVars
  <1>3. ~Waited(c) BY <1>1 DEF CoreInv, ConnInv, Waited, Wait
  <1>4. GroupInv'
    <2>1. fetched[c] \in CacheEntry BY DEF GroupInv
    <2>2. (own > fetched[c].since) \in BOOLEAN OBVIOUS
    <2>3. cache' \in CacheEntry /\ cache'.version = fetched[c].version BY <1>1, <2>1, <2>2 DEF CacheEntry
    <2>4. own > fetched[c].since => cache'.overlapped BY <1>1, <2>1 DEF CacheEntry
    <2>5. cache'.version < own => own > fetched[c].since BY <1>1, <2>1, <2>3 DEF GroupInv, CacheEntry
    <2>6. fetched' \in [Conn -> CacheEntry] BY <1>1 DEF GroupInv, CacheEntry, Empty
    <2>7. \A d \in Conn : fetched'[d] = fetched[d] \/ fetched'[d] = Empty BY <1>1 DEF GroupInv
    <2>8. own \in Nat /\ group \in Nat BY DEF GroupInv
    <2> QED BY <1>1, <2>3, <2>4, <2>5, <2>6, <2>7, <2>8 DEF GroupInv, Empty
  <1> QED BY <1>1, <1>2, <1>3, <1>4, CloseStep

LEMMA MetadataStep == ASSUME AInv, CacheExpires \/ GroupChanges \/ Cancel PROVE AInv'
  <1> USE DEF AInv
  <1>1. CoreInv' BY CoreKept DEF CacheExpires, GroupChanges, Cancel
  <1>2. CASE CacheExpires BY <1>1, <1>2 DEF CacheExpires, GroupInv, Empty, CacheEntry
  <1>3. CASE GroupChanges BY <1>1, <1>3, GroupGrows DEF GroupChanges
  <1>4. CASE Cancel BY <1>1, <1>4, GroupKept DEF Cancel, groupVars
  <1> QED BY <1>2, <1>3, <1>4

\* A stream ends; its last frame may mark a gap.
LEMMA StreamEndsStep ==
  ASSUME CoreInv, NEW c \in Conn, conn[c] = "streaming", StreamEnds(c),
         frames' \in {frames, [frames EXCEPT ![c] = Append(@, Gap)]}, UNCHANGED <<queueVars, bus, first>>
  PROVE  CoreInv'
  <1> USE DEF CoreInv, queueVars
  <1>0. /\ Close(c, 200, 0) /\ Moved(c) /\ conn'[c] = "closed" /\ req' = req /\ promised' = promised
        /\ answer'[c].job = 0 /\ sseFree' = sseFree + 1 /\ rx' = [rx EXCEPT ![c] = 0]
    BY CloseFacts DEF StreamEnds
  <1>1. ConnInv' BY <1>0 DEF ConnInv, Moved, Wait, Op, BodyOf, JobsInv
  <1>2. JobsInv' BY <1>0 DEF JobsInv, Moved
  <1>3. Books' BY <1>0, BooksSame
  <1>4. BusInv' BY <1>0 DEF BusInv
  <1>5. Permits' BY <1>0, PermitsReturned
  <1>6. StreamsInv'
    <2>1. ASSUME NEW d \in Conn PROVE StreamInv(d)'
      <3>1. CASE d = c
        <4>1. StreamInv(c) BY DEF StreamsInv
        <4>2. CASE frames' = frames BY <1>0, <3>1, <4>1, <4>2 DEF StreamInv
        <4>3. CASE frames' = [frames EXCEPT ![c] = Append(@, Gap)]
          <5>1. frames'[c] = Append(frames[c], Gap) BY <4>3 DEF StreamsInv
          <5>2. /\ frames'[c] \in Seq(Nat) /\ Len(frames'[c]) = Len(frames[c]) + 1
                /\ frames'[c][Len(frames[c]) + 1] = Gap
                /\ \A i \in DOMAIN frames[c] : frames'[c][i] = frames[c][i]
                /\ DOMAIN frames'[c] = DOMAIN frames[c] \cup {Len(frames[c]) + 1}
            BY <4>1, <5>1 DEF StreamInv, Gap
          <5>3. \A i \in DOMAIN frames[c] : frames[c][i] = first[c] + i - 1 BY <4>1 DEF StreamInv
          <5> QED BY <1>0, <3>1, <4>1, <5>2, <5>3 DEF StreamInv
        <4> QED BY <4>2, <4>3
      <3>2. CASE d # c
        <4>1. rx'[d] = rx[d] /\ frames'[d] = frames[d] BY <1>0, <3>2 DEF BusInv, StreamsInv
        <4> QED BY <1>0, <3>2, <4>1, StreamKept DEF StreamsInv, Moved
      <3> QED BY <3>1, <3>2
    <2> QED BY <2>1 DEF StreamsInv
  <1>7. AnswersInv'
    <2>1. Settled BY DEF Settled
    <2>2. ~Waited(c) BY DEF Waited, ConnInv
    <2>3. ASSUME NEW d \in Conn PROVE AnswerInv(d)'
      BY <1>0, <2>1, <2>2, AnswerKept, AnswerRefused DEF AnswersInv, Moved
    <2> QED BY <2>3 DEF AnswersInv
  <1> QED BY <1>1, <1>2, <1>3, <1>4, <1>5, <1>6, <1>7

\* A stream writes the event at its receiver's position.
LEMMA StreamWrites ==
  ASSUME CoreInv, NEW c \in Conn, conn[c] = "streaming", rx[c] <= Len(bus),
         frames' = [frames EXCEPT ![c] = Append(@, rx[c])], rx' = [rx EXCEPT ![c] = @ + 1],
         UNCHANGED <<requestVars, sseFree, queueVars, bus, first>>
  PROVE  CoreInv'
  <1> USE DEF CoreInv, requestVars, queueVars
  <1>1. ConnInv' BY DEF ConnInv, Wait, Op, BodyOf
  <1>2. JobsInv' BY DEF JobsInv
  <1>3. Books' BY BooksSame
  <1>4. BusInv' BY DEF BusInv
  <1>5. Permits' BY DEF Permits, Streams
  <1>6. StreamsInv'
    <2>1. ASSUME NEW d \in Conn PROVE StreamInv(d)'
      <3>1. CASE d = c
        <4>1. StreamInv(c) BY DEF StreamsInv
        <4>2. frames'[c] = Append(frames[c], rx[c]) /\ rx'[c] = rx[c] + 1 /\ rx[c] \in Nat
          BY DEF StreamsInv, BusInv
        <4>3. /\ frames'[c] \in Seq(Nat) /\ Len(frames'[c]) = Len(frames[c]) + 1
              /\ frames'[c][Len(frames[c]) + 1] = rx[c]
              /\ \A i \in DOMAIN frames[c] : frames'[c][i] = frames[c][i]
              /\ DOMAIN frames'[c] = DOMAIN frames[c] \cup {Len(frames[c]) + 1}
          BY <4>1, <4>2 DEF StreamInv
        <4>4. \A i \in DOMAIN frames[c] : frames[c][i] = first[c] + i - 1 BY <4>1 DEF StreamInv
        <4>5. rx[c] = first[c] + Len(frames[c]) /\ Len(frames[c]) \in Nat /\ first[c] \in Nat \ {0}
          BY <4>1 DEF StreamInv
        <4>6. \A i \in DOMAIN frames'[c] : frames'[c][i] = first[c] + i - 1 BY <4>3, <4>4, <4>5
        <4>7. conn'[c] = conn[c] /\ first'[c] = first[c] BY DEF StreamsInv
        <4>8. rx'[c] = first'[c] + Len(frames'[c]) BY <4>2, <4>3, <4>5, <4>7
        <4> QED BY <3>1, <4>3, <4>5, <4>6, <4>7, <4>8 DEF StreamInv
      <3>2. CASE d # c
        <4>1. rx'[d] = rx[d] /\ frames'[d] = frames[d] BY <3>2 DEF BusInv, StreamsInv
        <4> QED BY <4>1, StreamKept DEF StreamsInv
      <3> QED BY <3>1, <3>2
    <2> QED BY <2>1 DEF StreamsInv
  <1>7. AnswersInv'
    <2>1. Settled BY DEF Settled
    <2> QED BY <2>1, AnswerKept DEF AnswersInv
  <1> QED BY <1>1, <1>2, <1>3, <1>4, <1>5, <1>6, <1>7

LEMMA StreamStep ==
  ASSUME AInv, NEW c \in Conn, StreamReceives(c) \/ StreamWriteFails(c) \/ StreamCancelled(c)
  PROVE  AInv'
  <1> USE DEF AInv
  <1>1. conn[c] = "streaming" /\ UNCHANGED <<queueVars, bus, first, groupVars>>
    BY DEF StreamReceives, StreamWriteFails, StreamCancelled
  <1>2. GroupInv' BY <1>1, GroupKept DEF groupVars
  <1>3. CASE StreamEnds(c) /\ frames' \in {frames, [frames EXCEPT ![c] = Append(@, Gap)]}
    BY <1>1, <1>2, <1>3, StreamEndsStep
  <1>4. CASE /\ rx[c] <= Len(bus) /\ frames' = [frames EXCEPT ![c] = Append(@, rx[c])]
             /\ rx' = [rx EXCEPT ![c] = @ + 1] /\ UNCHANGED <<requestVars, sseFree>>
    BY <1>1, <1>2, <1>4, StreamWrites
  <1> QED BY <1>3, <1>4 DEF StreamReceives, StreamLags, Pending, StreamWriteFails, StreamCancelled

-----------------------------------------------------------------------------
(* The worker and the bus *)

\* Nothing of the connections changes.
LEMMA ConnsKept ==
  ASSUME CoreInv, UNCHANGED <<conn, req, answer>>, Len(jobs') = Len(jobs)
  PROVE  ConnInv'
  BY DEF CoreInv, ConnInv, Wait, Op, BodyOf

LEMMA JobEndsStep == ASSUME AInv, JobEnds PROVE AInv'
  <1> USE DEF AInv, CoreInv
  <1>1. PICK j \in DOMAIN jobs, s \in {"sent", "failed"} : jobs[j] = "queued" /\ jobs' = [jobs EXCEPT ![j] = s]
    BY DEF JobEnds
  <1>2. UNCHANGED <<requestVars, announced, job, busVars, groupVars>> BY DEF JobEnds
  <1>3. /\ jobs' \in Seq(JobStates) /\ Len(jobs') = Len(jobs) /\ DOMAIN jobs' = DOMAIN jobs /\ jobs'[j] = s
        /\ \A k \in DOMAIN jobs \ {j} : jobs'[k] = jobs[k]
    BY <1>1 DEF JobsInv, JobStates
  <1>4. ConnInv' BY <1>2, <1>3, ConnsKept DEF requestVars
  <1>5. JobsInv' BY <1>1, <1>2, <1>3 DEF JobsInv, requestVars
  <1>6. Books' BY <1>2, <1>3, BooksSame DEF requestVars
  <1>7. BusInv' BY <1>2 DEF BusInv, busVars
  <1>8. Permits' BY <1>2 DEF Permits, Streams, busVars, requestVars
  <1>9. StreamsInv' BY <1>2, StreamKept DEF StreamsInv, busVars, requestVars
  <1>10. AnswersInv'
    <2>1. Settled BY <1>1, <1>3 DEF Settled
    <2> QED BY <1>2, <2>1, AnswerKept DEF AnswersInv, requestVars
  <1>11. GroupInv' BY <1>2, GroupKept DEF groupVars
  <1> QED BY <1>4, <1>5, <1>6, <1>7, <1>8, <1>9, <1>10, <1>11

\* An event is published, of an announced job or another.
LEMMA SentStep ==
  ASSUME CoreInv, NEW e \in Nat, Sent(e), announced \subseteq announced', announced' \subseteq DOMAIN jobs,
         e = Other \/ e \in announced', \A j \in announced' : jobs[j] # "queued",
         UNCHANGED <<requestVars, jobs, job, rx, frames, first, sseFree>>
  PROVE  CoreInv'
  <1> USE DEF CoreInv, requestVars
  <1>1. ConnInv' BY ConnsKept
  <1>2. JobsInv' BY DEF JobsInv
  <1>3. Books' BY BooksSame
  <1>4. BusInv'
    <2>1. CASE bus' = bus BY <2>1 DEF BusInv
    <2>2. CASE bus' = Append(bus, e)
      <3>1. /\ bus' \in Seq(Nat) /\ Len(bus') = Len(bus) + 1 /\ DOMAIN bus' = DOMAIN bus \cup {Len(bus) + 1}
            /\ bus'[Len(bus) + 1] = e /\ \A i \in DOMAIN bus : bus'[i] = bus[i]
        BY <2>2 DEF BusInv
      <3>2. \A d \in Conn : rx[d] <= Len(bus') + 1 BY <3>1 DEF BusInv
      <3>3. \A i \in DOMAIN bus' : bus'[i] = Other \/ bus'[i] \in announced' BY <3>1 DEF BusInv
      <3> QED BY <3>1, <3>2, <3>3 DEF BusInv
    <2> QED BY <2>1, <2>2 DEF Sent
  <1>5. Permits' BY DEF Permits, Streams
  <1>6. StreamsInv' BY StreamKept DEF StreamsInv
  <1>7. AnswersInv'
    <2>1. Settled BY DEF Settled
    <2> QED BY <2>1, AnswerKept DEF AnswersInv
  <1> QED BY <1>1, <1>2, <1>3, <1>4, <1>5, <1>6, <1>7

LEMMA PublishingStep == ASSUME AInv, Announce \/ Publish PROVE AInv'
  <1> USE DEF AInv
  <1>1. UNCHANGED <<requestVars, jobs, job, rx, frames, first, sseFree, groupVars>>
    BY DEF Announce, Publish, queueVars
  <1>2. GroupInv' BY <1>1, GroupKept DEF groupVars
  <1>3. CASE Announce
    <2>1. PICK j \in DOMAIN jobs : jobs[j] # "queued" /\ announced' = announced \cup {j} /\ Sent(j)
      BY <1>3 DEF Announce
    <2>2. j \in Nat BY DEF CoreInv, JobsInv
    <2>3. announced' \subseteq DOMAIN jobs /\ \A k \in announced' : jobs[k] # "queued"
      BY <2>1 DEF CoreInv, JobsInv
    <2> QED BY <1>1, <1>2, <2>1, <2>2, <2>3, SentStep
  <1>4. CASE Publish
    <2>1. Sent(Other) /\ announced' = announced /\ Other \in Nat BY <1>4 DEF Publish, queueVars, Other
    <2>2. announced \subseteq DOMAIN jobs /\ \A k \in announced : jobs[k] # "queued" BY DEF CoreInv, JobsInv
    <2> QED BY <1>1, <1>2, <2>1, <2>2, SentStep
  <1> QED BY <1>3, <1>4

-----------------------------------------------------------------------------
(* The theorems *)

LEMMA AInit == Init => AInv
  <1> SUFFICES ASSUME Init PROVE AInv OBVIOUS
  <1> USE DEF Init
  <1>1. Awaiting = {} /\ Streams = {} BY DEF Awaiting, Streams
  <1>2. Books /\ Permits BY <1>1, FS_EmptySet DEF Books, Permits
  <1>3. ConnInv BY DEF ConnInv, Stages, NoAnswer
  <1>4. JobsInv /\ BusInv BY DEF JobsInv, BusInv
  <1>5. StreamsInv BY DEF StreamsInv, StreamInv
  <1>6. AnswersInv BY DEF AnswersInv, AnswerInv, Waited
  <1>7. GroupInv BY DEF GroupInv, CacheEntry, Empty
  <1> QED BY <1>2, <1>3, <1>4, <1>5, <1>6, <1>7 DEF AInv, CoreInv

LEMMA AStep == AInv /\ [Next]_vars => AInv'
  <1> SUFFICES ASSUME AInv, [Next]_vars PROVE AInv' OBVIOUS
  <1>1. ASSUME NEW c \in Conn,
               \/ Accept(c) \/ Unreadable(c) \/ HeadRead(c) \/ BodyRead(c) \/ EnqueueOp(c)
               \/ WaiterReceives(c) \/ WaitTimesOut(c) \/ ClientReturns(c) \/ Invalidate(c)
               \/ Fetched(c) \/ CacheInsert(c)
               \/ StreamReceives(c) \/ StreamWriteFails(c) \/ StreamCancelled(c)
        PROVE  AInv'
    BY <1>1, AcceptStep, UnreadableStep, HeadReadStep, BodyReadStep, EnqueueOpStep, WaiterReceivesStep,
       WaitTimesOutStep, ClientReturnsStep, InvalidateStep, FetchedStep, CacheInsertStep, StreamStep
  <1>2. CASE UNCHANGED vars
    <2>1. CoreInv' BY <1>2, CoreKept DEF AInv, vars
    <2>2. GroupInv' BY <1>2, GroupKept DEF AInv, vars, groupVars
    <2> QED BY <2>1, <2>2 DEF AInv
  <1> QED BY <1>1, <1>2, JobEndsStep, PublishingStep, MetadataStep DEF Next

\* The inductive invariant: what the stage of a connection says of its request, its job, its
\* stream and its permit, that the books of the jobs balance, and what the group cache may hold.
THEOREM ApiInvariant == Spec => []AInv
  BY AInit, AStep, PTL DEF Spec

\* However slow its reader, an event stream is contiguous from its subscription, a gap frame
\* ends it where the bus overtook it, and it holds its permit until then (handle_sse).
THEOREM StreamsAreGapless == Spec => []StreamGapless
  <1>1. AInv => StreamGapless
    <2> SUFFICES ASSUME AInv PROVE StreamGapless OBVIOUS
    <2> USE DEF AInv, CoreInv
    <2>1. TypeOK
      <3>1. conn \in [Conn -> Stages] /\ DOMAIN answer = Conn /\ \A c \in Conn : answer[c].job \in 0 .. Len(jobs)
        BY DEF ConnInv
      <3>2. announced \subseteq DOMAIN jobs /\ \A j \in DOMAIN jobs : jobs[j] \in {"queued", "sent", "failed"}
        BY DEF JobsInv, JobStates
      <3>3. \A c \in Conn : rx[c] \in 0 .. (Len(bus) + 1) BY DEF BusInv
      <3>4. sseFree \in 0 .. SsePermits /\ sseFree + Cardinality(Streams) = SsePermits
        <4>1. Cardinality(Streams) \in Nat BY FS_CardinalityType DEF Permits
        <4> QED BY <4>1 DEF Permits
      <3>5. cache.version \in 0 .. group /\ own \in 1 .. group BY DEF GroupInv, CacheEntry
      <3> QED BY <3>1, <3>2, <3>3, <3>4, <3>5 DEF TypeOK
    <2> QED BY <2>1 DEF StreamGapless, StreamsInv, StreamInv
  <1> QED BY <1>1, ApiInvariant, PTL

\* For every number of clients and jobs and every capacity of the bus, what a client is told
\* of its message is true, and no job is queued that nobody is told of (enqueue_and_wait).
THEOREM AnswersAreTrue == Spec => []AnswersTrue
  <1>1. AInv => AnswersTrue
    BY DEF AInv, CoreInv, AnswersTrue, AnswersInv, AnswerInv, Books, Awaiting
  <1> QED BY <1>1, ApiInvariant, PTL

\* After a change of ours, only metadata fetched while it was under way is older than it
\* (GroupCache, get_group_info).
THEOREM OwnChangesAreSeen == Spec => []OwnChangesSeen
  <1>1. AInv => OwnChangesSeen BY DEF AInv, GroupInv, OwnChangesSeen
  <1> QED BY <1>1, ApiInvariant, PTL

-----------------------------------------------------------------------------
(* What the callers send *)

\* The route of a tool or a command is that of an operation.
Reaches(t, op) == [method |-> t.method, path |-> t.path, op |-> op] \in Routes

\* No two routes take the same request.
LEMMA RouteOnce == \A r, s \in Routes : r.method = s.method /\ r.path = s.path => r.op = s.op
  BY DEF Routes, Get, Post

LEMMA RouteOp ==
  ASSUME NEW t, NEW op, Reaches(t, op)
  PROVE  Routed(t.method, t.path) /\ OpOf(t.method, t.path) = op
  BY RouteOnce DEF Reaches, Routed, OpOf

\* A tool has a route, is for reading exactly when its operation reads, and
\* sends the fields its handler needs.
LEMMA ToolReaches == ASSUME NEW t \in REGISTRY PROVE \E op : Reaches(t, op)
  <1>1. \E op \in {"status", "groups", "group_info", "history", "search", "fetch_status", "send", "reply",
                   "react", "edit", "media", "fetch", "cancel_fetch", "location", "contact", "poll",
                   "status_text", "status_media", "purge", "message", "chat"} : Reaches(t, op)
    BY DEF REGISTRY, Read, Write, JidOnly, OfMessage, Tool, Reaches, Routes, Get, Post
  <1> QED BY <1>1

LEMMA ToolReads ==
  ASSUME NEW t \in REGISTRY, NEW op, Reaches(t, op)
  PROVE  Allowed(t, TRUE) <=> Effect(op, [sync |-> TRUE]) = "none"
  <1>1. t.access = "Read" <=> op \in Reads
    BY DEF REGISTRY, Read, Write, JidOnly, OfMessage, Tool, Reaches, Routes, Get, Post, Reads
  <1>2. op \in Reads \cup Waits \cup Enqueues \cup Direct \cup Changes \cup Locals
    BY DEF Reaches, Routes, Get, Post, Reads, Waits, Statuses, Enqueues, Media, Notes, Direct, Changes, Locals
  <1>3. op \in Reads <=> Effect(op, [sync |-> TRUE]) = "none"
    BY <1>2 DEF Effect, Reads, Waits, Statuses, Enqueues, Media, Notes, Direct, Changes, Locals
  <1> QED BY <1>1, <1>3 DEF Allowed

LEMMA ToolFields ==
  ASSUME NEW t \in REGISTRY, NEW op, Reaches(t, op)
  PROVE  FieldsOf(op, t.path).needs \subseteq Mapped(t, t.required)
  <1>1. t.required \subseteq Mapped(t, t.required) \/ t.path = "/api/history-fetch"
    BY DEF Mapped
  <1>2. CASE t.path = "/api/history-fetch"
    <2>1. t.required \subseteq Mapped(t, t.required) \/ t.method = "GET" BY <1>2 DEF Mapped
    <2>2. t.method = "GET" \/ (t.method = "POST" /\ t.required = {"chat_jid"})
      BY <1>2 DEF REGISTRY, Read, Write, JidOnly, OfMessage, Tool
    <2>3. op = IF t.method = "GET" THEN "fetch_status" ELSE "fetch"
      BY <1>2, <2>2 DEF Reaches, Routes, Get, Post
    <2> QED BY <1>2, <2>2, <2>3 DEF FieldsOf, Fields, Mapped
  <1>3. CASE t.path # "/api/history-fetch"
    <2>1. t.required \subseteq Mapped(t, t.required) BY <1>1, <1>3
    <2>2. FieldsOf(op, t.path).needs \subseteq t.required
      BY <1>3, SMTT(40)
      DEF REGISTRY, Read, Write, JidOnly, OfMessage, Tool, Reaches, Routes, Get, Post, FieldsOf, Fields, GroupFields
    <2> QED BY <2>1, <2>2
  <1> QED BY <1>2, <1>3

\* A command sends what its handler needs, and nothing that it ignores.
Served(k, op) ==
  /\ FieldsOf(op, k.path).needs \subseteq k.always
  /\ k.always \cup k.given \subseteq FieldsOf(op, k.path).needs \cup FieldsOf(op, k.path).may

\* The fields that some commands always send and their handler may go without.
LEMMA OptionalFields ==
  ASSUME NEW k, NEW op, Reaches(k, op)
  PROVE  /\ k.path \in {"/api/reply"} => "sender" \in FieldsOf(op, k.path).may
         /\ k.path \in {"/api/react", "/api/unreact"} => "from_me" \in FieldsOf(op, k.path).may
         /\ k.path \in {"/api/image", "/api/video", "/api/audio", "/api/doc", "/api/sticker",
                "/api/view-once-image", "/api/view-once-video"} => "path" \in FieldsOf(op, k.path).may
         /\ k.path \in {"/api/history"} => "limit" \in FieldsOf(op, k.path).may
         /\ k.path \in {"/api/history"} => "jid" \in FieldsOf(op, k.path).may
         /\ k.path \in {"/api/status-image", "/api/status-video"} => "mime" \in FieldsOf(op, k.path).may
         /\ k.path \in {"/api/qr"} => "format" \in FieldsOf(op, k.path).may
  <1>1. ASSUME k.path \in {"/api/reply"} PROVE "sender" \in FieldsOf(op, k.path).may
    <2>1. op \in {"reply"} BY <1>1 DEF Reaches, Routes, Get, Post
    <2> QED BY <1>1, <2>1 DEF FieldsOf, Fields
  <1>2. ASSUME k.path \in {"/api/react", "/api/unreact"} PROVE "from_me" \in FieldsOf(op, k.path).may
    <2>1. op \in {"react", "unreact"} BY <1>2 DEF Reaches, Routes, Get, Post
    <2> QED BY <1>2, <2>1 DEF FieldsOf, Fields
  <1>3. ASSUME k.path \in {"/api/image", "/api/video", "/api/audio", "/api/doc", "/api/sticker",
         "/api/view-once-image", "/api/view-once-video"} PROVE "path" \in FieldsOf(op, k.path).may
    <2>1. op \in {"media", "sticker"} BY <1>3 DEF Reaches, Routes, Get, Post
    <2> QED BY <1>3, <2>1 DEF FieldsOf, Fields
  <1>4. ASSUME k.path \in {"/api/history"} PROVE "limit" \in FieldsOf(op, k.path).may
    <2>1. op \in {"history"} BY <1>4 DEF Reaches, Routes, Get, Post
    <2> QED BY <1>4, <2>1 DEF FieldsOf, Fields
  <1>5. ASSUME k.path \in {"/api/history"} PROVE "jid" \in FieldsOf(op, k.path).may
    <2>1. op \in {"history"} BY <1>5 DEF Reaches, Routes, Get, Post
    <2> QED BY <1>5, <2>1 DEF FieldsOf, Fields
  <1>6. ASSUME k.path \in {"/api/status-image", "/api/status-video"} PROVE "mime" \in FieldsOf(op, k.path).may
    <2>1. op \in {"status_media"} BY <1>6 DEF Reaches, Routes, Get, Post
    <2> QED BY <1>6, <2>1 DEF FieldsOf, Fields
  <1>7. ASSUME k.path \in {"/api/qr"} PROVE "format" \in FieldsOf(op, k.path).may
    <2>1. op \in {"qr"} BY <1>7 DEF Reaches, Routes, Get, Post
    <2> QED BY <1>7, <2>1 DEF FieldsOf, Fields
  <1> QED BY <1>1, <1>2, <1>3, <1>4, <1>5, <1>6, <1>7

\* One group of commands after the other.
LEMMA StatusSent ==
  ASSUME NEW k \in StatusCommands, NEW op, Reaches(k, op)
  PROVE  Served(k, op)
  <1>1. FieldsOf(op, k.path).needs \subseteq k.always
    BY DEF StatusCommands, Asks, Posts, Command, Reaches, Routes, Get, Post, FieldsOf, Fields, GroupFields
  <1>2. k.always \ {"format"} \subseteq FieldsOf(op, k.path).needs
    BY DEF StatusCommands, Asks, Posts, Command, Reaches, Routes, Get, Post, FieldsOf, Fields, GroupFields
  <1>3. k.given \subseteq FieldsOf(op, k.path).may
    BY DEF StatusCommands, Asks, Posts, Command, Reaches, Routes, Get, Post, FieldsOf, Fields, GroupFields
  <1>4. "format" \in k.always => k.path \in {"/api/qr"}
    BY DEF StatusCommands, Asks, Posts, Command
  <1> QED BY <1>1, <1>2, <1>3, <1>4, OptionalFields DEF Served

LEMMA TextSent ==
  ASSUME NEW k \in TextCommands, NEW op, Reaches(k, op)
  PROVE  Served(k, op)
  <1>1. FieldsOf(op, k.path).needs \subseteq k.always
    BY DEF TextCommands, ReactTarget, Asks, Posts, Command, Reaches, Routes, Get, Post, FieldsOf, Fields,
         GroupFields
  <1>2. k.always \ {"sender", "from_me"} \subseteq FieldsOf(op, k.path).needs
    BY DEF TextCommands, ReactTarget, Asks, Posts, Command, Reaches, Routes, Get, Post, FieldsOf, Fields,
         GroupFields
  <1>3. k.given \subseteq FieldsOf(op, k.path).may
    BY DEF TextCommands, ReactTarget, Asks, Posts, Command, Reaches, Routes, Get, Post, FieldsOf, Fields,
         GroupFields
  <1>4. "sender" \in k.always => k.path \in {"/api/reply"}
    BY DEF TextCommands, ReactTarget, Asks, Posts, Command
  <1>5. "from_me" \in k.always => k.path \in {"/api/react", "/api/unreact"}
    BY DEF TextCommands, ReactTarget, Asks, Posts, Command
  <1> QED BY <1>1, <1>2, <1>3, <1>4, <1>5, OptionalFields DEF Served

LEMMA MediaSent ==
  ASSUME NEW k \in MediaCommands, NEW op, Reaches(k, op)
  PROVE  Served(k, op)
  <1>1. FieldsOf(op, k.path).needs \subseteq k.always
    BY SMTT(40)
    DEF MediaCommands, Asks, Posts, Command, Reaches, Routes, Get, Post, FieldsOf, Fields, GroupFields
  <1>2. k.always \ {"path"} \subseteq FieldsOf(op, k.path).needs
    BY SMTT(40)
    DEF MediaCommands, Asks, Posts, Command, Reaches, Routes, Get, Post, FieldsOf, Fields, GroupFields
  <1>3. k.given \subseteq FieldsOf(op, k.path).may
    BY SMTT(40)
    DEF MediaCommands, Asks, Posts, Command, Reaches, Routes, Get, Post, FieldsOf, Fields, GroupFields
  <1>4. "path" \in k.always => k.path \in {"/api/image", "/api/video", "/api/audio", "/api/doc",
         "/api/sticker", "/api/view-once-image", "/api/view-once-video"}
    BY DEF MediaCommands, Asks, Posts, Command
  <1> QED BY <1>1, <1>2, <1>3, <1>4, OptionalFields DEF Served

LEMMA ForwardSent ==
  ASSUME NEW k \in ForwardCommands, NEW op, Reaches(k, op)
  PROVE  Served(k, op)
  <1>1. FieldsOf(op, k.path).needs \subseteq k.always
    BY DEF ForwardCommands, Asks, Posts, Command, Reaches, Routes, Get, Post, FieldsOf, Fields, GroupFields
  <1>2. k.always \ {"path"} \subseteq FieldsOf(op, k.path).needs
    BY DEF ForwardCommands, Asks, Posts, Command, Reaches, Routes, Get, Post, FieldsOf, Fields, GroupFields
  <1>3. k.given \subseteq FieldsOf(op, k.path).may
    BY DEF ForwardCommands, Asks, Posts, Command, Reaches, Routes, Get, Post, FieldsOf, Fields, GroupFields
  <1>4. "path" \in k.always => k.path \in {"/api/image", "/api/video", "/api/audio", "/api/doc",
         "/api/sticker", "/api/view-once-image", "/api/view-once-video"}
    BY DEF ForwardCommands, Asks, Posts, Command
  <1> QED BY <1>1, <1>2, <1>3, <1>4, OptionalFields DEF Served

LEMMA TypingSent ==
  ASSUME NEW k \in TypingCommands, NEW op, Reaches(k, op)
  PROVE  Served(k, op)
  <1>1. FieldsOf(op, k.path).needs \subseteq k.always
    BY DEF TypingCommands, Chat, Asks, Posts, Command, Reaches, Routes, Get, Post, FieldsOf, Fields, GroupFields
  <1>2. k.always \ {} \subseteq FieldsOf(op, k.path).needs
    BY DEF TypingCommands, Chat, Asks, Posts, Command, Reaches, Routes, Get, Post, FieldsOf, Fields, GroupFields
  <1>3. k.given \subseteq FieldsOf(op, k.path).may
    BY DEF TypingCommands, Chat, Asks, Posts, Command, Reaches, Routes, Get, Post, FieldsOf, Fields, GroupFields
  <1> QED BY <1>1, <1>2, <1>3 DEF Served

LEMMA ChatSent ==
  ASSUME NEW k \in ChatCommands, NEW op, Reaches(k, op)
  PROVE  Served(k, op)
  <1>1. FieldsOf(op, k.path).needs \subseteq k.always
    BY SMTT(40)
    DEF ChatCommands, Chat, MessageAct, Asks, Posts, Command, Reaches, Routes, Get, Post, FieldsOf, Fields,
         GroupFields
  <1>2. k.always \ {} \subseteq FieldsOf(op, k.path).needs
    BY SMTT(40)
    DEF ChatCommands, Chat, MessageAct, Asks, Posts, Command, Reaches, Routes, Get, Post, FieldsOf, Fields,
         GroupFields
  <1>3. k.given \subseteq FieldsOf(op, k.path).may
    BY SMTT(40)
    DEF ChatCommands, Chat, MessageAct, Asks, Posts, Command, Reaches, Routes, Get, Post, FieldsOf, Fields,
         GroupFields
  <1> QED BY <1>1, <1>2, <1>3 DEF Served

LEMMA GroupSent ==
  ASSUME NEW k \in GroupCommands, NEW op, Reaches(k, op)
  PROVE  Served(k, op)
  <1>1. FieldsOf(op, k.path).needs \subseteq k.always
    BY DEF GroupCommands, OfMembers, Asks, Posts, Command, Reaches, Routes, Get, Post, FieldsOf, Fields,
         GroupFields
  <1>2. k.always \ {} \subseteq FieldsOf(op, k.path).needs
    BY DEF GroupCommands, OfMembers, Asks, Posts, Command, Reaches, Routes, Get, Post, FieldsOf, Fields,
         GroupFields
  <1>3. k.given \subseteq FieldsOf(op, k.path).may
    BY DEF GroupCommands, OfMembers, Asks, Posts, Command, Reaches, Routes, Get, Post, FieldsOf, Fields,
         GroupFields
  <1> QED BY <1>1, <1>2, <1>3 DEF Served

LEMMA HistorySent ==
  ASSUME NEW k \in HistoryCommands, NEW op, Reaches(k, op)
  PROVE  Served(k, op)
  <1>1. FieldsOf(op, k.path).needs \subseteq k.always
    BY SMTT(40)
    DEF HistoryCommands, Asks, Posts, Command, Reaches, Routes, Get, Post, FieldsOf, Fields, GroupFields
  <1>2. k.always \ {"jid", "limit"} \subseteq FieldsOf(op, k.path).needs
    BY SMTT(40)
    DEF HistoryCommands, Asks, Posts, Command, Reaches, Routes, Get, Post, FieldsOf, Fields, GroupFields
  <1>3. k.given \subseteq FieldsOf(op, k.path).may
    BY SMTT(40)
    DEF HistoryCommands, Asks, Posts, Command, Reaches, Routes, Get, Post, FieldsOf, Fields, GroupFields
  <1>4. "jid" \in k.always => k.path \in {"/api/history"}
    BY SMTT(40)
    DEF HistoryCommands, Asks, Posts, Command
  <1>5. "limit" \in k.always => k.path \in {"/api/history"}
    BY SMTT(40)
    DEF HistoryCommands, Asks, Posts, Command
  <1> QED BY <1>1, <1>2, <1>3, <1>4, <1>5, OptionalFields DEF Served

LEMMA StorySent ==
  ASSUME NEW k \in StoryCommands, NEW op, Reaches(k, op)
  PROVE  Served(k, op)
  <1>1. FieldsOf(op, k.path).needs \subseteq k.always
    BY DEF StoryCommands, Asks, Posts, Command, Reaches, Routes, Get, Post, FieldsOf, Fields, GroupFields
  <1>2. k.always \ {"mime"} \subseteq FieldsOf(op, k.path).needs
    BY DEF StoryCommands, Asks, Posts, Command, Reaches, Routes, Get, Post, FieldsOf, Fields, GroupFields
  <1>3. k.given \subseteq FieldsOf(op, k.path).may
    BY DEF StoryCommands, Asks, Posts, Command, Reaches, Routes, Get, Post, FieldsOf, Fields, GroupFields
  <1>4. "mime" \in k.always => k.path \in {"/api/status-image", "/api/status-video"}
    BY DEF StoryCommands, Asks, Posts, Command
  <1> QED BY <1>1, <1>2, <1>3, <1>4, OptionalFields DEF Served

LEMMA CommandSent == ASSUME NEW k \in COMMANDS, NEW op, Reaches(k, op) PROVE Served(k, op)
  BY StatusSent, TextSent, MediaSent, ForwardSent, TypingSent, ChatSent, GroupSent, HistorySent,
       StorySent DEF COMMANDS

\* Every command has a route.
LEMMA CommandReaches == ASSUME NEW k \in COMMANDS PROVE \E op : Reaches(k, op)
  <1>1. ASSUME k \in StatusCommands PROVE \E op \in {"status", "qr", "groups", "group_info"} : Reaches(k, op)
    BY <1>1 DEF StatusCommands, Asks, Posts, Command, Reaches, Routes, Get, Post
  <1>2. ASSUME k \in TextCommands PROVE \E op \in {"send", "reply", "edit", "react", "unreact"} : Reaches(k, op)
    BY <1>2 DEF TextCommands, ReactTarget, Asks, Posts, Command, Reaches, Routes, Get, Post
  <1>3. ASSUME k \in MediaCommands PROVE \E op \in {"media", "sticker", "location", "contact"} : Reaches(k, op)
    BY <1>3 DEF MediaCommands, Asks, Posts, Command, Reaches, Routes, Get, Post
  <1>4. ASSUME k \in ForwardCommands PROVE \E op \in {"forward", "poll", "media"} : Reaches(k, op)
    BY <1>4 DEF ForwardCommands, Asks, Posts, Command, Reaches, Routes, Get, Post
  <1>5. ASSUME k \in TypingCommands PROVE \E op \in {"chat"} : Reaches(k, op)
    BY <1>5 DEF TypingCommands, Chat, Asks, Posts, Command, Reaches, Routes, Get, Post
  <1>6. ASSUME k \in ChatCommands PROVE \E op \in {"chat", "message"} : Reaches(k, op)
    BY <1>6 DEF ChatCommands, Chat, MessageAct, Asks, Posts, Command, Reaches, Routes, Get, Post
  <1>7. ASSUME k \in GroupCommands
        PROVE \E op \in {"create_group", "change_group", "invite_link"} : Reaches(k, op)
    BY <1>7 DEF GroupCommands, OfMembers, Asks, Posts, Command, Reaches, Routes, Get, Post
  <1>8. ASSUME k \in HistoryCommands
        PROVE \E op \in {"history", "search", "fetch", "fetch_status", "cancel_fetch", "purge"} : Reaches(k, op)
    BY <1>8 DEF HistoryCommands, Asks, Posts, Command, Reaches, Routes, Get, Post
  <1>9. ASSUME k \in StoryCommands PROVE \E op \in {"edit", "status_text", "status_media"} : Reaches(k, op)
    BY <1>9 DEF StoryCommands, Asks, Posts, Command, Reaches, Routes, Get, Post
  <1> QED BY <1>1, <1>2, <1>3, <1>4, <1>5, <1>6, <1>7, <1>8, <1>9 DEF COMMANDS

\* Every tool and every command reaches a handler that gets the fields it needs, no command
\* sends a field its handler ignores, and the tools of a read-only listener are those whose
\* handler changes nothing (REGISTRY, cli_main, handle_request).
THEOREM CallersAreServed == Spec => []CallersServed
  <1>1. CallersServed
    <2>1. ASSUME NEW t \in REGISTRY
          PROVE  /\ Routed(t.method, t.path)
                 /\ Allowed(t, TRUE) <=> Effect(OpOf(t.method, t.path), [sync |-> TRUE]) = "none"
                 /\ HandlerOf(t).needs \subseteq Mapped(t, t.required)
      <3>1. PICK op : Reaches(t, op) BY ToolReaches
      <3> QED BY <3>1, RouteOp, ToolReads, ToolFields DEF HandlerOf
    <2>2. ASSUME NEW k \in COMMANDS
          PROVE  /\ Routed(k.method, k.path)
                 /\ HandlerOf(k).needs \subseteq k.always
                 /\ k.always \cup k.given \subseteq HandlerOf(k).needs \cup HandlerOf(k).may
      <3>1. PICK op : Reaches(k, op) BY CommandReaches
      <3> QED BY <3>1, RouteOp, CommandSent DEF HandlerOf, Served
    <2> QED BY <2>1, <2>2 DEF CallersServed
  <1> QED BY <1>1, PTL
=============================================================================
