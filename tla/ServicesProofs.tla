--------------------------- MODULE ServicesProofs ----------------------------
(***************************************************************************)
(* Proofs about an MCP session, for any number of lines, and about Git     *)
(* operations, for any number of operations, projects and repositories.    *)
(***************************************************************************)
EXTENDS McpSession, GitOperation, SequenceTheorems, TLAPS

-----------------------------------------------------------------------------
(* The MCP session.  Lines go to the worker in the order in which they were  *)
(* read, so nothing has been answered or changed for a line that waits, and  *)
(* the flag of a request with an id is registered from the moment it is read *)
(* until the worker is done with it: whoever cancels what is registered      *)
(* reaches the request in the worker's hands.                                *)

McpPlaces == {"idle", "taken", "handling", "filling", "scanning", "answered", "retiring", "ended"}
McpLine == [tool : Silent \cup Plain \cup Tools, cancel : BOOLEAN]
McpAnswers == {"none", "ok", "error", "cancelled", "not_found"}

McpTypeOK ==
  /\ mcpRequest \in Seq(McpLine) /\ Len(mcpRequest) <= MaxRequests
  /\ mcpQueue \in Seq(Nat)
  /\ mcpWorker \in [at : McpPlaces, request : Nat, read : Nat]
  /\ mcpReader \in {"reading", "sending", "disconnecting", "cancelling", "joining"}
  /\ mcpAnswer \in [Numbers -> McpAnswers]
  /\ mcpStore \in [known : BOOLEAN, omitted : Nat, meant : Nat]

\* The worker has a line, or the reader has one that it will send.
InHand == mcpWorker.at \notin {"idle", "ended"}
Sending == mcpReader = "sending"

\* Lines wait in the order in which they were read.
LinesInOrder ==
  /\ \A i, j \in 1..Len(mcpQueue) : i < j => mcpQueue[i] < mcpQueue[j]
  /\ \A i \in 1..Len(mcpQueue) :
       /\ mcpQueue[i] \in 1..Len(mcpRequest)
       /\ Sending => mcpQueue[i] < Len(mcpRequest)
       /\ InHand => Current < mcpQueue[i]
  /\ InHand => Current \in 1..Len(mcpRequest)
  /\ InHand /\ Sending => Current < Len(mcpRequest)
  /\ Sending => Len(mcpRequest) >= 1

\* Nothing has been answered or changed for a line before it is handled.
Untouched(n) == mcpAnswer[n] = "none" /\ n \notin mcpChanged

NothingDoneEarly ==
  /\ \A n \in Numbers : n > Len(mcpRequest) => Untouched(n)
  /\ \A i \in 1..Len(mcpQueue) : Untouched(mcpQueue[i])
  /\ Sending => Untouched(Len(mcpRequest))
  /\ mcpWorker.at \in {"taken", "handling", "filling"} => Untouched(Current)
  /\ mcpWorker.at = "filling" => CurrentTool = "update_task"
  /\ mcpWorker.at = "scanning" => CurrentTool = "scan_root"

\* The flag of a request is registered until the worker is done with it.
Registered(n) == mcpRequest[n].tool \in Identified => n \in mcpActive

RequestsAreRegistered ==
  /\ \A i \in 1..Len(mcpQueue) : Registered(mcpQueue[i])
  /\ Sending => Registered(Len(mcpRequest))
  /\ InHand => Registered(Current)

McpInv ==
  /\ McpTypeOK
  /\ LinesInOrder
  /\ NothingDoneEarly
  /\ RequestsAreRegistered
  /\ DisconnectCancelsActiveWork
  /\ AnswersTellWhatHappened

\* The adapter starts with nothing queued, active or answered.
LEMMA McpInitially == McpInit => McpInv
  <1> SUFFICES ASSUME McpInit PROVE McpInv
    OBVIOUS
  <1>1. /\ mcpRequest = << >> /\ mcpQueue = << >> /\ mcpReader = "reading" /\ mcpWorker = Resting
        /\ mcpAnswer = [n \in Numbers |-> "none"]
        /\ mcpStore = [known |-> TRUE, omitted |-> 0, meant |-> 0]
        /\ mcpChanged = {}
    BY DEF McpInit
  <1>2. ~ InHand /\ ~ Sending /\ Len(mcpQueue) = 0 /\ Len(mcpRequest) = 0 /\ DOMAIN mcpRequest = {}
    BY <1>1 DEF InHand, Sending, Resting
  <1>3. McpTypeOK
    <2>1. mcpRequest \in Seq(McpLine) /\ mcpQueue \in Seq(Nat)
      BY <1>1
    <2>2. mcpWorker \in [at : McpPlaces, request : Nat, read : Nat]
      BY <1>1 DEF Resting, McpPlaces, NoRequest
    <2> QED BY <1>1, <1>2, <2>1, <2>2, McpAssumption DEF McpTypeOK, McpAnswers
  <1>4. LinesInOrder
    BY <1>2 DEF LinesInOrder
  <1>5. NothingDoneEarly
    BY <1>1, <1>2 DEF NothingDoneEarly, Untouched, Resting
  <1>6. RequestsAreRegistered
    BY <1>2 DEF RequestsAreRegistered
  <1>7. DisconnectCancelsActiveWork /\ AnswersTellWhatHappened
    BY <1>1, <1>2 DEF DisconnectCancelsActiveWork, AnswersTellWhatHappened, Resting
  <1> QED BY <1>3, <1>4, <1>5, <1>6, <1>7 DEF McpInv

\* What the invariant says about lengths and members.
LEMMA McpShape ==
  ASSUME McpInv
  PROVE  /\ Len(mcpRequest) \in Nat /\ Len(mcpRequest) <= MaxRequests
         /\ DOMAIN mcpRequest = 1..Len(mcpRequest)
         /\ \A n \in 1..Len(mcpRequest) : mcpRequest[n] \in McpLine /\ n \in Numbers /\ n \in Nat
         /\ Len(mcpQueue) \in Nat
         /\ \A i \in 1..Len(mcpQueue) : mcpQueue[i] \in Nat
         /\ mcpWorker \in [at : McpPlaces, request : Nat, read : Nat]
         /\ InHand => Current \in 1..Len(mcpRequest) /\ Current \in Numbers
         /\ McpTypeOK /\ LinesInOrder /\ NothingDoneEarly
         /\ RequestsAreRegistered /\ DisconnectCancelsActiveWork /\ AnswersTellWhatHappened
  <1>1. McpTypeOK /\ LinesInOrder /\ NothingDoneEarly
         /\ RequestsAreRegistered /\ DisconnectCancelsActiveWork /\ AnswersTellWhatHappened
    BY DEF McpInv
  <1>2. /\ mcpRequest \in Seq(McpLine) /\ Len(mcpRequest) <= MaxRequests
        /\ mcpQueue \in Seq(Nat)
        /\ mcpWorker \in [at : McpPlaces, request : Nat, read : Nat]
    BY <1>1 DEF McpTypeOK
  <1>3. /\ Len(mcpRequest) \in Nat /\ DOMAIN mcpRequest = 1..Len(mcpRequest)
        /\ \A n \in 1..Len(mcpRequest) : mcpRequest[n] \in McpLine
        /\ Len(mcpQueue) \in Nat /\ \A i \in 1..Len(mcpQueue) : mcpQueue[i] \in Nat
    BY <1>2, LenProperties, ElementOfSeq
  <1>4. \A n \in 1..Len(mcpRequest) : n \in Numbers /\ n \in Nat
    BY <1>2, <1>3, McpAssumption DEF Numbers
  <1>5. InHand => Current \in 1..Len(mcpRequest)
    BY <1>1 DEF LinesInOrder
  <1> QED BY <1>1, <1>2, <1>3, <1>4, <1>5

\* The reader takes a line in.
LEMMA ReadingKeepsMcp ==
  ASSUME McpInv, NEW line \in McpLines, ReadLine(line)
  PROVE  McpInv'
  <1> DEFINE entry == [tool |-> line, cancel |-> FALSE]
  <1>a. PICK new \in Nat : new = Len(mcpRequest) + 1
    BY McpShape
  <1>0. /\ mcpRequest' = Append(mcpRequest, entry) /\ mcpReader' = "sending" /\ mcpReader = "reading"
        /\ Len(mcpRequest) < MaxRequests
        /\ mcpActive' = IF line \in Identified THEN mcpActive \cup {new} ELSE mcpActive
        /\ UNCHANGED <<mcpQueue, mcpWorker, mcpWriter, mcpStopped, mcpAnswer, mcpStore, mcpChanged, mcpAudited>>
    BY <1>a DEF ReadLine, Ending, Data
  <1>1. entry \in McpLine /\ entry.tool = line
    BY McpAssumption DEF McpLine
  <1>2. mcpRequest \in Seq(McpLine)
    BY DEF McpInv, McpTypeOK
  <1> HIDE DEF entry
  <1>3. /\ mcpRequest' \in Seq(McpLine) /\ Len(mcpRequest') = new /\ DOMAIN mcpRequest' = 1..new
        /\ mcpRequest'[new] = entry
        /\ \A n \in 1..Len(mcpRequest) : mcpRequest'[n] = mcpRequest[n]
    <2>1. /\ mcpRequest' \in Seq(McpLine) /\ Len(mcpRequest') = new
          /\ mcpRequest'[new] = entry
          /\ \A n \in 1..Len(mcpRequest) : mcpRequest'[n] = mcpRequest[n]
      BY <1>a, <1>0, <1>1, <1>2, AppendProperties
    <2> QED BY <2>1, LenProperties
  <1>4. new \in Numbers /\ new \in Nat /\ ~ Sending /\ Sending' /\ (InHand' <=> InHand) /\ Current' = Current
    BY <1>a, <1>0, McpShape, McpAssumption DEF Numbers, Sending, InHand, Current
  <1>5. McpTypeOK'
    BY <1>0, <1>3, <1>4, McpShape DEF McpTypeOK, Numbers
  <1>6. LinesInOrder'
    BY <1>a, <1>0, <1>3, <1>4, McpShape DEF LinesInOrder
  <1>7. NothingDoneEarly'
    <2>1. Untouched(new)
      BY <1>a, <1>4, McpShape DEF NothingDoneEarly
    <2>2. \A n \in Numbers : n > new => n > Len(mcpRequest)
      BY <1>a, McpShape, McpAssumption DEF Numbers
    <2>3. mcpWorker.at \in {"filling", "scanning"} => CurrentTool' = CurrentTool
      BY <1>0, <1>3, <1>4, McpShape DEF CurrentTool, InHand
    <2> QED BY <1>0, <1>3, <1>4, <2>1, <2>2, <2>3, McpShape DEF NothingDoneEarly, Untouched
  <1>8. RequestsAreRegistered'
    <2>1. \A n \in 1..Len(mcpRequest) : Registered(n) => Registered(n)'
      BY <1>0, <1>3 DEF Registered
    <2>2. Registered(new)'
      BY <1>0, <1>1, <1>3 DEF Registered
    <2>3. \A i \in 1..Len(mcpQueue) : Registered(mcpQueue[i])'
      BY <1>0, <2>1, McpShape DEF RequestsAreRegistered, LinesInOrder
    <2>4. InHand => Registered(Current)'
      BY <1>0, <1>4, <2>1, McpShape DEF RequestsAreRegistered, LinesInOrder
    <2> QED BY <1>0, <1>3, <1>4, <2>2, <2>3, <2>4 DEF RequestsAreRegistered
  <1>9. DisconnectCancelsActiveWork'
    <2>1. InHand => mcpRequest'[Current] = mcpRequest[Current]
      BY <1>3, McpShape
    <2> QED BY <1>0, <1>4, <2>1, McpShape DEF DisconnectCancelsActiveWork, InHand, CurrentTool
  <1>10. AnswersTellWhatHappened'
    <2>1. Untouched(new)
      BY <1>a, <1>4, McpShape DEF NothingDoneEarly
    <2>2. \A n \in 1..new : n = new \/ n \in 1..Len(mcpRequest)
      BY <1>a, McpShape
    <2> QED BY <1>0, <1>3, <2>1, <2>2, McpShape DEF AnswersTellWhatHappened, Untouched
  <1> QED BY <1>5, <1>6, <1>7, <1>8, <1>9, <1>10 DEF McpInv

\* Nothing changes but flags, the threads that stop, and the desktop's data.
LEMMA FlagsKeepMcp ==
  ASSUME McpInv,
         mcpRequest' \in Seq(McpLine), Len(mcpRequest') = Len(mcpRequest),
         \A n \in 1..Len(mcpRequest) : mcpRequest'[n].tool = mcpRequest[n].tool,
         UNCHANGED <<mcpActive, mcpQueue, mcpWorker, mcpAnswer, mcpChanged, mcpAudited>>,
         mcpStore' \in [known : BOOLEAN, omitted : Nat, meant : Nat],
         mcpReader' \in {"reading", "sending", "disconnecting", "cancelling", "joining"},
         Sending' => Sending,
         DisconnectCancelsActiveWork'
  PROVE  McpInv'
  <1>0. (InHand' <=> InHand) /\ Current' = Current
    BY DEF InHand, Current
  <1>1. McpTypeOK'
    BY McpShape DEF McpTypeOK
  <1>2. LinesInOrder'
    BY <1>0, McpShape DEF LinesInOrder
  <1>3. NothingDoneEarly'
    <2>1. InHand => CurrentTool' = CurrentTool
      BY <1>0, McpShape DEF CurrentTool
    <2> QED BY <1>0, <2>1, McpShape DEF NothingDoneEarly, Untouched, InHand
  <1>4. RequestsAreRegistered'
    <2>1. \A n \in 1..Len(mcpRequest) : Registered(n) => Registered(n)'
      BY DEF Registered
    <2>2. \A i \in 1..Len(mcpQueue) : Registered(mcpQueue[i])'
      BY <2>1, McpShape DEF RequestsAreRegistered, LinesInOrder
    <2>3. InHand => Registered(Current)'
      BY <1>0, <2>1, McpShape DEF RequestsAreRegistered
    <2>4. Sending => Len(mcpRequest) \in 1..Len(mcpRequest)
      BY McpShape DEF LinesInOrder
    <2> QED BY <1>0, <2>1, <2>2, <2>3, <2>4, McpShape DEF RequestsAreRegistered
  <1>5. AnswersTellWhatHappened'
    <2>1. DOMAIN mcpRequest' = 1..Len(mcpRequest)
      BY LenProperties
    <2> QED BY <2>1, McpShape DEF AnswersTellWhatHappened
  <1> QED BY <1>1, <1>2, <1>3, <1>4, <1>5 DEF McpInv

\* Requests are cancelled one by one, or all that are registered.
LEMMA CancellingKeepsLines ==
  ASSUME McpInv, CancelRegistered \/ \E n \in Numbers : n \in mcpActive /\ mcpRequest' = [mcpRequest EXCEPT ![n].cancel = TRUE]
  PROVE  /\ mcpRequest' \in Seq(McpLine) /\ Len(mcpRequest') = Len(mcpRequest)
         /\ \A n \in 1..Len(mcpRequest) :
              /\ mcpRequest'[n].tool = mcpRequest[n].tool
              /\ mcpRequest[n].cancel => mcpRequest'[n].cancel
              /\ CancelRegistered /\ n \in mcpActive => mcpRequest'[n].cancel
  <1> DEFINE len == Len(mcpRequest)
  <1>1. /\ len \in Nat /\ DOMAIN mcpRequest = 1..len /\ mcpRequest \in [1..len -> McpLine]
    BY McpShape, LenProperties DEF McpTypeOK
  <1> HIDE DEF len
  <1>2. CASE CancelRegistered
    <2>1. mcpRequest' = [n \in 1..len |->
             IF n \in mcpActive THEN [mcpRequest[n] EXCEPT !.cancel = TRUE] ELSE mcpRequest[n]]
      BY <1>1, <1>2 DEF CancelRegistered
    <2>2. \A n \in 1..len : mcpRequest[n] \in McpLine /\ [mcpRequest[n] EXCEPT !.cancel = TRUE] \in McpLine
      BY <1>1 DEF McpLine
    <2>3. mcpRequest' \in [1..len -> McpLine]
      BY <2>1, <2>2
    <2>4. mcpRequest' \in Seq(McpLine) /\ Len(mcpRequest') = len
      BY <1>1, <2>3
    <2>5. \A n \in 1..len :
              /\ mcpRequest'[n].tool = mcpRequest[n].tool
              /\ mcpRequest[n].cancel => mcpRequest'[n].cancel
              /\ n \in mcpActive => mcpRequest'[n].cancel
      BY <2>1, <2>2 DEF McpLine
    <2> QED BY <2>4, <2>5 DEF len
  <1>3. CASE ~ CancelRegistered
    <2>1. PICK m \in Numbers : mcpRequest' = [mcpRequest EXCEPT ![m].cancel = TRUE]
      BY <1>3
    <2>2. \A n \in 1..len : mcpRequest[n] \in McpLine /\ [mcpRequest[n] EXCEPT !.cancel = TRUE] \in McpLine
      BY <1>1 DEF McpLine
    <2>3. mcpRequest' \in [1..len -> McpLine]
      BY <1>1, <2>1, <2>2
    <2>4. mcpRequest' \in Seq(McpLine) /\ Len(mcpRequest') = len
      BY <1>1, <2>3
    <2>5. \A n \in 1..len :
              /\ mcpRequest'[n].tool = mcpRequest[n].tool
              /\ mcpRequest[n].cancel => mcpRequest'[n].cancel
      BY <1>1, <2>1 DEF McpLine
    <2> QED BY <1>3, <2>4, <2>5 DEF len
  <1> QED BY <1>2, <1>3

\* The threads that stop the session, and the desktop.
LEMMA StoppingKeepsMcp ==
  ASSUME McpInv,
         \/ \E n \in Numbers : ReadCancelled(n)
         \/ ReadEnd \/ ReaderDisconnect \/ ReaderCancel \/ WriterDisconnect \/ WriterCancel
         \/ WriteResponse \/ WriterEnds \/ JoinAll \/ DeadlineExpires
         \/ DesktopRemove \/ DesktopEdit \/ UNCHANGED mcpVars
  PROVE  McpInv'
  <1>0. UNCHANGED <<mcpActive, mcpQueue, mcpWorker, mcpAnswer, mcpChanged, mcpAudited>>
    BY DEF ReadCancelled, ReadEnd, ReaderDisconnect, ReaderCancel, WriterDisconnect, WriterCancel,
           WriteResponse, WriterEnds, JoinAll, DeadlineExpires, DesktopRemove, DesktopEdit,
           Input, Threads, Ending, Data, mcpVars
  <1>1. mcpStore' \in [known : BOOLEAN, omitted : Nat, meant : Nat]
    <2>1. mcpStore \in [known : BOOLEAN, omitted : Nat, meant : Nat]
      BY McpShape DEF McpTypeOK
    <2>2. CASE DesktopRemove \/ DesktopEdit
      <3>1. [mcpStore EXCEPT !.known = FALSE] \in [known : BOOLEAN, omitted : Nat, meant : Nat]
        BY <2>1
      <3>2. mcpStore.meant + 1 \in Nat
        BY <2>1
      <3>3. [mcpStore EXCEPT !.meant = @ + 1, !.omitted = mcpStore.meant + 1]
               \in [known : BOOLEAN, omitted : Nat, meant : Nat]
        BY <2>1, <3>2
      <3> QED BY <2>2, <3>1, <3>3 DEF DesktopRemove, DesktopEdit
    <2>3. CASE ~ (DesktopRemove \/ DesktopEdit)
      BY <2>1, <2>3
         DEF ReadCancelled, ReadEnd, ReaderDisconnect, ReaderCancel, WriterDisconnect, WriterCancel,
             WriteResponse, WriterEnds, JoinAll, DeadlineExpires, Input, Threads, Ending, Data, mcpVars
    <2> QED BY <2>2, <2>3
  <1>2. /\ mcpReader' \in {"reading", "sending", "disconnecting", "cancelling", "joining"}
        /\ Sending' => Sending
    BY McpShape
       DEF ReadCancelled, ReadEnd, ReaderDisconnect, ReaderCancel, WriterDisconnect, WriterCancel,
           WriteResponse, WriterEnds, JoinAll, DeadlineExpires, DesktopRemove, DesktopEdit,
           Input, Threads, Ending, Data, mcpVars, Sending, McpTypeOK
  <1>3. /\ mcpRequest' \in Seq(McpLine) /\ Len(mcpRequest') = Len(mcpRequest)
        /\ \A n \in 1..Len(mcpRequest) : /\ mcpRequest'[n].tool = mcpRequest[n].tool
                                         /\ mcpRequest[n].cancel => mcpRequest'[n].cancel
    <2>1. CASE mcpRequest' = mcpRequest
      BY <2>1, McpShape DEF McpTypeOK
    <2>2. CASE CancelRegistered \/ \E n \in Numbers : n \in mcpActive /\ mcpRequest' = [mcpRequest EXCEPT ![n].cancel = TRUE]
      BY <2>2, CancellingKeepsLines
    <2> QED
      BY <2>1, <2>2
         DEF ReadCancelled, ReadEnd, ReaderDisconnect, ReaderCancel, WriterDisconnect, WriterCancel,
             WriteResponse, WriterEnds, JoinAll, DeadlineExpires, DesktopRemove, DesktopEdit,
             Input, Threads, Ending, Data, mcpVars
  <1>4. DisconnectCancelsActiveWork'
    <2> SUFFICES ASSUME mcpStopped', mcpReader' # "cancelling", mcpWriter' # "cancelling",
                        mcpWorker.at \in {"handling", "filling", "scanning"},
                        mcpRequest[Current].tool \in Identified
                 PROVE  mcpRequest'[Current].cancel
      <3>1. mcpWorker.at \in {"handling", "filling", "scanning"} => InHand
        BY DEF InHand
      <3> QED
        BY <1>0, <1>3, <3>1, McpShape DEF DisconnectCancelsActiveWork, CurrentTool, Current
    <2>1. InHand /\ Current \in 1..Len(mcpRequest) /\ Current \in mcpActive
      BY McpShape DEF InHand, RequestsAreRegistered, Registered
    <2>2. CASE ReaderCancel \/ WriterCancel
      BY <2>1, <2>2, CancellingKeepsLines DEF ReaderCancel, WriterCancel
    <2>3. CASE ~ (ReaderCancel \/ WriterCancel)
      <3>1. mcpStopped /\ mcpReader # "cancelling" /\ mcpWriter # "cancelling"
        BY <2>3
           DEF ReadCancelled, ReadEnd, ReaderDisconnect, WriterDisconnect, StopSession,
               WriteResponse, WriterEnds, JoinAll, DeadlineExpires, DesktopRemove, DesktopEdit,
               Input, Threads, Ending, Data, mcpVars
      <3>2. mcpRequest[Current].cancel
        BY <3>1, McpShape DEF DisconnectCancelsActiveWork, CurrentTool
      <3> QED BY <1>3, <2>1, <3>2
    <2> QED BY <2>2, <2>3
  <1> QED BY <1>0, <1>1, <1>2, <1>3, <1>4, FlagsKeepMcp

\* The reader sends a line, and the worker takes one.
LEMMA QueueingKeepsMcp ==
  ASSUME McpInv, SendWork \/ TakeWork \/ CheckStopped
  PROVE  McpInv'
  <1>0. UNCHANGED <<mcpRequest, mcpActive, mcpAnswer, mcpStore, mcpChanged, mcpAudited>>
    BY DEF SendWork, TakeWork, CheckStopped, Input, Ending, Data
  <1>1. CASE SendWork
    <2>0. UNCHANGED mcpWorker /\ Sending /\ ~ Sending' /\ (InHand' <=> InHand) /\ Current' = Current
          /\ UNCHANGED <<mcpStopped, mcpWriter>>
          /\ mcpReader' \in {"reading", "disconnecting"}
      BY <1>1 DEF SendWork, Sending, InHand, Current, Ending
    <2>1. CASE UNCHANGED mcpQueue
      <3>1. McpTypeOK' /\ LinesInOrder' /\ RequestsAreRegistered'
        BY <1>0, <2>0, <2>1, McpShape DEF McpTypeOK, LinesInOrder, RequestsAreRegistered, Registered
      <3>2. NothingDoneEarly'
        BY <1>0, <2>0, <2>1, McpShape DEF NothingDoneEarly, Untouched, CurrentTool
      <3>3. DisconnectCancelsActiveWork' /\ AnswersTellWhatHappened'
        BY <1>0, <1>1, <2>0, McpShape DEF DisconnectCancelsActiveWork, AnswersTellWhatHappened, CurrentTool, SendWork, Sending
      <3> QED BY <3>1, <3>2, <3>3 DEF McpInv
    <2>2. CASE mcpQueue' = Append(mcpQueue, Len(mcpRequest))
      <3> DEFINE len == Len(mcpQueue)
      <3>1. /\ mcpQueue' \in Seq(Nat) /\ Len(mcpQueue') = len + 1
            /\ mcpQueue'[len + 1] = Len(mcpRequest)
            /\ \A i \in 1..len : mcpQueue'[i] = mcpQueue[i]
        BY <2>2, McpShape, AppendProperties DEF McpTypeOK
      <3>2. len \in Nat /\ \A i \in 1..len+1 : i = len + 1 \/ i \in 1..len
        BY McpShape
      <3>3. McpTypeOK'
        BY <1>0, <2>0, <3>1, McpShape DEF McpTypeOK
      <3>4. LinesInOrder'
        <4>a. /\ \A i \in 1..len : /\ mcpQueue[i] \in 1..Len(mcpRequest)
                                   /\ mcpQueue[i] < Len(mcpRequest)
                                   /\ InHand => Current < mcpQueue[i]
              /\ \A i, j \in 1..len : i < j => mcpQueue[i] < mcpQueue[j]
              /\ Len(mcpRequest) \in 1..Len(mcpRequest)
              /\ InHand => Current < Len(mcpRequest)
          BY <2>0, McpShape DEF LinesInOrder
        <4>1. \A i \in 1..len+1 : /\ mcpQueue'[i] \in 1..Len(mcpRequest)
                                  /\ InHand => Current < mcpQueue'[i]
          BY <3>1, <3>2, <4>a
        <4>2. ASSUME NEW i \in 1..len+1, NEW j \in 1..len+1, i < j
              PROVE  mcpQueue'[i] < mcpQueue'[j]
          <5>1. i \in 1..len /\ (j = len + 1 \/ j \in 1..len)
            BY <3>2, <4>2
          <5> QED BY <3>1, <4>2, <4>a, <5>1
        <4> QED BY <1>0, <2>0, <3>1, <4>1, <4>2, McpShape DEF LinesInOrder
      <3>5. NothingDoneEarly'
        BY <1>0, <2>0, <3>1, <3>2, McpShape DEF NothingDoneEarly, Untouched, CurrentTool
      <3>6. RequestsAreRegistered'
        BY <1>0, <2>0, <3>1, <3>2, McpShape DEF RequestsAreRegistered, Registered
      <3>7. DisconnectCancelsActiveWork' /\ AnswersTellWhatHappened'
        BY <1>0, <1>1, <2>0, McpShape DEF DisconnectCancelsActiveWork, AnswersTellWhatHappened, CurrentTool, SendWork, Sending
      <3> QED BY <3>3, <3>4, <3>5, <3>6, <3>7 DEF McpInv
    <2> QED BY <1>1, <2>1, <2>2 DEF SendWork
  <1>2. CASE TakeWork
    <2>0. UNCHANGED <<mcpReader, mcpWriter, mcpStopped>> /\ (Sending' <=> Sending) /\ ~ InHand
      BY <1>2 DEF TakeWork, Sending, InHand, Ending
    <2>1. CASE mcpQueue = << >>
      <3>1. mcpWorker' = [Resting EXCEPT !.at = "ended"] /\ UNCHANGED mcpQueue
        BY <1>2, <2>1 DEF TakeWork
      <3>2. ~ InHand' /\ mcpWorker' \in [at : McpPlaces, request : Nat, read : Nat] /\ mcpWorker'.at = "ended"
        BY <3>1 DEF InHand, Resting, McpPlaces, NoRequest
      <3>3. McpTypeOK' /\ LinesInOrder' /\ RequestsAreRegistered'
        BY <1>0, <2>0, <3>1, <3>2, McpShape DEF McpTypeOK, LinesInOrder, RequestsAreRegistered, Registered
      <3>4. NothingDoneEarly'
        BY <1>0, <2>0, <3>1, <3>2, McpShape DEF NothingDoneEarly, Untouched
      <3>5. DisconnectCancelsActiveWork' /\ AnswersTellWhatHappened'
        BY <1>0, <3>2, McpShape DEF DisconnectCancelsActiveWork, AnswersTellWhatHappened
      <3> QED BY <3>3, <3>4, <3>5 DEF McpInv
    <2>2. CASE mcpQueue # << >>
      <3>1. /\ mcpWorker' = [Resting EXCEPT !.at = "taken", !.request = Head(mcpQueue)]
            /\ mcpQueue' = Tail(mcpQueue)
        BY <1>2, <2>2 DEF TakeWork
      <3>2. /\ mcpQueue' \in Seq(Nat) /\ Len(mcpQueue) >= 1
            /\ Len(mcpQueue') \in Nat /\ Len(mcpQueue') = Len(mcpQueue) - 1
            /\ Head(mcpQueue) = mcpQueue[1]
            /\ \A i \in 1..Len(mcpQueue') : mcpQueue'[i] = mcpQueue[i + 1] /\ i + 1 \in 1..Len(mcpQueue)
        <4>1. mcpQueue \in Seq(Nat) /\ Len(mcpQueue) \in Nat /\ Len(mcpQueue) # 0
          BY <2>2, McpShape, EmptySeq DEF McpTypeOK
        <4>2. /\ Tail(mcpQueue) \in Seq(Nat) /\ Len(Tail(mcpQueue)) = Len(mcpQueue) - 1
              /\ \A i \in 1..Len(Tail(mcpQueue)) : Tail(mcpQueue)[i] = mcpQueue[i + 1]
          BY <2>2, <4>1, HeadTailProperties
        <4>3. Head(mcpQueue) = mcpQueue[1]
          BY <4>1
        <4> QED BY <3>1, <4>1, <4>2, <4>3
      <3>3. PICK first \in Nat : first = mcpQueue[1] /\ 1 \in 1..Len(mcpQueue)
        BY <3>2, McpShape
      <3>4. /\ mcpWorker' \in [at : McpPlaces, request : Nat, read : Nat]
            /\ Current' = first /\ mcpWorker'.at = "taken" /\ InHand'
        BY <3>1, <3>2, <3>3 DEF Resting, McpPlaces, NoRequest, Current, InHand
      <3>5. McpTypeOK'
        BY <1>0, <2>0, <3>2, <3>4, McpShape DEF McpTypeOK
      <3>6. LinesInOrder'
        <4>a. /\ \A i \in 1..Len(mcpQueue) : /\ mcpQueue[i] \in 1..Len(mcpRequest)
                                             /\ Sending => mcpQueue[i] < Len(mcpRequest)
              /\ \A i, j \in 1..Len(mcpQueue) : i < j => mcpQueue[i] < mcpQueue[j]
          BY McpShape DEF LinesInOrder
        <4>1. ASSUME NEW i \in 1..Len(mcpQueue')
              PROVE  /\ mcpQueue'[i] \in 1..Len(mcpRequest)
                     /\ Sending => mcpQueue'[i] < Len(mcpRequest)
                     /\ first < mcpQueue'[i]
          <5>1. mcpQueue'[i] = mcpQueue[i + 1] /\ i + 1 \in 1..Len(mcpQueue) /\ 1 < i + 1
            BY <3>2
          <5> QED BY <3>3, <4>a, <5>1
        <4>2. ASSUME NEW i \in 1..Len(mcpQueue'), NEW j \in 1..Len(mcpQueue'), i < j
              PROVE  mcpQueue'[i] < mcpQueue'[j]
          <5>1. /\ mcpQueue'[i] = mcpQueue[i + 1] /\ i + 1 \in 1..Len(mcpQueue)
                /\ mcpQueue'[j] = mcpQueue[j + 1] /\ j + 1 \in 1..Len(mcpQueue)
                /\ i + 1 < j + 1
            BY <3>2, <4>2
          <5> QED BY <4>a, <5>1
        <4>3. first \in 1..Len(mcpRequest) /\ (Sending => first < Len(mcpRequest))
          BY <3>3, <4>a
        <4> QED BY <1>0, <2>0, <3>4, <4>1, <4>2, <4>3, McpShape DEF LinesInOrder
      <3>7. NothingDoneEarly'
        <4>1. Untouched(first) /\ \A i \in 1..Len(mcpQueue') : Untouched(mcpQueue'[i])
          BY <3>2, <3>3, McpShape DEF NothingDoneEarly
        <4> QED BY <1>0, <2>0, <3>4, <4>1, McpShape DEF NothingDoneEarly, Untouched
      <3>8. RequestsAreRegistered'
        BY <1>0, <2>0, <3>2, <3>3, <3>4, McpShape DEF RequestsAreRegistered, Registered
      <3>9. DisconnectCancelsActiveWork' /\ AnswersTellWhatHappened'
        BY <1>0, <3>4, McpShape DEF DisconnectCancelsActiveWork, AnswersTellWhatHappened
      <3> QED BY <3>5, <3>6, <3>7, <3>8, <3>9 DEF McpInv
    <2> QED BY <2>1, <2>2
  <1>3. CASE CheckStopped
    <2>0. /\ UNCHANGED <<mcpQueue, mcpReader, mcpWriter, mcpStopped>> /\ (Sending' <=> Sending)
          /\ mcpWorker.at = "taken" /\ InHand
      BY <1>3 DEF CheckStopped, Sending, InHand, Input, Ending
    <2>1. CASE mcpStopped
      <3>1. mcpWorker' = [Resting EXCEPT !.at = "ended"]
        BY <1>3, <2>1 DEF CheckStopped
      <3>2. ~ InHand' /\ mcpWorker' \in [at : McpPlaces, request : Nat, read : Nat] /\ mcpWorker'.at = "ended"
        BY <3>1 DEF InHand, Resting, McpPlaces, NoRequest
      <3>3. McpTypeOK' /\ LinesInOrder' /\ RequestsAreRegistered'
        BY <1>0, <2>0, <3>1, <3>2, McpShape DEF McpTypeOK, LinesInOrder, RequestsAreRegistered, Registered
      <3>4. NothingDoneEarly'
        BY <1>0, <2>0, <3>1, <3>2, McpShape DEF NothingDoneEarly, Untouched
      <3>5. DisconnectCancelsActiveWork' /\ AnswersTellWhatHappened'
        BY <1>0, <3>2, McpShape DEF DisconnectCancelsActiveWork, AnswersTellWhatHappened
      <3> QED BY <3>3, <3>4, <3>5 DEF McpInv
    <2>2. CASE ~ mcpStopped
      <3>1. mcpWorker' = [mcpWorker EXCEPT !.at = "handling"]
        BY <1>3, <2>2 DEF CheckStopped
      <3>2. /\ mcpWorker' \in [at : McpPlaces, request : Nat, read : Nat] /\ mcpWorker'.at = "handling"
            /\ Current' = Current /\ InHand'
        BY <3>1, McpShape DEF InHand, McpPlaces, Current
      <3>3. McpTypeOK' /\ LinesInOrder' /\ RequestsAreRegistered'
        BY <1>0, <2>0, <3>2, McpShape DEF McpTypeOK, LinesInOrder, RequestsAreRegistered, Registered
      <3>4. NothingDoneEarly'
        BY <1>0, <2>0, <3>2, McpShape DEF NothingDoneEarly, Untouched
      <3>5. DisconnectCancelsActiveWork' /\ AnswersTellWhatHappened'
        BY <1>0, <2>0, <2>2, McpShape DEF DisconnectCancelsActiveWork, AnswersTellWhatHappened
      <3> QED BY <3>3, <3>4, <3>5 DEF McpInv
    <2> QED BY <2>1, <2>2
  <1> QED BY <1>1, <1>2, <1>3

\* The worker goes on with the line it has: what it may answer and change.
LEMMA HandlingKeepsMcp ==
  ASSUME McpInv, InHand, mcpWorker.at \in {"handling", "filling", "scanning", "answered"},
         UNCHANGED <<mcpRequest, mcpActive, mcpQueue, mcpReader, mcpWriter, mcpStopped>>,
         mcpWorker' \in [at : {"filling", "scanning", "answered", "retiring"}, request : {Current}, read : Nat],
         mcpWorker'.at \in {"filling", "scanning"} => mcpWorker.at \in {"handling", "scanning"},
         mcpWorker'.at = "filling" => CurrentTool = "update_task" /\ Untouched(Current)',
         mcpWorker'.at = "scanning" => CurrentTool = "scan_root",
         mcpStore' \in [known : BOOLEAN, omitted : Nat, meant : Nat],
         mcpAnswer' \in [Numbers -> McpAnswers],
         \A n \in Numbers \ {Current} :
            mcpAnswer'[n] = mcpAnswer[n] /\ (n \in mcpChanged' <=> n \in mcpChanged)
              /\ (n \in mcpAudited => n \in mcpAudited'),
         mcpAnswer'[Current] \in {"ok", "cancelled", "not_found"} /\ CurrentTool \in Tools \ Reads =>
            Current \in mcpAudited',
         mcpAnswer'[Current] = "error" /\ Current \in mcpChanged' => CurrentTool = "scan_root"
  PROVE  McpInv'
  <1>1. PICK now \in 1..Len(mcpRequest) : now = Current /\ now = Current' /\ now \in Numbers
    BY McpShape DEF Current
  <1>2. mcpWorker' \in [at : McpPlaces, request : Nat, read : Nat] /\ InHand'
    BY McpShape DEF McpPlaces, InHand
  <1>3. (Sending' <=> Sending) /\ CurrentTool' = CurrentTool /\ CurrentTool = mcpRequest[now].tool
    BY <1>1 DEF Sending, CurrentTool
  <1>4. McpTypeOK'
    BY <1>2, McpShape DEF McpTypeOK
  <1>5. LinesInOrder'
    BY <1>1, <1>2, <1>3, McpShape DEF LinesInOrder
  <1>6. NothingDoneEarly'
    <2>1. \A n \in Numbers : n # now /\ Untouched(n) => Untouched(n)'
      BY <1>1 DEF Untouched
    <2>2. \A i \in 1..Len(mcpQueue) : mcpQueue[i] # now /\ mcpQueue[i] \in Numbers /\ Untouched(mcpQueue[i])
      BY <1>1, McpShape DEF LinesInOrder, NothingDoneEarly
    <2>3. Sending => Len(mcpRequest) # now /\ Len(mcpRequest) \in Numbers /\ Untouched(Len(mcpRequest))
      BY <1>1, McpShape DEF LinesInOrder, NothingDoneEarly
    <2>4. \A n \in Numbers : n > Len(mcpRequest) => n # now /\ Untouched(n)
      BY <1>1, McpShape DEF NothingDoneEarly, Numbers
    <2>5. mcpWorker'.at = "filling" => Untouched(Current)'
      OBVIOUS
    <2>6. \A i \in 1..Len(mcpQueue) : Untouched(mcpQueue[i])'
      BY <2>1, <2>2 DEF Untouched
    <2>7. Sending => Untouched(Len(mcpRequest))'
      BY <2>1, <2>3 DEF Untouched
    <2> QED BY <1>3, <2>1, <2>4, <2>5, <2>6, <2>7 DEF NothingDoneEarly
  <1>7. RequestsAreRegistered'
    BY <1>1, <1>2, <1>3, McpShape DEF RequestsAreRegistered, Registered
  <1>8. DisconnectCancelsActiveWork'
    BY <1>1, <1>3, McpShape DEF DisconnectCancelsActiveWork
  <1>9. AnswersTellWhatHappened'
    <2> SUFFICES ASSUME NEW n \in 1..Len(mcpRequest)
                 PROVE  /\ (mcpAnswer'[n] \in {"ok", "cancelled", "not_found"}
                              /\ mcpRequest[n].tool \in Tools \ Reads) => n \in mcpAudited'
                        /\ (mcpAnswer'[n] = "error" /\ n \in mcpChanged') => mcpRequest[n].tool = "scan_root"
      BY McpShape DEF AnswersTellWhatHappened
    <2>1. CASE n = now
      BY <1>1, <1>3, <2>1
    <2>2. CASE n # now
      BY <1>1, <2>2, McpShape DEF AnswersTellWhatHappened
    <2> QED BY <2>1, <2>2
  <1> QED BY <1>4, <1>5, <1>6, <1>7, <1>8, <1>9 DEF McpInv

\* The worker answers: an answer that says that something was done comes with
\* the audit row, and an error comes with a change only from a scan.
LEMMA AnsweringKeepsMcp ==
  ASSUME McpInv, mcpWorker.at \in {"handling", "filling", "scanning"}, NEW answer \in McpAnswers,
         UNCHANGED <<mcpRequest, mcpActive, mcpQueue, mcpReader, mcpWriter, mcpStopped>>,
         mcpWorker' = [mcpWorker EXCEPT !.at = "answered"],
         mcpAnswer' = [mcpAnswer EXCEPT ![Current] = answer],
         mcpStore' \in [known : BOOLEAN, omitted : Nat, meant : Nat],
         mcpChanged' \in {mcpChanged, mcpChanged \cup {Current}},
         mcpAudited' \in {mcpAudited, mcpAudited \cup {Current}},
         answer \in {"ok", "cancelled", "not_found"} /\ CurrentTool \in Tools \ Reads => Current \in mcpAudited',
         answer = "error" /\ Current \in mcpChanged' => CurrentTool = "scan_root"
  PROVE  McpInv'
  <1>1. InHand /\ Current \in Numbers
    BY McpShape DEF InHand
  <1>2. mcpWorker' \in [at : {"filling", "scanning", "answered", "retiring"}, request : {Current}, read : Nat]
        /\ mcpWorker'.at = "answered"
    BY McpShape DEF Current
  <1>3. /\ mcpAnswer' \in [Numbers -> McpAnswers] /\ mcpAnswer'[Current] = answer
        /\ \A n \in Numbers \ {Current} : mcpAnswer'[n] = mcpAnswer[n]
    BY <1>1, McpShape DEF McpTypeOK
  <1> QED BY <1>1, <1>2, <1>3, HandlingKeepsMcp

\* A handler that answers its request does so for the request in hand.
LEMMA AnswersKeepMcp ==
  ASSUME McpInv,
         \/ HandleInitialize \/ HandlePlain \/ CallRead \/ CallWrite \/ CallRemove
         \/ UpdateCommit \/ ScanEnd \/ (UpdateRead /\ mcpWorker'.at # "filling")
         \/ (ScanBegin /\ mcpWorker'.at # "scanning")
  PROVE  McpInv'
  <1>0. mcpStore \in [known : BOOLEAN, omitted : Nat, meant : Nat]
    BY McpShape DEF McpTypeOK
  <1>1. PICK answer \in McpAnswers :
          /\ mcpWorker.at \in {"handling", "filling", "scanning"}
          /\ mcpWorker' = [mcpWorker EXCEPT !.at = "answered"]
          /\ mcpAnswer' = [mcpAnswer EXCEPT ![Current] = answer]
          /\ UNCHANGED <<mcpRequest, mcpActive, mcpQueue, mcpReader, mcpWriter, mcpStopped>>
          /\ mcpStore' \in [known : BOOLEAN, omitted : Nat, meant : Nat]
          /\ mcpChanged' \in {mcpChanged, mcpChanged \cup {Current}}
          /\ mcpAudited' \in {mcpAudited, mcpAudited \cup {Current}}
          /\ answer \in {"ok", "cancelled", "not_found"} /\ CurrentTool \in Tools \ Reads => Current \in mcpAudited'
          /\ answer = "error" /\ Current \in mcpChanged' => mcpChanged' = mcpChanged /\ mcpWorker.at \in {"handling", "filling", "scanning"}
    <2>1. CASE HandleInitialize
      <3>1. "initialize" \notin Tools
        BY DEF Tools, Reads, Writes, Removals, ProjectReads, SessionReads, IconReads, RunReads, Diagnostics,
               CollectionWrites, ModuleWrites, ProjectWrites, LocationWrites, TaskWrites, RootWrites
      <3> QED BY <1>0, <2>1, <3>1 DEF HandleInitialize, Handling, Ending, McpAnswers
    <2>2. CASE HandlePlain
      <3>1. "tools/list" \notin Tools
        BY DEF Tools, Reads, Writes, Removals, ProjectReads, SessionReads, IconReads, RunReads, Diagnostics,
               CollectionWrites, ModuleWrites, ProjectWrites, LocationWrites, TaskWrites, RootWrites
      <3> QED BY <1>0, <2>2, <3>1 DEF HandlePlain, Handling, Answered, Input, Ending, McpAnswers
    <2>3. CASE CallRead
      BY <1>0, <2>3 DEF CallRead, Calling, Handling, Answered, Input, Ending, McpAnswers
    <2>4. CASE CallWrite
      BY <1>0, <2>4 DEF CallWrite, Calling, Handling, Answered, Refuse, CommitChange, Input, Ending, McpAnswers
    <2>5. CASE CallRemove
      <3>1. [mcpStore EXCEPT !.known = FALSE] \in [known : BOOLEAN, omitted : Nat, meant : Nat]
        BY <1>0
      <3> QED
        BY <1>0, <2>5, <3>1 DEF CallRemove, Calling, Handling, Answered, Refuse, CommitChange, Input, Ending, McpAnswers
    <2>6. CASE UpdateCommit
      <3>1. [mcpStore EXCEPT !.omitted = mcpWorker.read] \in [known : BOOLEAN, omitted : Nat, meant : Nat]
        BY <1>0, McpShape
      <3> QED
        BY <1>0, <2>6, <3>1 DEF UpdateCommit, Handling, Answered, Refuse, CommitChange, Input, Ending, McpAnswers
    <2>7. CASE ScanEnd
      BY <1>0, <2>7 DEF ScanEnd, Handling, Answered, Input, Ending, McpAnswers
    <2>8. CASE UpdateRead /\ mcpWorker'.at # "filling"
      <3>1. [mcpWorker EXCEPT !.at = "filling", !.read = mcpStore.omitted].at = "filling"
        BY McpShape
      <3> QED
        BY <1>0, <2>8, <3>1 DEF UpdateRead, Calling, Handling, Answered, Refuse, Input, Ending, McpAnswers
    <2>9. CASE ScanBegin /\ mcpWorker'.at # "scanning"
      <3>1. [mcpWorker EXCEPT !.at = "scanning"].at = "scanning"
        BY McpShape
      <3> QED
        BY <1>0, <2>9, <3>1 DEF ScanBegin, Calling, Handling, Answered, Refuse, Continue, Input, Ending, McpAnswers
    <2> QED BY <2>1, <2>2, <2>3, <2>4, <2>5, <2>6, <2>7, <2>8, <2>9
  <1>2. answer = "error" /\ Current \in mcpChanged' => CurrentTool = "scan_root"
    BY <1>1, McpShape DEF NothingDoneEarly, Untouched
  <1> QED BY <1>1, <1>2, AnsweringKeepsMcp

\* The steps inside a call, the response, and the end of a request.
LEMMA CallsKeepMcp ==
  ASSUME McpInv,
         \/ HandleSilent \/ (UpdateRead /\ mcpWorker'.at = "filling")
         \/ (ScanBegin /\ mcpWorker'.at = "scanning") \/ ScanIngest \/ SendResponse
  PROVE  McpInv'
  <1>0. /\ mcpStore' = mcpStore /\ mcpStore \in [known : BOOLEAN, omitted : Nat, meant : Nat]
        /\ mcpWorker \in [at : McpPlaces, request : Nat, read : Nat]
        /\ mcpWorker.at \in {"handling", "scanning", "answered"} /\ InHand
        /\ UNCHANGED <<mcpRequest, mcpActive, mcpQueue, mcpReader, mcpWriter, mcpStopped, mcpAudited>>
    BY McpShape DEF McpTypeOK, HandleSilent, UpdateRead, ScanBegin, ScanIngest, SendResponse, InHand, Refuse, Answered,
       Calling, Handling, Continue, Input, Ending, Data
  <1>1. UNCHANGED mcpAnswer
    <2>1. [mcpWorker EXCEPT !.at = "answered"].at = "answered"
      BY <1>0
    <2> QED
      BY <2>1 DEF HandleSilent, UpdateRead, ScanBegin, ScanIngest, SendResponse, Refuse, Answered, Continue, Data
  <1>2. CASE HandleSilent \/ SendResponse
    <2>1. mcpWorker' = [mcpWorker EXCEPT !.at = "retiring"] /\ UNCHANGED mcpChanged
      BY <1>2 DEF HandleSilent, SendResponse, Continue, Data
    <2>2. mcpWorker' \in [at : {"filling", "scanning", "answered", "retiring"}, request : {Current}, read : Nat]
          /\ mcpWorker'.at = "retiring"
      BY <1>0, <2>1 DEF Current
    <2>3. Current \in DOMAIN mcpRequest /\ CurrentTool = mcpRequest[Current].tool
      BY <1>0, McpShape DEF CurrentTool
    <2>4. /\ mcpAnswer[Current] \in {"ok", "cancelled", "not_found"} /\ CurrentTool \in Tools \ Reads =>
                Current \in mcpAudited
          /\ mcpAnswer[Current] = "error" /\ Current \in mcpChanged => CurrentTool = "scan_root"
      BY <2>3, McpShape DEF AnswersTellWhatHappened
    <2> QED BY <1>0, <1>1, <2>1, <2>2, <2>4, McpShape, HandlingKeepsMcp DEF McpTypeOK
  <1>3. CASE UpdateRead /\ mcpWorker'.at = "filling"
    <2>0. [mcpWorker EXCEPT !.at = "answered"].at = "answered"
      BY <1>0
    <2>1. /\ mcpWorker' = [mcpWorker EXCEPT !.at = "filling", !.read = mcpStore.omitted]
          /\ UNCHANGED mcpChanged
          /\ mcpWorker.at = "handling" /\ CurrentTool = "update_task"
      BY <1>3, <2>0 DEF UpdateRead, Calling, Handling, Refuse, Answered, Data
    <2>2. mcpWorker' \in [at : {"filling", "scanning", "answered", "retiring"}, request : {Current}, read : Nat]
      BY <1>0, <2>1 DEF Current
    <2>3. Untouched(Current) /\ Current' = Current
      BY <1>0, <2>1, McpShape DEF NothingDoneEarly, Current
    <2>4. Untouched(Current)' /\ mcpAnswer[Current] = "none"
      BY <1>1, <2>1, <2>3 DEF Untouched
    <2> QED BY <1>0, <1>1, <1>3, <2>1, <2>2, <2>4, McpShape, HandlingKeepsMcp DEF McpTypeOK
  <1>4. CASE (ScanBegin /\ mcpWorker'.at = "scanning") \/ ScanIngest
    <2>0. [mcpWorker EXCEPT !.at = "answered"].at = "answered"
      BY <1>0
    <2>1. /\ mcpWorker' = [mcpWorker EXCEPT !.at = "scanning"]
          /\ mcpChanged' \in {mcpChanged, mcpChanged \cup {Current}}
          /\ mcpWorker.at \in {"handling", "scanning"} /\ CurrentTool = "scan_root"
      BY <1>4, <2>0, McpShape DEF ScanBegin, ScanIngest, Calling, Handling, Refuse, Answered, Continue, NothingDoneEarly
    <2>2. mcpWorker' \in [at : {"filling", "scanning", "answered", "retiring"}, request : {Current}, read : Nat]
          /\ mcpWorker'.at = "scanning"
      BY <1>0, <2>1 DEF Current
    <2>3. Current \in DOMAIN mcpRequest /\ CurrentTool = mcpRequest[Current].tool
      BY <1>0, McpShape DEF CurrentTool
    <2>4. mcpAnswer[Current] \in {"ok", "cancelled", "not_found"} /\ CurrentTool \in Tools \ Reads =>
                Current \in mcpAudited
      BY <2>3, McpShape DEF AnswersTellWhatHappened
    <2> QED BY <1>0, <1>1, <2>1, <2>2, <2>4, McpShape, HandlingKeepsMcp DEF McpTypeOK
  <1> QED BY <1>2, <1>3, <1>4

\* The worker retires its request and is idle again.
LEMMA RetiringKeepsMcp ==
  ASSUME McpInv, RetireRequest
  PROVE  McpInv'
  <1>0. /\ mcpWorker' = Resting /\ mcpActive' = mcpActive \ {Current}
        /\ UNCHANGED <<mcpRequest, mcpQueue, mcpReader, mcpWriter, mcpStopped, mcpAnswer, mcpStore, mcpChanged, mcpAudited>>
        /\ InHand /\ (Sending' <=> Sending)
    BY DEF RetireRequest, Handling, InHand, Sending, Ending, Data
  <1>1. ~ InHand' /\ mcpWorker' \in [at : McpPlaces, request : Nat, read : Nat] /\ mcpWorker'.at = "idle"
    BY <1>0 DEF InHand, Resting, McpPlaces, NoRequest
  <1>2. McpTypeOK' /\ LinesInOrder'
    BY <1>0, <1>1, McpShape DEF McpTypeOK, LinesInOrder
  <1>3. NothingDoneEarly'
    BY <1>0, <1>1, McpShape DEF NothingDoneEarly, Untouched
  <1>4. RequestsAreRegistered'
    <2>1. \A n \in 1..Len(mcpRequest) : n # Current /\ Registered(n) => Registered(n)'
      BY <1>0 DEF Registered
    <2>2. \A i \in 1..Len(mcpQueue) : mcpQueue[i] \in 1..Len(mcpRequest) /\ mcpQueue[i] # Current /\ Registered(mcpQueue[i])
      BY <1>0, McpShape DEF LinesInOrder, RequestsAreRegistered
    <2>3. Sending => Len(mcpRequest) \in 1..Len(mcpRequest) /\ Len(mcpRequest) # Current /\ Registered(Len(mcpRequest))
      BY <1>0, McpShape DEF LinesInOrder, RequestsAreRegistered
    <2>4. \A i \in 1..Len(mcpQueue) : Registered(mcpQueue[i])'
      BY <1>0, <2>1, <2>2 DEF Registered
    <2>5. Sending => Registered(Len(mcpRequest))'
      BY <1>0, <2>1, <2>3 DEF Registered
    <2> QED BY <1>0, <1>1, <2>4, <2>5 DEF RequestsAreRegistered
  <1>5. DisconnectCancelsActiveWork' /\ AnswersTellWhatHappened'
    BY <1>0, <1>1, McpShape DEF DisconnectCancelsActiveWork, AnswersTellWhatHappened
  <1> QED BY <1>2, <1>3, <1>4, <1>5 DEF McpInv

\* Every step of the adapter keeps the invariant.
LEMMA McpSteps ==
  ASSUME McpInv, [McpNext]_mcpVars
  PROVE  McpInv'
  <1>1. CASE McpRead
    BY <1>1, ReadingKeepsMcp, StoppingKeepsMcp DEF McpRead
  <1>2. CASE McpShutdown
    BY <1>2, QueueingKeepsMcp, StoppingKeepsMcp DEF McpShutdown
  <1>3. CASE McpWork
    BY <1>3, QueueingKeepsMcp, AnswersKeepMcp, CallsKeepMcp, RetiringKeepsMcp DEF McpWork
  <1>4. CASE DesktopRemove \/ DesktopEdit \/ UNCHANGED mcpVars
    BY <1>4, StoppingKeepsMcp
  <1> QED BY <1>1, <1>2, <1>3, <1>4 DEF McpNext

\* The flag of the request in the worker's hands is registered, and nothing is
\* done for a line before its turn.
THEOREM McpInvariant == McpSpec => []McpInv
  <1>1. McpInit => McpInv
    BY McpInitially
  <1>2. McpInv /\ [McpNext]_mcpVars => McpInv'
    BY McpSteps
  <1> QED BY <1>1, <1>2, PTL DEF McpSpec

\* However the disconnects interleave with the reader and the worker, no
\* request goes on uncanceled once the registered ones were canceled.
THEOREM DisconnectsCancel == McpSpec => []DisconnectCancelsActiveWork
  <1>1. McpInv => DisconnectCancelsActiveWork
    BY DEF McpInv
  <1> QED BY <1>1, McpInvariant, PTL

\* An acknowledged change has its audit row, and an error has changed nothing
\* unless it is a scan's.
THEOREM AnswersAreTrue == McpSpec => []AnswersTellWhatHappened
  <1>1. McpInv => AnswersTellWhatHappened
    BY DEF McpInv
  <1> QED BY <1>1, McpInvariant, PTL

-----------------------------------------------------------------------------
(* Git operations.  As long as an operation waits for a lock or holds it,    *)
(* the lock is the one that the table has for its repository, so the         *)
(* operations of one repository share one lock.  Inside this lock a snapshot *)
(* is at least as recent as whatever was published before.                   *)

Repository(o) == RootOf[op[o].path]
Using(o) == op[o].at = "waiting" \/ Inside(o)

\* The lock of an operation that waits or works is not forgotten.
LocksAreKept ==
  \A o \in Operations :
    Using(o) => op[o].lock \in Operations /\ locks[Repository(o)] = op[o].lock

LocksExclude ==
  \A o, q \in Operations : Inside(o) /\ Inside(q) /\ op[o].lock = op[q].lock => o = q

\* After the last check only a move by another client changes the location.
ChecksHold ==
  \A o \in Operations :
    op[o].at = "checked" =>
      \/ path[op[o].project] \in {op[o].path, NoPath}
      \/ op[o].project \in moved

WithSnapshot(o) == op[o].at \in {"executed", "checked", "published"} /\ op[o].seen # NoSnapshot

\* What an operation made is in its repository, in its own snapshot, and in the
\* snapshots of the operations that work there when it has been published.
SnapshotsAreRecent ==
  /\ \A o \in Operations : op[o].at \in Places => version[Repository(o)] >= op[o].made
  /\ \A o \in Operations : WithSnapshot(o) => op[o].seen >= op[o].made
  /\ \A o, q \in Operations :
       /\ WithSnapshot(o)
       /\ op[o].at # "published"
       /\ op[q].at = "published"
       /\ Repository(o) = Repository(q)
       => op[o].seen >= op[q].made
  /\ \A o \in Operations : op[o].at = "checked" => op[o].seen # NoSnapshot

GitInv ==
  /\ TypeOK
  /\ LocksAreKept
  /\ LocksExclude
  /\ ChecksHold
  /\ CacheIsOfTheRecordedPath
  /\ SnapshotsAreRecent
  /\ FinishedOperationsStayVisible

-----------------------------------------------------------------------------
USE CheckoutsAssumption, OperationsAssumption

\* An operation that has begun has all its local variables.
LEMMA BegunType ==
  ASSUME TypeOK, NEW o \in Operations, op[o].at \in Places
  PROVE  /\ op[o] \in Ops
         /\ op[o].project \in Projects
         /\ op[o].path \in Paths
         /\ Repository(o) \in Roots
         /\ op[o].made \in Versions
BY DEF TypeOK, Idle, Done, Places, Ops, Repository

\* Operations of one repository have one lock, so one of them is inside.
LEMMA OneLock ==
  ASSUME GitInv PROVE OneOperationPerRepository
BY DEF GitInv, LocksAreKept, LocksExclude, OneOperationPerRepository, Using, Repository

\* All variables have their types in the initial states.
LEMMA InitInv == Init => GitInv
<1> SUFFICES ASSUME Init PROVE GitInv
  OBVIOUS
<1> USE DEF Init, CheckoutsInit, Idle
<1>1. TypeOK
  BY DEF TypeOK, CheckoutsTypeOK, Versions
<1>2. LocksAreKept /\ LocksExclude /\ ChecksHold
  BY DEF LocksAreKept, LocksExclude, ChecksHold, Using, Inside
<1>3. CacheIsOfTheRecordedPath
  BY DEF CacheIsOfTheRecordedPath
<1>4. SnapshotsAreRecent /\ FinishedOperationsStayVisible
  BY DEF SnapshotsAreRecent, FinishedOperationsStayVisible, WithSnapshot, Places
<1>5. QED
  BY <1>1, <1>2, <1>3, <1>4 DEF GitInv

-----------------------------------------------------------------------------
\* Types

\* An operation keeps the types.
LEMMA OperationType ==
  ASSUME TypeOK, SnapshotsAreRecent, NEW o \in Operations,
         OperationStep(o) \/ \E p \in Projects : Prepare(o, p)
  PROVE  TypeOK'
<1> USE DEF Idle, Done
<1>1. CASE \E p \in Projects : Prepare(o, p)
  BY <1>1 DEF Prepare, Recorded, TypeOK, CheckoutsTypeOK, Ops, Places, Versions
<1>2. CASE RefuseOperation(o) \/ AcquireLock(o) \/ ValidateOperation(o) \/ FinishOperation(o)
  <2>1. op[o] \in Ops
    BY <1>2, BegunType DEF RefuseOperation, AcquireLock, ValidateOperation, FinishOperation, Places
  <2>2. \/ op' = [op EXCEPT ![o] = Done]
        \/ \E place \in Places : op' = [op EXCEPT ![o].at = place]
    BY <1>2 DEF RefuseOperation, AcquireLock, ValidateOperation, FinishOperation, Goto, End, Places
  <2>3. op' \in [Operations -> Ops \cup {Idle, Done}]
    BY <2>1, <2>2 DEF TypeOK, Ops
  <2>4. UNCHANGED <<path, version, cache, locks, moved>>
    BY <1>2 DEF RefuseOperation, AcquireLock, ValidateOperation, FinishOperation
  <2>5. QED
    BY <2>3, <2>4 DEF TypeOK, CheckoutsTypeOK
<1>3. CASE FindLock(o)
  <2> DEFINE kept == [r \in Roots |-> IF Alive(locks[r]) THEN locks[r] ELSE NoLock]
             lock == IF kept[Repository(o)] = NoLock THEN o ELSE kept[Repository(o)]
  <2>1. op[o] \in Ops /\ Repository(o) \in Roots
    BY <1>3, BegunType DEF FindLock, Places
  <2>2. kept \in [Roots -> Operations \cup {NoLock}]
    BY DEF TypeOK
  <2>3. lock \in Operations
    BY <2>1, <2>2
  <2>4. /\ locks' = [kept EXCEPT ![Repository(o)] = lock]
        /\ op' = [op EXCEPT ![o].at = "waiting", ![o].lock = lock]
        /\ UNCHANGED <<path, version, cache, moved>>
    BY <1>3 DEF FindLock, Repository
  <2> HIDE DEF kept, lock
  <2>5. locks' \in [Roots -> Operations \cup {NoLock}]
    BY <2>2, <2>3, <2>4
  <2>6. op' \in [Operations -> Ops \cup {Idle, Done}]
    BY <2>1, <2>3, <2>4 DEF TypeOK, Ops, Places
  <2>7. QED
    BY <2>4, <2>5, <2>6 DEF TypeOK, CheckoutsTypeOK
<1>4. CASE RunGit(o)
  <2>1. op[o] \in Ops /\ Repository(o) \in Roots
    BY <1>4, BegunType DEF RunGit, Places
  <2>2. version' \in [Roots -> Versions]
    BY <1>4, <2>1 DEF RunGit, TypeOK, CheckoutsTypeOK, Versions, Repository
  <2>3. version[Repository(o)] \in Versions /\ version'[Repository(o)] \in Versions
    BY <2>1, <2>2 DEF TypeOK, CheckoutsTypeOK
  <2>4. \/ op' = [op EXCEPT ![o].at = "failed"]
        \/ op' = [op EXCEPT ![o].at = "ran", ![o].made = version'[Repository(o)]]
    BY <1>4, <2>1 DEF RunGit, Goto, TypeOK, CheckoutsTypeOK, Repository
  <2>5. op' \in [Operations -> Ops \cup {Idle, Done}]
    BY <2>1, <2>3, <2>4 DEF TypeOK, Ops, Places
  <2>6. QED
    BY <1>4, <2>2, <2>5 DEF RunGit, TypeOK, CheckoutsTypeOK
<1>5. CASE TakeSnapshot(o)
  <2>1. op[o] \in Ops /\ Repository(o) \in Roots
    BY <1>5, BegunType DEF TakeSnapshot, Places
  <2>2. PICK seen \in Versions \cup {NoSnapshot} :
          op' = [op EXCEPT ![o].at = "executed", ![o].seen = seen]
    BY <1>5, <2>1 DEF TakeSnapshot, RepositoryOf, Repository, TypeOK, CheckoutsTypeOK
  <2>3. op' \in [Operations -> Ops \cup {Idle, Done}]
    BY <2>1, <2>2 DEF TypeOK, Ops, Places
  <2>4. QED
    BY <1>5, <2>3 DEF TakeSnapshot, TypeOK, CheckoutsTypeOK
<1>6. CASE PublishSnapshot(o)
  <2>1. op[o] \in Ops
    BY <1>6, BegunType DEF PublishSnapshot, Places
  <2>2. op[o].seen # NoSnapshot
    BY <1>6 DEF PublishSnapshot, SnapshotsAreRecent
  <2>3. cache' \in [Projects -> Caches \cup {NoCache}]
    BY <1>6, <2>1, <2>2 DEF PublishSnapshot, TypeOK, Caches, Ops
  <2>4. op' \in [Operations -> Ops \cup {Idle, Done}]
    BY <1>6, <2>1 DEF PublishSnapshot, Goto, End, TypeOK, Ops, Places
  <2>5. QED
    BY <1>6, <2>3, <2>4 DEF PublishSnapshot, TypeOK, CheckoutsTypeOK
<1>7. QED
  BY <1>1, <1>2, <1>3, <1>4, <1>5, <1>6 DEF OperationStep

\* So do refreshes, moves, removals and other programs.
LEMMA OtherType ==
  ASSUME TypeOK,
         \/ \E p \in Projects : RefreshProject(p) \/ RemoveProject(p)
         \/ \E p \in Projects, d \in Paths : RelocateProject(p, d)
         \/ \E r \in Roots : OtherProgram(r)
  PROVE  TypeOK'
<1> USE DEF TypeOK, CheckoutsTypeOK, Versions, Caches, NoCache, Snapshots, RepositoryOf, Recorded
<1>1. CASE \E p \in Projects : RefreshProject(p) \/ RemoveProject(p)
  BY <1>1 DEF RefreshProject, RemoveProject, RemoveRecord
<1>2. CASE \E p \in Projects, d \in Paths : RelocateProject(p, d)
  BY <1>2 DEF RelocateProject, Relocate
<1>3. CASE \E r \in Roots : OtherProgram(r)
  BY <1>3 DEF OtherProgram, ChangeRepository
<1>4. QED
  BY <1>1, <1>2, <1>3

-----------------------------------------------------------------------------
\* Locks

\* A step of operation o other than FindLock keeps its lock, its path and the
\* table, and begins to use a lock or to be inside it only as said here.
LEMMA LocksStay ==
  ASSUME GitInv, TypeOK', NEW o \in Operations,
         \A q \in Operations \ {o} : op'[q] = op[q],
         locks' = locks,
         Using(o)' => Using(o) /\ op'[o].lock = op[o].lock /\ op'[o].path = op[o].path,
         Inside(o)' => \/ Inside(o)
                       \/ \A q \in Operations : Inside(q) => op[q].lock # op[o].lock
  PROVE  LocksAreKept' /\ LocksExclude'
<1>1. LocksAreKept'
  BY DEF GitInv, LocksAreKept, Using, Inside, Repository
<1>2. LocksExclude'
  BY DEF GitInv, LocksExclude, Using, Inside
<1>3. QED
  BY <1>1, <1>2

\* The table keeps the locks in use, and hands out the one that it has.
LEMMA FindKeepsLocks ==
  ASSUME GitInv, NEW o \in Operations, FindLock(o)
  PROVE  LocksAreKept' /\ LocksExclude'
<1> DEFINE kept == [r \in Roots |-> IF Alive(locks[r]) THEN locks[r] ELSE NoLock]
           lock == IF kept[Repository(o)] = NoLock THEN o ELSE kept[Repository(o)]
<1> USE DEF GitInv
<1>1. op[o] \in Ops /\ Repository(o) \in Roots /\ op[o].at = "prepared"
  BY BegunType DEF FindLock, Places
<1>2. /\ locks' = [kept EXCEPT ![Repository(o)] = lock]
      /\ op' = [op EXCEPT ![o].at = "waiting", ![o].lock = lock]
  BY DEF FindLock, Repository
<1>3. kept \in [Roots -> Operations \cup {NoLock}]
  BY DEF TypeOK
<1>4. lock \in Operations
  BY <1>1, <1>3
<1>5. ASSUME NEW q \in Operations, Using(q)
      PROVE  kept[Repository(q)] = op[q].lock /\ Repository(q) \in Roots /\ op[q].lock \in Operations
  <2>1. op[q].lock \in Operations /\ locks[Repository(q)] = op[q].lock
    BY <1>5 DEF LocksAreKept
  <2>2. Repository(q) \in Roots
    BY <1>5, BegunType DEF Using, Inside, Places
  <2>3. q \in Users(op[q].lock)
    BY <1>5 DEF Users, Using
  <2>4. QED
    BY <2>1, <2>2, <2>3 DEF Alive
<1> HIDE DEF kept, lock
<1>6. op'[o].at = "waiting" /\ op'[o].lock = lock /\ op'[o].path = op[o].path
  BY <1>1, <1>2 DEF TypeOK, Ops
<1>7. \A q \in Operations \ {o} : op'[q] = op[q]
  BY <1>2 DEF TypeOK
<1>8. LocksAreKept'
  <2> SUFFICES ASSUME NEW q \in Operations, Using(q)'
               PROVE  op'[q].lock \in Operations /\ locks'[Repository(q)'] = op'[q].lock
    BY DEF LocksAreKept
  <2>1. CASE q = o
    BY <2>1, <1>1, <1>2, <1>3, <1>4, <1>6 DEF Repository
  <2>2. CASE q # o
    <3>1. Using(q) /\ op'[q] = op[q] /\ Repository(q)' = Repository(q)
      BY <2>2, <1>7 DEF Using, Inside, Repository
    <3>2. kept[Repository(q)] = op[q].lock /\ Repository(q) \in Roots /\ op[q].lock \in Operations
      BY <3>1, <1>5
    <3>3. locks'[Repository(q)] = kept[Repository(q)]
      <4>1. CASE Repository(q) = Repository(o)
        <5>1. lock = kept[Repository(q)]
          BY <4>1, <3>2 DEF lock
        <5>2. QED
          BY <4>1, <5>1, <1>2, <1>3, <1>1
      <4>2. CASE Repository(q) # Repository(o)
        BY <4>2, <1>2, <1>3, <3>2
      <4>3. QED
        BY <4>1, <4>2
    <3>4. QED
      BY <3>1, <3>2, <3>3
  <2>3. QED
    BY <2>1, <2>2
<1>9. LocksExclude'
  BY <1>6, <1>7 DEF LocksExclude, Inside
<1>10. QED
  BY <1>8, <1>9

\* Every step preserves what is said about locks.
LEMMA StepLocks ==
  ASSUME GitInv, TypeOK', [Next]_vars
  PROVE  LocksAreKept' /\ LocksExclude'
<1> USE DEF GitInv
<1>1. CASE UNCHANGED <<op, locks>>
  BY <1>1 DEF LocksAreKept, LocksExclude, Using, Inside, Repository
<1>2. ASSUME NEW o \in Operations, OperationStep(o) \/ \E p \in Projects : Prepare(o, p)
      PROVE  LocksAreKept' /\ LocksExclude'
  <2>1. CASE FindLock(o)
    BY <2>1, FindKeepsLocks
  <2>2. CASE ~ FindLock(o)
    <3>1. op[o].at \in Places => op[o] \in Ops
      BY BegunType
    <3>2. locks' = locks
      BY <1>2, <2>2 DEF OperationStep, Prepare, RefuseOperation, AcquireLock, ValidateOperation,
         RunGit, TakeSnapshot, FinishOperation, PublishSnapshot
    <3>3. \A q \in Operations \ {o} : op'[q] = op[q]
      BY <1>2, <2>2 DEF OperationStep, Prepare, RefuseOperation, AcquireLock, ValidateOperation,
         RunGit, TakeSnapshot, FinishOperation, PublishSnapshot, Goto, End, TypeOK
    <3>4. Using(o)' => Using(o) /\ op'[o].lock = op[o].lock /\ op'[o].path = op[o].path
      <4>1. CASE \E p \in Projects : Prepare(o, p)
        BY <4>1 DEF Prepare, Using, Inside, TypeOK
      <4>2. CASE RefuseOperation(o) \/ AcquireLock(o) \/ ValidateOperation(o) \/ FinishOperation(o)
        BY <4>2, <3>1 DEF RefuseOperation, AcquireLock, ValidateOperation, FinishOperation, Goto,
           End, Done, Using, Inside, TypeOK, Ops, Places
      <4>3. CASE RunGit(o)
        BY <4>3, <3>1 DEF RunGit, Goto, Using, Inside, TypeOK, Ops, Places
      <4>4. CASE TakeSnapshot(o) \/ PublishSnapshot(o)
        BY <4>4, <3>1 DEF TakeSnapshot, PublishSnapshot, Goto, End, Done, Using, Inside, TypeOK,
           Ops, Places
      <4>5. QED
        BY <1>2, <2>2, <4>1, <4>2, <4>3, <4>4 DEF OperationStep
    <3>5. Inside(o)' => \/ Inside(o)
                        \/ \A q \in Operations : Inside(q) => op[q].lock # op[o].lock
      BY <1>2, <2>2, <3>1 DEF OperationStep, Prepare, RefuseOperation, AcquireLock,
         ValidateOperation, RunGit, TakeSnapshot, FinishOperation, PublishSnapshot, Goto, End,
         Done, Inside, TypeOK
    <3>6. QED
      BY <3>2, <3>3, <3>4, <3>5, LocksStay
  <2>3. QED
    BY <2>1, <2>2
<1>3. QED
  BY <1>1, <1>2 DEF Next, vars, RefreshProject, RemoveProject, RelocateProject, OtherProgram

-----------------------------------------------------------------------------
\* Locations

\* Every step preserves that checked operations and caches name the recorded
\* location, unless the project was moved in between.
LEMMA StepCache ==
  ASSUME GitInv, TypeOK', [Next]_vars
  PROVE  ChecksHold' /\ CacheIsOfTheRecordedPath'
<1> USE DEF GitInv
<1>1. CASE UNCHANGED <<path, cache, op, moved>>
  BY <1>1 DEF ChecksHold, CacheIsOfTheRecordedPath
<1>2. ASSUME NEW o \in Operations, OperationStep(o) \/ \E p \in Projects : Prepare(o, p)
      PROVE  ChecksHold' /\ CacheIsOfTheRecordedPath'
  <2>1. op[o].at \in Places => op[o] \in Ops
    BY BegunType
  <2>2. path' = path /\ moved' = moved /\ \A q \in Operations \ {o} : op'[q] = op[q]
    BY <1>2 DEF OperationStep, Prepare, RefuseOperation, FindLock, AcquireLock, ValidateOperation,
       RunGit, TakeSnapshot, FinishOperation, PublishSnapshot, Goto, End, TypeOK
  <2>3. op'[o].at = "checked" => FinishOperation(o) /\ Unmoved(o)
    BY <1>2, <2>1 DEF OperationStep, Prepare, RefuseOperation, FindLock, AcquireLock,
       ValidateOperation, RunGit, TakeSnapshot, FinishOperation, PublishSnapshot, Goto, End, Done,
       TypeOK, Ops, Places
  <2>4. ChecksHold'
    <3>1. CASE op'[o].at = "checked"
      <4>1. op[o] \in Ops /\ Unmoved(o)
        BY <3>1, <2>1, <2>3 DEF FinishOperation, Places
      <4>2. op'[o].project = op[o].project /\ op'[o].path = op[o].path
        BY <3>1, <2>3, <4>1 DEF FinishOperation, Goto, End, Done, TypeOK, Ops
      <4>3. QED
        BY <2>2, <4>1, <4>2 DEF ChecksHold, Unmoved
    <3>2. CASE op'[o].at # "checked"
      BY <3>2, <2>2 DEF ChecksHold
    <3>3. QED
      BY <3>1, <3>2
  <2>5. CacheIsOfTheRecordedPath'
    <3>1. CASE cache' = cache
      BY <3>1, <2>2 DEF CacheIsOfTheRecordedPath
    <3>2. CASE cache' # cache
      <4>1. PublishSnapshot(o)
        BY <1>2, <3>2 DEF OperationStep, Prepare, RefuseOperation, FindLock, AcquireLock,
           ValidateOperation, RunGit, TakeSnapshot, FinishOperation
      <4>2. op[o] \in Ops
        BY <4>1, <2>1 DEF PublishSnapshot, Places
      <4>3. /\ path[op[o].project] # NoPath
            /\ cache' = [cache EXCEPT ![op[o].project] = [path |-> op[o].path, seen |-> op[o].seen]]
        BY <4>1, <3>2 DEF PublishSnapshot, Recorded
      <4>4. path[op[o].project] = op[o].path \/ op[o].project \in moved
        BY <4>1, <4>3 DEF PublishSnapshot, ChecksHold
      <4>5. QED
        BY <2>2, <4>2, <4>3, <4>4 DEF CacheIsOfTheRecordedPath, TypeOK, Ops
    <3>3. QED
      BY <3>1, <3>2
  <2>6. QED
    BY <2>4, <2>5
<1>3. ASSUME NEW p \in Projects, RefreshProject(p)
      PROVE  ChecksHold' /\ CacheIsOfTheRecordedPath'
  <2>1. PICK snapshot \in Snapshots(path[p]) : cache' = [cache EXCEPT ![p] = snapshot]
    BY <1>3 DEF RefreshProject
  <2>2. CacheIsOfTheRecordedPath'
    BY <1>3, <2>1 DEF RefreshProject, CacheIsOfTheRecordedPath, TypeOK, Snapshots
  <2>3. QED
    BY <1>3, <2>2 DEF RefreshProject, ChecksHold
<1>4. ASSUME NEW p \in Projects, RemoveProject(p)
      PROVE  ChecksHold' /\ CacheIsOfTheRecordedPath'
  BY <1>4 DEF RemoveProject, RemoveRecord, ChecksHold, CacheIsOfTheRecordedPath, TypeOK,
     CheckoutsTypeOK
<1>5. ASSUME NEW p \in Projects, NEW d \in Paths, RelocateProject(p, d)
      PROVE  ChecksHold' /\ CacheIsOfTheRecordedPath'
  <2>1. /\ path' = [path EXCEPT ![p] = d]
        /\ \E snapshot \in Snapshots(d) : cache' = [cache EXCEPT ![p] = snapshot]
        /\ op' = op
        /\ moved \subseteq moved'
    BY <1>5 DEF RelocateProject, Relocate
  <2>2. \A o \in Operations : op[o].at = "checked" /\ op[o].project = p => p \in moved'
    BY <1>5 DEF RelocateProject
  <2>3. ChecksHold'
    BY <2>1, <2>2 DEF ChecksHold, TypeOK, CheckoutsTypeOK
  <2>4. CacheIsOfTheRecordedPath'
    BY <2>1 DEF CacheIsOfTheRecordedPath, TypeOK, CheckoutsTypeOK, Snapshots
  <2>5. QED
    BY <2>3, <2>4
<1>6. QED
  BY <1>1, <1>2, <1>3, <1>4, <1>5 DEF Next, vars, OtherProgram, ChangeRepository

-----------------------------------------------------------------------------
\* Snapshots

\* No step takes a version back.
LEMMA VersionsGrow ==
  ASSUME TypeOK, TypeOK', [Next]_vars
  PROVE  \A r \in Roots : /\ version[r] \in Nat
                         /\ version'[r] \in Nat
                         /\ version'[r] >= version[r]
<1> USE DEF TypeOK, CheckoutsTypeOK, Versions
<1>1. CASE version' = version
  BY <1>1
<1>2. CASE version' # version
  <2>1. \E r \in Roots : version' = [version EXCEPT ![r] = @ + 1]
    <3>1. CASE \E o \in Operations : RunGit(o)
      <4>1. PICK o \in Operations : RunGit(o)
        BY <3>1
      <4>2. Repository(o) \in Roots
        BY <4>1, BegunType DEF RunGit, Places
      <4>3. QED
        BY <1>2, <4>1, <4>2 DEF RunGit, Repository
    <3>2. CASE \E r \in Roots : OtherProgram(r)
      BY <3>2 DEF OtherProgram, ChangeRepository
    <3>3. QED
      BY <1>2, <3>1, <3>2 DEF Next, vars, OperationStep, Prepare, RefuseOperation, FindLock,
         AcquireLock, ValidateOperation, TakeSnapshot, FinishOperation, PublishSnapshot,
         RefreshProject, RemoveProject, RemoveRecord, RelocateProject, Relocate
  <2>2. QED
    BY <2>1
<1>3. QED
  BY <1>1, <1>2

\* How a step of o changes what o knows: o was prepared, or ran, or took a
\* snapshot, or kept what it had and ended, or moved to a later place.
LEMMA OperationKnows ==
  ASSUME TypeOK, TypeOK', NEW o \in Operations,
         OperationStep(o) \/ \E p \in Projects : Prepare(o, p),
         op'[o].at \in Places
  PROVE  \/ op'[o].at = "prepared" /\ op'[o].made = 0
         \/ /\ op[o].at \in Places \ {"published"}
            /\ op'[o].path = op[o].path
            /\ \/ op'[o].at = "ran" /\ op'[o].made = version'[Repository(o)]
               \/ /\ op'[o].at = "executed"
                  /\ op'[o].made = op[o].made
                  /\ op'[o].seen \in {version[Repository(o)], NoSnapshot}
               \/ /\ op'[o].at \notin {"executed", "checked", "published"}
                  /\ op'[o].made = op[o].made
               \/ /\ op[o].at = "executed" /\ op'[o].at = "checked" /\ op[o].seen # NoSnapshot
                  /\ op'[o].made = op[o].made /\ op'[o].seen = op[o].seen
               \/ /\ PublishSnapshot(o) /\ op'[o].at = "published"
                  /\ op'[o].made = op[o].made /\ op'[o].seen = op[o].seen
<1>1. CASE \E p \in Projects : Prepare(o, p)
  BY <1>1 DEF Prepare, TypeOK
<1>2. CASE OperationStep(o)
  <2>1. op[o].at \in Places \ {"published"}
    BY <1>2 DEF OperationStep, RefuseOperation, FindLock, AcquireLock, ValidateOperation, RunGit,
       TakeSnapshot, FinishOperation, PublishSnapshot, Places
  <2>2. op[o] \in Ops /\ Repository(o) \in Roots
    BY <2>1, BegunType
  <2> USE DEF Goto, End, Done, Places, Ops, TypeOK
  <2>3. CASE RunGit(o)
    BY <2>3, <2>1, <2>2 DEF RunGit, Repository, CheckoutsTypeOK
  <2>4. CASE TakeSnapshot(o)
    BY <2>4, <2>1, <2>2 DEF TakeSnapshot, RepositoryOf, Repository
  <2>5. CASE FindLock(o)
    BY <2>5, <2>1, <2>2 DEF FindLock
  <2>6. CASE RefuseOperation(o) \/ AcquireLock(o) \/ ValidateOperation(o)
    BY <2>6, <2>1, <2>2 DEF RefuseOperation, AcquireLock, ValidateOperation
  <2>7. CASE FinishOperation(o)
    BY <2>7, <2>1, <2>2 DEF FinishOperation
  <2>8. CASE PublishSnapshot(o)
    BY <2>8, <2>1, <2>2 DEF PublishSnapshot
  <2>9. QED
    BY <1>2, <2>3, <2>4, <2>5, <2>6, <2>7, <2>8 DEF OperationStep
<1>3. QED
  BY <1>1, <1>2

\* A step of o preserves that snapshots are recent.  A published operation was
\* alone in its repository, so that no other has a snapshot from before it.
LEMMA OperationRecent ==
  ASSUME GitInv, TypeOK', [Next]_vars, NEW o \in Operations,
         OperationStep(o) \/ \E p \in Projects : Prepare(o, p)
  PROVE  SnapshotsAreRecent'
<1> USE DEF GitInv
<1>1. \A q \in Operations \ {o} : op'[q] = op[q]
  BY DEF OperationStep, Prepare, RefuseOperation, FindLock, AcquireLock, ValidateOperation,
     RunGit, TakeSnapshot, FinishOperation, PublishSnapshot, Goto, End, TypeOK
<1>2. \A q \in Operations : op[q].at \in Places => Repository(q) \in Roots /\ op[q].made \in Nat
  BY BegunType DEF Versions
<1>3. \A q \in Operations : op'[q].at \in Places =>
        /\ op'[q].path \in Paths
        /\ op'[q].made \in Nat
        /\ op'[q].seen \in Nat \cup {NoSnapshot}
  BY DEF TypeOK, Idle, Done, Places, Ops, Versions
<1>4. \A r \in Roots : version[r] \in Nat /\ version'[r] \in Nat /\ version'[r] >= version[r]
  BY VersionsGrow
<1>5. \A q \in Operations : op'[q].at \in Places => version'[Repository(q)'] >= op'[q].made
  <2> SUFFICES ASSUME NEW q \in Operations, op'[q].at \in Places
               PROVE  version'[RootOf[op'[q].path]] >= op'[q].made
    BY DEF Repository
  <2>1. CASE q # o
    <3>1. version[Repository(q)] >= op[q].made /\ Repository(q) \in Roots /\ op[q].made \in Nat
      BY <2>1, <1>1, <1>2 DEF SnapshotsAreRecent
    <3>2. QED
      BY <2>1, <3>1, <1>1, <1>4 DEF Repository
  <2>2. CASE q = o
    <3>1. RootOf[op'[o].path] \in Roots
      BY <2>2, <1>3
    <3>2. CASE op'[o].made = 0
      BY <2>2, <3>1, <3>2, <1>4
    <3>3. CASE op[o].at \in Places /\ op'[o].path = op[o].path /\ op'[o].made = op[o].made
      <4>1. version[Repository(o)] >= op[o].made /\ Repository(o) \in Roots /\ op[o].made \in Nat
        BY <3>3, <1>2 DEF SnapshotsAreRecent
      <4>2. QED
        BY <2>2, <3>3, <4>1, <1>4 DEF Repository
    <3>4. CASE op'[o].path = op[o].path /\ op'[o].made = version'[Repository(o)]
      BY <2>2, <3>1, <3>4, <1>4 DEF Repository
    <3>5. QED
      BY <2>2, <3>2, <3>3, <3>4, OperationKnows
  <2>3. QED
    BY <2>1, <2>2
<1>6. \A q \in Operations : WithSnapshot(q)' => op'[q].seen >= op'[q].made
  <2> SUFFICES ASSUME NEW q \in Operations, WithSnapshot(q)' PROVE op'[q].seen >= op'[q].made
    OBVIOUS
  <2>1. CASE q # o
    BY <2>1, <1>1 DEF SnapshotsAreRecent, WithSnapshot
  <2>2. CASE q = o
    <3>1. op'[o].at \in Places
      BY <2>2 DEF WithSnapshot, Places
    <3>2. CASE /\ op[o].at \in Places /\ op'[o].made = op[o].made
               /\ op'[o].seen = version[Repository(o)]
      BY <2>2, <3>2 DEF SnapshotsAreRecent
    <3>3. CASE WithSnapshot(o) /\ op'[o].made = op[o].made /\ op'[o].seen = op[o].seen
      BY <2>2, <3>3 DEF SnapshotsAreRecent
    <3>4. PublishSnapshot(o) => WithSnapshot(o)
      BY DEF PublishSnapshot, WithSnapshot, SnapshotsAreRecent
    <3>5. QED
      BY <2>2, <3>1, <3>2, <3>3, <3>4, OperationKnows DEF WithSnapshot, Places
  <2>3. QED
    BY <2>1, <2>2
<1>7. ASSUME NEW x \in Operations, NEW q \in Operations, WithSnapshot(x)',
             op'[x].at # "published", op'[q].at = "published", Repository(x)' = Repository(q)'
      PROVE  op'[x].seen >= op'[q].made
  <2>1. x # q
    BY <1>7
  <2>2. CASE x # o /\ q # o
    BY <1>7, <2>2, <1>1 DEF SnapshotsAreRecent, WithSnapshot, Repository
  <2>3. CASE x = o
    <3>1. op'[o].at \in Places /\ op'[q] = op[q] /\ q # o
      BY <1>7, <2>1, <2>3, <1>1 DEF WithSnapshot, Places
    <3>2. op[o].at \in Places /\ Repository(o) = Repository(q) /\ op[q].at = "published"
      BY <1>7, <2>3, <3>1, OperationKnows DEF WithSnapshot, Repository
    <3>3. CASE op'[o].seen = version[Repository(o)]
      BY <2>3, <3>1, <3>2, <3>3 DEF SnapshotsAreRecent, Places
    <3>4. CASE WithSnapshot(o) /\ op[o].at # "published" /\ op'[o].seen = op[o].seen
      BY <2>3, <3>1, <3>2, <3>4 DEF SnapshotsAreRecent
    <3>5. QED
      BY <1>7, <2>3, <3>1, <3>3, <3>4, OperationKnows DEF WithSnapshot, Places
  <2>4. CASE q = o
    <3>1. PublishSnapshot(o) /\ op'[o].path = op[o].path
      BY <1>7, <2>4, OperationKnows DEF Places
    <3>2. op'[x] = op[x] /\ Inside(x) /\ Inside(o) /\ Repository(x) = Repository(o)
      BY <1>7, <2>1, <2>4, <3>1, <1>1 DEF WithSnapshot, Inside, PublishSnapshot, Repository
    <3>3. x = o
      BY <3>2, OneLock DEF OneOperationPerRepository, Repository
    <3>4. QED
      BY <2>1, <2>4, <3>3
  <2>5. QED
    BY <2>2, <2>3, <2>4
<1>8. \A q \in Operations : op'[q].at = "checked" => op'[q].seen # NoSnapshot
  BY <1>1, OperationKnows DEF SnapshotsAreRecent, Places
<1>9. QED
  BY <1>5, <1>6, <1>7, <1>8 DEF SnapshotsAreRecent

\* Every step preserves that snapshots are recent.
LEMMA StepRecent ==
  ASSUME GitInv, TypeOK', [Next]_vars
  PROVE  SnapshotsAreRecent'
<1>1. CASE op' = op
  <2>1. \A r \in Roots : version[r] \in Nat /\ version'[r] \in Nat /\ version'[r] >= version[r]
    BY VersionsGrow DEF GitInv
  <2>2. \A o \in Operations : op[o].at \in Places => Repository(o) \in Roots /\ op[o].made \in Nat
    BY BegunType DEF GitInv, Versions
  <2>3. \A o \in Operations : op[o].at \in Places => version'[Repository(o)] >= op[o].made
    <3> SUFFICES ASSUME NEW o \in Operations, op[o].at \in Places
                 PROVE  version'[Repository(o)] >= op[o].made
      OBVIOUS
    <3>1. version[Repository(o)] >= op[o].made
      BY DEF GitInv, SnapshotsAreRecent
    <3>2. QED
      BY <2>1, <2>2, <3>1
  <2>4. QED
    BY <1>1, <2>3 DEF GitInv, SnapshotsAreRecent, WithSnapshot, Repository
<1>2. CASE \E o \in Operations : OperationStep(o) \/ \E p \in Projects : Prepare(o, p)
  BY <1>2, OperationRecent
<1>3. QED
  BY <1>1, <1>2 DEF Next, vars, RefreshProject, RemoveProject, RelocateProject, OtherProgram

\* A snapshot of the present state shows what every operation did there.
LEMMA FreshSnapshotShows ==
  ASSUME GitInv, NEW p \in Projects, NEW d \in Paths, op' = op,
         \E snapshot \in Snapshots(d) : cache' = [cache EXCEPT ![p] = snapshot]
  PROVE  FinishedOperationsStayVisible'
<1> USE DEF GitInv
<1> SUFFICES ASSUME NEW o \in Operations, op'[o].at = "published",
                    cache'[op'[o].project] # NoCache, cache'[op'[o].project].path = op'[o].path
             PROVE  cache'[op'[o].project].seen >= op'[o].made
  BY DEF FinishedOperationsStayVisible
<1>1. op[o].project \in Projects /\ op[o].at \in Places
  BY BegunType DEF Places
<1>2. CASE op[o].project = p
  BY <1>1, <1>2 DEF TypeOK, SnapshotsAreRecent, Snapshots, RepositoryOf, Repository
<1>3. CASE op[o].project # p
  BY <1>1, <1>3 DEF TypeOK, FinishedOperationsStayVisible
<1>4. QED
  BY <1>2, <1>3

\* The snapshot that an operation publishes shows what it did, and what the
\* operations published before did at the same place.
LEMMA PublishedSnapshotShows ==
  ASSUME GitInv, NEW o \in Operations, PublishSnapshot(o)
  PROVE  FinishedOperationsStayVisible'
<1> USE DEF GitInv
<1>1. op[o] \in Ops /\ op[o].project \in Projects /\ op[o].at = "checked"
  BY BegunType DEF PublishSnapshot, Places
<1>2. \A q \in Operations \ {o} : op'[q] = op[q]
  BY DEF PublishSnapshot, Goto, End, TypeOK
<1>3. CASE cache' = cache /\ op'[o].at # "published"
  BY <1>2, <1>3 DEF FinishedOperationsStayVisible
<1>4. CASE /\ cache' = [cache EXCEPT ![op[o].project] = [path |-> op[o].path, seen |-> op[o].seen]]
           /\ op' = [op EXCEPT ![o].at = "published"]
  <2> SUFFICES ASSUME NEW q \in Operations, op'[q].at = "published",
                      cache'[op'[q].project] # NoCache, cache'[op'[q].project].path = op'[q].path
               PROVE  cache'[op'[q].project].seen >= op'[q].made
    BY DEF FinishedOperationsStayVisible
  <2>1. WithSnapshot(o)
    BY <1>1 DEF WithSnapshot, SnapshotsAreRecent
  <2>2. cache'[op[o].project] = [path |-> op[o].path, seen |-> op[o].seen]
    BY <1>1, <1>4 DEF TypeOK
  <2>3. CASE q = o
    <3>1. op'[o].project = op[o].project /\ op'[o].made = op[o].made
      BY <1>1, <1>4 DEF TypeOK, Ops
    <3>2. QED
      BY <2>1, <2>2, <2>3, <3>1 DEF SnapshotsAreRecent
  <2>4. CASE q # o /\ op[q].project = op[o].project
    <3>1. op'[q] = op[q] /\ Repository(o) = Repository(q)
      BY <1>2, <2>2, <2>4 DEF Repository
    <3>2. QED
      BY <1>1, <2>1, <2>2, <2>4, <3>1 DEF SnapshotsAreRecent
  <2>5. CASE q # o /\ op[q].project # op[o].project
    <3>1. op'[q] = op[q] /\ op[q].project \in Projects
      BY <1>2, <2>5, BegunType DEF Places
    <3>2. cache'[op[q].project] = cache[op[q].project]
      BY <1>4, <2>5, <3>1 DEF TypeOK
    <3>3. QED
      BY <3>1, <3>2 DEF FinishedOperationsStayVisible
  <2>6. QED
    BY <2>3, <2>4, <2>5
<1>5. QED
  BY <1>1, <1>3, <1>4 DEF PublishSnapshot, Goto, End, Done, TypeOK

\* Every step keeps what operations did visible.
LEMMA StepVisible ==
  ASSUME GitInv, TypeOK', [Next]_vars
  PROVE  FinishedOperationsStayVisible'
<1> USE DEF GitInv
<1>1. CASE UNCHANGED <<op, cache>>
  BY <1>1 DEF FinishedOperationsStayVisible
<1>2. ASSUME NEW o \in Operations, OperationStep(o) \/ \E p \in Projects : Prepare(o, p)
      PROVE  FinishedOperationsStayVisible'
  <2>1. CASE PublishSnapshot(o)
    BY <2>1, PublishedSnapshotShows
  <2>2. CASE ~ PublishSnapshot(o)
    <3>1. cache' = cache
      BY <1>2, <2>2 DEF OperationStep, Prepare, RefuseOperation, FindLock, AcquireLock,
         ValidateOperation, RunGit, TakeSnapshot, FinishOperation
    <3>2. \A q \in Operations \ {o} : op'[q] = op[q]
      BY <1>2 DEF OperationStep, Prepare, RefuseOperation, FindLock, AcquireLock,
         ValidateOperation, RunGit, TakeSnapshot, FinishOperation, PublishSnapshot, Goto, End, TypeOK
    <3>3. op'[o].at # "published"
      BY <1>2, <2>2, OperationKnows DEF Places
    <3>4. QED
      BY <3>1, <3>2, <3>3 DEF FinishedOperationsStayVisible
  <2>3. QED
    BY <2>1, <2>2
<1>3. ASSUME NEW p \in Projects, RefreshProject(p)
      PROVE  FinishedOperationsStayVisible'
  BY <1>3, FreshSnapshotShows DEF RefreshProject, Recorded, TypeOK, CheckoutsTypeOK
<1>4. ASSUME NEW p \in Projects, RemoveProject(p)
      PROVE  FinishedOperationsStayVisible'
  <2>1. op' = op /\ cache' = [cache EXCEPT ![p] = NoCache]
    BY <1>4 DEF RemoveProject
  <2>2. \A q \in Operations : cache'[op[q].project] # NoCache => cache'[op[q].project] = cache[op[q].project]
    BY <2>1 DEF TypeOK
  <2>3. QED
    BY <2>1, <2>2 DEF FinishedOperationsStayVisible
<1>5. ASSUME NEW p \in Projects, NEW d \in Paths, RelocateProject(p, d)
      PROVE  FinishedOperationsStayVisible'
  BY <1>5, FreshSnapshotShows DEF RelocateProject
<1>6. QED
  BY <1>1, <1>2, <1>3, <1>4, <1>5 DEF Next, vars, OtherProgram

-----------------------------------------------------------------------------
\* The invariant, and what follows from it

\* The invariant is inductive.
LEMMA StepInv == GitInv /\ [Next]_vars => GitInv'
<1> SUFFICES ASSUME GitInv, [Next]_vars PROVE GitInv'
  OBVIOUS
<1>1. TypeOK'
  <2>1. CASE UNCHANGED vars
    BY <2>1 DEF vars, GitInv, TypeOK, CheckoutsTypeOK
  <2>2. QED
    BY <2>1, OperationType, OtherType DEF Next, GitInv
<1>2. QED
  BY <1>1, StepLocks, StepCache, StepRecent, StepVisible DEF GitInv

\* The invariant of Git operations (execute_git_operation and everybody else).
THEOREM GitInvariant == Spec => []GitInv
<1>1. Init => GitInv
  BY InitInv
<1>2. GitInv /\ [Next]_vars => GitInv'
  BY StepInv
<1>3. QED
  BY <1>1, <1>2, PTL DEF Spec

\* The lock of execute_git_operation excludes: no two operations are at work in
\* one repository, although the table of locks forgets the unused ones.
THEOREM RepositoryExclusion == Spec => []OneOperationPerRepository
<1>1. GitInv => OneOperationPerRepository
  BY OneLock
<1>2. QED
  BY <1>1, GitInvariant, PTL

\* The cached state is that of the recorded location, unless another client moved
\* the project between the last check of finish_git_operation and its UPDATE.
THEOREM CachedLocation == Spec => []CacheIsOfTheRecordedPath
<1>1. GitInv => CacheIsOfTheRecordedPath
  BY DEF GitInv
<1>2. QED
  BY <1>1, GitInvariant, PTL

\* No snapshot hides what an operation that was published before it did.
THEOREM OwnWorkStaysVisible == Spec => []FinishedOperationsStayVisible
<1>1. GitInv => FinishedOperationsStayVisible
  BY DEF GitInv
<1>2. QED
  BY <1>1, GitInvariant, PTL
=============================================================================
