--------------------------- MODULE ParamExec_proofs ---------------------------
(***************************************************************************)
(* Theorems about ParamExec, for arrays, batches and data dialogues of any *)
(* size and any number of executions and of calls of SQLCancel.            *)
(***************************************************************************)
EXTENDS ParamExec, FiniteSetTheorems, SequenceTheorems, TLAPS

-----------------------------------------------------------------------------
(* The types of what the actions assign to the handle.                     *)

LEMMA Numbers ==
    /\ None \in None .. MaxRows /\ None \in None .. Params /\ None \in None .. Params - 1
    /\ 0 \in None .. MaxRows /\ 0 \in Rows /\ Params \in None .. Params
    /\ Rows \subseteq None .. MaxRows /\ \A r \in Rows : r + 1 \in None .. MaxRows
    /\ None \in Int
  BY ArrayAssumption DEF None, Rows

LEMMA NoDataType == NoData \in Data
  <1>1. << >> \in Seq(Chunk)
    OBVIOUS
  <1> QED BY <1>1 DEF NoData, Data

LEMMA FreedType ==
    ASSUME NEW h \in Handle
    PROVE  /\ FreeData(h) \in Handle /\ Recycle(h) \in Handle
           /\ \A c \in None .. MaxRows : [FreeData(h) EXCEPT !.current = c] \in Handle
  <1>1. FreeData(h) \in Handle
    BY NoDataType, Numbers DEF FreeData, Handle
  <1>2. [FreeData(h) EXCEPT !.status = "ready"] \in Handle
    BY <1>1 DEF Handle
  <1>3. \A c \in None .. MaxRows : [FreeData(h) EXCEPT !.current = c] \in Handle
    BY <1>1 DEF Handle
  <1> QED BY <1>1, <1>2, <1>3 DEF Recycle

LEMMA FirstRowType ==
    ASSUME NEW h \in Handle, NEW n \in 1 .. MaxRows
    PROVE  FirstRow(h, n) \in Handle /\ HowToPrepare(h, n) \in {"none", "driver", "server"}
  <1>1. HowToPrepare(h, n) \in {"none", "driver", "server"}
    BY DEF HowToPrepare, Handle
  <1>2. ExecType(HowToPrepare(h, n), h, n) \in {"direct", "deferred"}
    BY DEF ExecType
  <1>3. Recycle(h) \in Handle
    BY FreedType
  <1> QED BY <1>1, <1>2, <1>3, Numbers DEF FirstRow, Handle

LEMMA ExecutedIn ==
    ASSUME NEW h \in Handle
    PROVE  Executed(h) \in Handle
  <1>1. << >> \in Seq(Row)
    OBVIOUS
  <1> QED BY <1>1 DEF Executed, Handle

LEMMA ExecutedType ==
    ASSUME NEW h \in Handle
    PROVE  \A c \in None .. MaxRows : [Executed(h) EXCEPT !.current = c] \in Handle
  BY ExecutedIn DEF Handle

-----------------------------------------------------------------------------
(* Where the calls stand.                                                  *)

\* Where the row loop and the data dialogue are in the array and in the
\* parameters of the row.
Positions ==
    /\ call.pc = "row" => handle.current >= 0
    /\ call.pc = "resolve" => handle.current \in Rows
    /\ Idle /\ dm # "idle" => /\ handle.current \in Rows
                              /\ handle.dae >= 0 /\ handle.dae + handle.param = Params - 1
    /\ Idle /\ dm \in {"must", "can"} => handle.param >= 0

\* The type invariant, strengthened by the positions the increments rely on.
TypedPositions == TypeOK /\ Positions

LEMMA InitTyped == Init => TypedPositions
  <1> SUFFICES ASSUME Init PROVE TypedPositions
    OBVIOUS
  <1>1. handle \in Handle
    BY NoDataType, Numbers DEF Init, Handle
  <1>2. app \in App
    BY ArrayAssumption DEF Init, App
  <1>3. call \in CallRec /\ effect \in Seq(Row)
    BY DEF Init, CallRec
  <1>4. given \in [Rows -> [Pars -> 0 .. MaxChunks]]
    BY ArrayAssumption DEF Init
  <1> QED BY <1>1, <1>2, <1>3, <1>4, ArrayAssumption DEF Init, TypedPositions, TypeOK, Positions, Idle, Status

LEMMA CallTypes ==
    ASSUME call \in CallRec
    PROVE  /\ \A r \in {"none", "success", "error", "needdata"} :
                 /\ [call EXCEPT !.pc = "idle", !.msg = << >>, !.ret = r] \in CallRec
                 /\ [call EXCEPT !.pc = "idle", !.ret = r] \in CallRec
                 /\ [call EXCEPT !.ret = r] \in CallRec
           /\ \A pc \in {"row", "resolve"} :
                 /\ [call EXCEPT !.pc = pc] \in CallRec
                 /\ [call EXCEPT !.pc = pc, !.msg = << >>] \in CallRec
                 /\ \A by \in {"execute", "paramdata"} :
                       [call EXCEPT !.pc = pc, !.by = by, !.ret = "none"] \in CallRec
           /\ \A kind \in {"direct", "batch", "last"} : \A msg \in Seq(Row) :
                 [call EXCEPT !.pc = "server", !.kind = kind, !.msg = msg] \in CallRec
  <1>0. << >> \in Seq(Row)
    OBVIOUS
  <1>1. \A r \in {"none", "success", "error", "needdata"} :
           /\ [call EXCEPT !.pc = "idle", !.msg = << >>, !.ret = r] \in CallRec
           /\ [call EXCEPT !.pc = "idle", !.ret = r] \in CallRec
           /\ [call EXCEPT !.ret = r] \in CallRec
    BY <1>0 DEF CallRec
  <1>2. \A pc \in {"row", "resolve"} :
           /\ [call EXCEPT !.pc = pc] \in CallRec
           /\ [call EXCEPT !.pc = pc, !.msg = << >>] \in CallRec
    BY <1>0 DEF CallRec
  <1>3. \A pc \in {"row", "resolve"} : \A by \in {"execute", "paramdata"} :
           [call EXCEPT !.pc = pc, !.by = by, !.ret = "none"] \in CallRec
    BY DEF CallRec
  <1>4. \A kind \in {"direct", "batch", "last"} : \A msg \in Seq(Row) :
           [call EXCEPT !.pc = "server", !.kind = kind, !.msg = msg] \in CallRec
    BY DEF CallRec
  <1> QED BY <1>1, <1>2, <1>3, <1>4

LEMMA CallField == call \in CallRec => "pc" \in DOMAIN call
  BY DEF CallRec

LEMMA RowType ==
    ASSUME TypeOK, handle.current \in Rows
    PROVE  TheRow \in Row
  BY NoDataType DEF TheRow, Row, TypeOK, Handle

LEMMA BetweenTyped ==
    ASSUME TypedPositions, Prepare \/ Close \/ ResetParams
    PROVE  TypedPositions'
  <1> USE DEF TypedPositions
  <1>1. handle' \in Handle
    <2>1. Recycle(handle) \in Handle
      BY FreedType DEF TypeOK
    <2>2. CASE Prepare
      <3> DEFINE h == IF handle.status = "finished" THEN Recycle(handle) ELSE handle
      <3>1. h \in Handle
        BY <2>1 DEF TypeOK
      <3>2. [InitializeStmts(h) EXCEPT !.prepare = TRUE, !.status = "ready"] \in Handle
        BY <3>1 DEF InitializeStmts, Handle
      <3> QED BY <2>2, <3>2 DEF Prepare
    <2>3. CASE Close
      BY <2>1, <2>3 DEF Close
    <2>4. CASE ResetParams
      BY <2>4, FreedType, Numbers DEF ResetParams, TypeOK
    <2> QED BY <2>2, <2>3, <2>4
  <1>2. call' = call /\ dm' = "idle" /\ Idle /\ dm = "idle"
    BY DEF Prepare, Close, ResetParams
  <1> QED BY <1>1, <1>2 DEF TypeOK, Positions, Idle, Prepare, Close, ResetParams

LEMMA StartsTyped ==
    ASSUME TypedPositions, Execute \/ ExecDirect
    PROVE  TypedPositions'
  <1> USE DEF TypedPositions
  <1>1. PICK h \in Handle : StartRows(h) \/ ParametersUnknown(h)
    <2>1. Recycle(handle) \in Handle
      BY FreedType DEF TypeOK
    <2>2. CASE Execute
      <3>1. ExecuteHandle(handle) \in Handle
        BY <2>1, Numbers DEF ExecuteHandle, Handle, TypeOK
      <3> QED BY <2>2, <3>1 DEF Execute
    <2>3. CASE ExecDirect
      <3>1. InitializeStmts(handle) \in Handle
        BY DEF InitializeStmts, Handle, TypeOK
      <3>2. Recycle(InitializeStmts(handle)) \in Handle
        BY <3>1, FreedType
      <3> QED BY <2>3, <3>2 DEF ExecDirect
    <2> QED BY <2>2, <2>3
  <1>2. Idle /\ dm = "idle" /\ exec < MaxExecs
    BY DEF Execute, ExecDirect, MayExecute
  <1>3. CASE StartRows(h)
    <2>1. app' \in App
      BY <1>3 DEF StartRows, Arrays
    <2>2. handle' \in Handle /\ handle'.current >= 0
      <3>1. CASE h.current > 0
        <4>1. handle' = h
          BY <1>3, <3>1 DEF StartRows
        <4> QED BY <3>1, <4>1, ArrayAssumption DEF Handle, None
      <3>2. CASE ~(h.current > 0)
        <4>1. app'.n \in 1 .. MaxRows
          BY <2>1 DEF App
        <4>2. handle' = FirstRow(h, app'.n)
          BY <1>3, <3>2 DEF StartRows
        <4>3. FirstRow(h, app'.n).current = 0
          <5>1. Recycle(h) \in Handle
            BY FreedType
          <5> QED BY <5>1 DEF FirstRow, Handle
        <4> QED BY <4>1, <4>2, <4>3, FirstRowType
      <3> QED BY <3>1, <3>2
    <2>3. call' \in CallRec /\ call'.pc = "row"
      BY <1>3, CallTypes, CallField DEF StartRows, TypeOK
    <2>4. pstat' \in [Rows -> Status]
      BY <1>3 DEF StartRows, TypeOK, Status
    <2>5. given' \in [Rows -> [Pars -> 0 .. MaxChunks]]
      BY <1>3, ArrayAssumption DEF StartRows
    <2>6. exec' \in 0 .. MaxExecs
      BY <1>2, <1>3, ArrayAssumption DEF StartRows, TypeOK
    <2>7. dm' = dm
      BY <1>3, <1>2 DEF Execute, ExecDirect, StartRows
    <2> QED BY <1>3, <2>1, <2>2, <2>3, <2>4, <2>5, <2>6, <2>7 DEF StartRows, TypeOK, Positions, Idle
  <1>4. CASE ParametersUnknown(h)
    <2>1. handle' \in Handle
      <3>1. PICK a \in App :
               handle' = [(IF h.status = "finished" THEN Recycle(h) ELSE h)
                          EXCEPT !.current = 0, !.method = HowToPrepare(h, a.n)]
        BY <1>4 DEF ParametersUnknown, Arrays
      <3>2. a.n \in 1 .. MaxRows
        BY DEF App
      <3>3. HowToPrepare(h, a.n) \in {"none", "driver", "server"}
        BY <3>2, FirstRowType
      <3>4. Recycle(h) \in Handle
        BY FreedType
      <3> QED BY <3>1, <3>3, <3>4, Numbers DEF Handle
    <2>2. call' \in CallRec /\ call'.pc = call.pc
      BY <1>4, CallTypes, CallField DEF ParametersUnknown, TypeOK
    <2>3. dm' = dm
      BY <1>4 DEF ParametersUnknown
    <2> QED BY <1>2, <1>4, <2>1, <2>2, <2>3 DEF ParametersUnknown, TypeOK, Positions, Idle
  <1> QED BY <1>1, <1>3, <1>4

LEMMA RowsTyped ==
    ASSUME TypedPositions, BoundRow \/ DataRow \/ FinishRows \/ SendDeferred
    PROVE  TypedPositions'
  <1> USE DEF TypedPositions
  <1>1. CASE BoundRow
    <2>1. PICK r \in Rows : /\ StartRow(r) /\ handle' = RowHandle(r)
                            /\ call' = [call EXCEPT !.pc = "resolve"] /\ UNCHANGED dm
      BY <1>1 DEF BoundRow
    <2>2. handle' \in Handle /\ handle'.current = r
      <3>1. FreeData(handle) \in Handle
        BY FreedType DEF TypeOK
      <3> QED BY <2>1, <3>1, FreedType, Numbers DEF RowHandle, TypeOK, Handle
    <2>3. call' \in CallRec /\ call'.pc = "resolve"
      BY <2>1, CallTypes, CallField DEF TypeOK
    <2>4. pstat' \in [Rows -> Status]
      BY <2>1 DEF StartRow, TypeOK, Status
    <2> QED BY <2>1, <2>2, <2>3, <2>4 DEF StartRow, TypeOK, Positions, Idle
  <1>2. CASE DataRow
    <2> DEFINE h(r) == [RowHandle(r) EXCEPT !.dae = Params]
    <2>1. PICK r \in app.atexec :
             /\ StartRow(r)
             /\ \/ handle' = h(r) /\ NeedData("need")
                \/ handle' = Token(h(r)) /\ NeedData("must")
      BY <1>2 DEF DataRow
    <2>2. r \in Rows
      BY DEF TypeOK, App
    <2>3. /\ h(r) \in Handle /\ h(r).current = r
          /\ h(r).dae = Params /\ h(r).param = -1
      <3>1. FreeData(handle) \in Handle /\ RowHandle(r) \in Handle
        BY <2>2, FreedType, Numbers DEF RowHandle, TypeOK
      <3>2. RowHandle(r).current = r /\ RowHandle(r).param = -1
        BY <3>1 DEF RowHandle, FreeData, TypeOK, Handle, None
      <3> QED BY <3>1, <3>2, Numbers DEF Handle
    <2>4. /\ Token(h(r)) \in Handle /\ Token(h(r)).current = r
          /\ Token(h(r)).dae = Params - 1 /\ Token(h(r)).param = 0
      <3> HIDE DEF h
      <3>1. Params - 1 \in None .. Params /\ 0 \in None .. Params - 1
        BY ArrayAssumption DEF None
      <3>2. Token(h(r)) = [h(r) EXCEPT !.dae = Params - 1, !.param = 0, !.put = FALSE]
        BY <2>3, ArrayAssumption DEF Token, Handle
      <3> QED BY <2>3, <3>1, <3>2 DEF Handle
    <2>5. pstat' \in [Rows -> Status]
      BY <2>1 DEF StartRow, TypeOK, Status
    <2>6. /\ call' \in CallRec /\ call'.pc = "idle"
          /\ \/ dm' = "need" /\ handle' = h(r)
             \/ dm' = "must" /\ handle' = Token(h(r))
      <3> HIDE DEF h
      <3>1. \A state : NeedData(state) => /\ call' \in CallRec /\ call'.pc = "idle"
                                         /\ dm' = state
        BY CallTypes, CallField DEF NeedData, TypeOK
      <3> QED BY <2>1, <3>1
    <2>7. /\ handle' \in Handle /\ handle'.current = r /\ handle'.dae >= 0
          /\ handle'.dae + handle'.param = Params - 1
          /\ dm' \in {"must", "can"} => handle'.param >= 0
      <3> HIDE DEF h
      <3> QED BY <2>3, <2>4, <2>6, ArrayAssumption
    <2>8. TypeOK'
      <3>1. dm' \in {"need", "must"}
        BY <2>6
      <3>2. UNCHANGED <<app, cancel, effect, given, dead, exec>>
        BY <2>1 DEF StartRow
      <3> QED BY <2>5, <2>6, <2>7, <3>1, <3>2 DEF TypeOK
    <2> HIDE DEF h
    <2> QED BY <2>2, <2>6, <2>7, <2>8 DEF Positions, Idle
  <1>3. CASE FinishRows
    <2>1. handle' \in Handle
      BY <1>3, Numbers DEF FinishRows, TypeOK, Handle
    <2>2. call' \in CallRec /\ call'.pc = "idle" /\ dm' = "idle"
      BY <1>3, CallTypes, CallField DEF FinishRows, Over, TypeOK
    <2> QED BY <1>3, <2>1, <2>2 DEF FinishRows, TypeOK, Positions, Idle
  <1>4. CASE SendDeferred
    <2>1. handle' \in Handle
      <3>1. (IF handle.current > EndRow THEN handle.current ELSE EndRow) \in None .. MaxRows
        BY ArrayAssumption, SMTT(30) DEF EndRow, TypeOK, Handle, App, None
      <3> QED BY <1>4, <3>1 DEF SendDeferred, TypeOK, Handle
    <2>2. call' \in CallRec /\ call'.pc = "server"
      BY <1>4, CallTypes, CallField DEF SendDeferred, TypeOK, Handle
    <2> QED BY <1>4, <2>1, <2>2 DEF SendDeferred, TypeOK, Positions, Idle
  <1> QED BY <1>1, <1>2, <1>3, <1>4

LEMMA ResolvedTyped ==
    ASSUME TypedPositions, BadValue \/ Defer \/ SendRow
    PROVE  TypedPositions'
  <1> USE DEF TypedPositions
  <1>0. call.pc = "resolve" /\ handle.current \in Rows /\ TheRow \in Row
    BY RowType DEF BadValue, Defer, SendRow, Positions
  <1>1. CASE BadValue
    <2>1. handle' \in Handle
      BY <1>1, Numbers DEF BadValue, TypeOK, Handle
    <2>2. call' \in CallRec /\ call'.pc = "idle" /\ dm' = "idle"
      BY <1>1, CallTypes, CallField DEF BadValue, Over, TypeOK
    <2> QED BY <1>1, <2>1, <2>2 DEF BadValue, TypeOK, Positions, Idle
  <1>2. CASE Defer
    <2>1. handle' \in Handle /\ handle'.current = handle.current + 1
      <3>1. handle.current + 1 \in None .. MaxRows
        BY <1>0, Numbers
      <3>2. handle.count + 1 \in Nat /\ Append(handle.deferred, TheRow) \in Seq(Row)
        BY <1>0 DEF TypeOK, Handle
      <3> QED BY <1>2, <3>1, <3>2, Numbers DEF Defer, TypeOK, Handle
    <2>2. call' \in CallRec /\ call'.pc = "row"
      BY <1>2, CallTypes, CallField DEF Defer, TypeOK
    <2>3. pstat' \in [Rows -> Status]
      BY <1>2 DEF Defer, TypeOK, Status
    <2>4. handle'.current >= 0
      BY <1>0, <2>1 DEF Rows
    <2> QED BY <1>2, <2>1, <2>2, <2>3, <2>4 DEF Defer, TypeOK, Positions, Idle
  <1>3. CASE SendRow
    <2>1. handle' \in Handle
      BY <1>3, Numbers DEF SendRow, TypeOK, Handle
    <2>2. call' \in CallRec /\ call'.pc = "server"
      <3>1. <<TheRow>> \in Seq(Row) /\ Append(handle.deferred, TheRow) \in Seq(Row)
        BY <1>0 DEF TypeOK, Handle
      <3> QED BY <1>3, <3>1, CallTypes, CallField DEF SendRow, TypeOK
    <2> QED BY <1>3, <2>1, <2>2 DEF SendRow, TypeOK, Positions, Idle
  <1> QED BY <1>1, <1>2, <1>3

LEMMA AnswerTyped ==
    ASSUME TypedPositions, Done \/ Failed
    PROVE  TypedPositions'
  <1> USE DEF TypedPositions
  <1>1. [Executed(handle) EXCEPT !.current = None] \in Handle
    BY ExecutedType, Numbers DEF TypeOK
  <1>2. pstat' \in [Rows -> Status]
    BY DEF Done, Failed, TypeOK, Status
  <1>3. Over("success") \/ Over("error") => call' \in CallRec /\ call'.pc = "idle" /\ dm' = "idle"
    BY CallTypes, CallField DEF Over, TypeOK
  <1>4. effect \o call.msg \in Seq(Row)
    BY DEF TypeOK, CallRec
  <1>5. CASE Done /\ handle.current >= EndRow
    <2>1. /\ handle' = [Executed(handle) EXCEPT !.current = None] /\ Over("success")
          /\ effect' = effect \o call.msg /\ UNCHANGED <<app, cancel, given, dead, exec>>
      BY <1>5 DEF Done
    <2> QED BY <2>1, <1>1, <1>2, <1>3, <1>4 DEF TypeOK, Positions, Idle
  <1>6. CASE Done /\ ~(handle.current >= EndRow)
    <2>1. /\ handle' = [Executed(handle) EXCEPT !.current = @ + 1]
          /\ call' = [call EXCEPT !.pc = "row", !.msg = << >>]
          /\ effect' = effect \o call.msg /\ UNCHANGED <<app, cancel, dm, given, dead, exec>>
      BY <1>6 DEF Done
    <2>2. handle.current + 1 \in None .. MaxRows /\ handle.current + 1 >= 0
      <3>1. app.n \in 1 .. MaxRows /\ handle.current \in None .. MaxRows
        BY DEF TypeOK, App, Handle
      <3>2. handle.current < app.n - 1
        <4>1. handle.current \in Int /\ app.n - 1 \in Int
          BY <3>1, ArrayAssumption DEF None
        <4> QED BY <1>6, <4>1 DEF EndRow
      <3> QED BY <3>1, <3>2, ArrayAssumption DEF None
    <2>3. handle' = [Executed(handle) EXCEPT !.current = handle.current + 1]
      BY <2>1 DEF Executed
    <2>4. handle' \in Handle /\ handle'.current = handle.current + 1
      <3>1. Executed(handle) \in Handle
        BY ExecutedIn DEF TypeOK
      <3> QED BY <2>2, <2>3, <3>1 DEF Handle
    <2>5. call' \in CallRec /\ call'.pc = "row"
      BY <2>1, CallTypes, CallField DEF TypeOK
    <2> QED BY <2>1, <2>2, <2>4, <2>5, <1>2, <1>4 DEF TypeOK, Positions, Idle
  <1>7. CASE Failed
    BY <1>7, <1>1, <1>2, <1>3 DEF Failed, TypeOK, Positions, Idle
  <1> QED BY <1>5, <1>6, <1>7

LEMMA DialogueTyped ==
    ASSUME TypedPositions, ParamToken \/ ParamDataComplete \/ PutData
    PROVE  TypedPositions'
  <1> USE DEF TypedPositions
  <1>0. /\ Idle /\ dm # "idle" /\ handle.current \in Rows
        /\ handle.dae >= 0 /\ handle.dae + handle.param = Params - 1
        /\ handle.dae \in None .. Params /\ handle.param \in None .. Params - 1
    BY DEF ParamToken, ParamDataComplete, PutData, Positions, TypeOK, Handle
  <1>1. CASE ParamToken
    <2>1. handle' = [handle EXCEPT !.dae = handle.dae - 1, !.param = handle.param + 1, !.put = FALSE]
      BY <1>1 DEF ParamToken, Token
    <2>2. handle.dae - 1 \in None .. Params /\ handle.param + 1 \in None .. Params - 1
      BY <1>0, <1>1, ArrayAssumption DEF ParamToken, None
    <2>3. /\ handle' \in Handle /\ handle'.current = handle.current
          /\ handle'.dae = handle.dae - 1 /\ handle'.param = handle.param + 1
      BY <2>1, <2>2 DEF TypeOK, Handle
    <2>4. call' \in CallRec /\ call'.pc = "idle" /\ dm' = "must"
      BY <1>1, CallTypes, CallField DEF ParamToken, NeedData, TypeOK
    <2>5. handle'.dae >= 0 /\ handle'.dae + handle'.param = Params - 1 /\ handle'.param >= 0
      BY <1>0, <1>1, <2>3, ArrayAssumption DEF ParamToken, None
    <2> QED BY <1>0, <1>1, <2>3, <2>4, <2>5 DEF ParamToken, TypeOK, Positions, Idle
  <1>2. CASE ParamDataComplete
    <2>1. call' \in CallRec /\ call'.pc = "resolve"
      BY <1>2, CallTypes, CallField DEF ParamDataComplete, TypeOK
    <2> QED BY <1>0, <1>2, <2>1 DEF ParamDataComplete, TypeOK, Positions, Idle
  <1>3. CASE PutData
    <2> DEFINE p == handle.param
               r == handle.current
               chunk == [exec |-> exec, row |-> r]
    <2>0. p \in Pars /\ r \in Rows
      BY <1>0, <1>3, ArrayAssumption DEF PutData, Positions, Pars, None
    <2>1. NewData(chunk) \in Seq(Chunk)
      <3>1. chunk \in Chunk
        BY <2>0 DEF Chunk, TypeOK
      <3>2. handle.pdata[p] \in Seq(Chunk)
        BY <2>0 DEF TypeOK, Handle, Data
      <3> QED BY <3>1, <3>2 DEF NewData
    <2>2. handle' = [handle EXCEPT !.put = TRUE, !.pdata = [@ EXCEPT ![p] = NewData(chunk)]]
      BY <1>3 DEF PutData
    <2>3. [handle.pdata EXCEPT ![p] = NewData(chunk)] \in Data
      BY <2>1 DEF Data, TypeOK, Handle
    <2>4. /\ handle' \in Handle /\ handle'.current = handle.current
          /\ handle'.dae = handle.dae /\ handle'.param = handle.param
      BY <2>2, <2>3 DEF TypeOK, Handle
    <2>5. given' \in [Rows -> [Pars -> 0 .. MaxChunks]]
      <3>1. given[r][p] \in 0 .. MaxChunks /\ given[r][p] < MaxChunks
        BY <1>3, <2>0 DEF PutData, TypeOK
      <3>2. given[r][p] + 1 \in 0 .. MaxChunks
        BY <3>1, ArrayAssumption
      <3>3. given' = [given EXCEPT ![r] = [given[r] EXCEPT ![p] = given[r][p] + 1]]
        <4>1. given' = [given EXCEPT ![r][p] = @ + 1]
          BY <1>3 DEF PutData
        <4> QED BY <4>1, <2>0 DEF TypeOK
      <3>4. [given[r] EXCEPT ![p] = given[r][p] + 1] \in [Pars -> 0 .. MaxChunks]
        BY <2>0, <3>2 DEF TypeOK
      <3> QED BY <2>0, <3>3, <3>4 DEF TypeOK
    <2>6. dm' = "can" /\ UNCHANGED <<app, pstat, call, cancel, effect, dead, exec>>
      BY <1>3 DEF PutData
    <2>7. handle.param >= 0
      BY <2>0 DEF Pars
    <2> QED BY <1>0, <2>4, <2>5, <2>6, <2>7 DEF TypeOK, Positions, Idle
  <1> QED BY <1>1, <1>2, <1>3

LEMMA CancelTyped ==
    ASSUME TypedPositions, CancelDialogue \/ CancelAtServer \/ CancelReset
    PROVE  TypedPositions'
  <1> USE DEF TypedPositions
  <1>1. CASE CancelDialogue \/ CancelAtServer
    <2>1. cancel' \in [pc : {"idle", "reset"}, busy : BOOLEAN, calls : 0 .. MaxCancels]
      <3>1. cancel.calls + 1 \in 0 .. MaxCancels
        BY <1>1, ArrayAssumption DEF CancelDialogue, CancelAtServer, CancelBegins, TypeOK
      <3>2. CASE CancelDialogue
        <4>1. cancel' = [pc |-> "reset", busy |-> handle.status = "executing", calls |-> cancel.calls + 1]
          BY <3>2 DEF CancelDialogue
        <4>2. (handle.status = "executing") \in BOOLEAN
          OBVIOUS
        <4> QED BY <3>1, <4>1, <4>2
      <3>3. CASE CancelAtServer
        BY <3>1, <3>3 DEF CancelAtServer, TypeOK
      <3> QED BY <1>1, <3>2, <3>3
    <2> QED BY <1>1, <2>1
        DEF CancelDialogue, CancelAtServer, CancelBegins, TypeOK, Positions, Idle
  <1>2. CASE CancelReset
    <2>1. handle' \in Handle
      BY <1>2, Numbers DEF CancelReset, TypeOK, Handle
    <2>2. cancel' \in [pc : {"idle", "reset"}, busy : BOOLEAN, calls : 0 .. MaxCancels]
      BY <1>2 DEF CancelReset, TypeOK
    <2>3. dead' \subseteq 0 .. MaxExecs
      BY <1>2 DEF CancelReset, TypeOK
    <2> QED BY <1>2, <2>1, <2>2, <2>3 DEF CancelReset, TypeOK, Positions, Idle
  <1> QED BY <1>1, <1>2

LEMMA StepTyped ==
    ASSUME TypedPositions, [Next]_vars
    PROVE  TypedPositions'
  <1>1. CASE UNCHANGED vars
    BY <1>1 DEF TypedPositions, TypeOK, Positions, Idle, vars
  <1>2. CASE Next
    BY <1>2, BetweenTyped, StartsTyped, RowsTyped, ResolvedTyped, AnswerTyped,
       DialogueTyped, CancelTyped DEF Next, CallStep
  <1> QED BY <1>1, <1>2

\* Type correctness: whatever the sizes of the arrays, the batches and the data,
\* the fields PGAPI_Execute, Exec_with_parameters_resolved, PGAPI_ParamData,
\* PGAPI_PutData and PGAPI_Cancel assign stay in their ranges.  In particular the
\* current row and the current parameter never leave the arrays they index.
THEOREM ExecTypeCorrect == Spec => []TypeOK
  <1>1. Spec => []TypedPositions
    BY InitTyped, StepTyped, PTL DEF Spec
  <1> QED BY <1>1, PTL DEF TypedPositions

-----------------------------------------------------------------------------
(* What SQLCancel ended stays undone, if it never ends a batched execution. *)

InProgress == ~Idle \/ dm # "idle"

\* Rows of an execution that SQLCancel ended are nowhere where they could still
\* be sent from: not among the deferred rows, not in a message under way.
NoneWaits ==
    /\ \A i \in DOMAIN handle.deferred : handle.deferred[i].exec \notin dead
    /\ call.pc = "server" => \A i \in DOMAIN call.msg : call.msg[i].exec \notin dead

\* Why: the execution in progress is alive, one that is not batched defers
\* nothing, and SQLCancel never waits to end one that is batched.
WhyNoneWaits ==
    /\ InProgress => exec \notin dead
    /\ \A e \in dead : e <= exec
    /\ \A i \in DOMAIN handle.deferred :
          /\ handle.deferred[i].exec <= exec
          /\ InProgress /\ handle.type = "direct" => handle.deferred[i].exec # exec
    /\ cancel.pc = "reset" => handle.type = "direct"

CancelInv == TypedPositions /\ NoneWaits /\ WhyNoneWaits

LEMMA RecycleKeeps ==
    ASSUME NEW h \in Handle
    PROVE  /\ Recycle(h) \in Handle
           /\ Recycle(h).deferred = h.deferred /\ Recycle(h).type = h.type
  <1>1. Recycle(h) \in Handle
    BY FreedType
  <1>2. Recycle(h).deferred = h.deferred /\ Recycle(h).type = h.type
    BY DEF Recycle, FreeData, Handle
  <1> QED BY <1>1, <1>2

\* What the invariant speaks about, for the steps that change none of it.
LEMMA CancelInvKept ==
    ASSUME CancelInv, TypedPositions',
           handle'.deferred = handle.deferred, handle'.type = handle.type,
           UNCHANGED <<dead, exec>>,
           cancel'.pc = "reset" => cancel.pc = "reset" \/ handle.type = "direct",
           InProgress' => InProgress,
           call'.pc = "server" => call.pc = "server" /\ call'.msg = call.msg
    PROVE  CancelInv'
  <1>1. NoneWaits'
    BY DEF CancelInv, NoneWaits
  <1>2. WhyNoneWaits'
    BY DEF CancelInv, WhyNoneWaits
  <1> QED BY <1>1, <1>2 DEF CancelInv

LEMMA CancelInvStarts ==
    ASSUME CancelInv, TypedPositions', "cancelBatch" \in Avoids, Execute \/ ExecDirect
    PROVE  CancelInv'
  <1>0. TypeOK /\ TypeOK'
    BY DEF CancelInv, TypedPositions
  <1>1. Idle /\ dm = "idle" /\ dm' = "idle" /\ cancel.pc = "idle" /\ UNCHANGED <<cancel, dead>>
    BY DEF Execute, ExecDirect, MayExecute, StartRows, ParametersUnknown
  <1>2. PICK h \in Handle : /\ StartRows(h) \/ ParametersUnknown(h)
                            /\ h.deferred = handle.deferred /\ h.type = handle.type
    <2>1. /\ Recycle(handle) \in Handle
          /\ Recycle(handle).deferred = handle.deferred
          /\ Recycle(handle).type = handle.type
      BY <1>0, RecycleKeeps DEF TypeOK
    <2>3. CASE Execute
      <3>1. /\ ExecuteHandle(handle) \in Handle
            /\ ExecuteHandle(handle).deferred = handle.deferred
            /\ ExecuteHandle(handle).type = handle.type
        BY <1>0, <2>1, Numbers DEF ExecuteHandle, Handle, TypeOK
      <3> QED BY <2>3, <3>1 DEF Execute
    <2>4. CASE ExecDirect
      <3> DEFINE g == InitializeStmts(handle)
      <3>1. g \in Handle /\ g.deferred = handle.deferred /\ g.type = handle.type
        BY <1>0 DEF InitializeStmts, Handle, TypeOK
      <3>2. /\ Recycle(g) \in Handle /\ Recycle(g).deferred = handle.deferred
            /\ Recycle(g).type = handle.type
        <4> HIDE DEF g
        <4> QED BY <3>1, RecycleKeeps
      <3> QED BY <2>4, <3>2 DEF ExecDirect
    <2> QED BY <2>3, <2>4
  <1>3. h.deferred = handle.deferred => handle'.deferred = handle.deferred
    <2>1. \A g \in Handle : /\ Recycle(g) \in Handle /\ Recycle(g).deferred = g.deferred
      BY RecycleKeeps
    <2>2. CASE StartRows(h)
      <3>1. handle' = h \/ handle' = FirstRow(h, app'.n)
        BY <2>2 DEF StartRows
      <3>2. FirstRow(h, app'.n).deferred = h.deferred
        BY <2>1 DEF FirstRow, Handle
      <3> QED BY <3>1, <3>2
    <2>3. CASE ParametersUnknown(h)
      <3>1. PICK a : handle' = [(IF h.status = "finished" THEN Recycle(h) ELSE h)
                                EXCEPT !.current = 0, !.method = HowToPrepare(h, a.n)]
        BY <2>3 DEF ParametersUnknown
      <3> QED BY <2>1, <3>1 DEF Handle
    <2> QED BY <1>2, <2>2, <2>3
  <1>4. call'.pc # "server"
    BY <1>0, <1>1, <1>2, CallField DEF StartRows, ParametersUnknown, TypeOK, Idle
  <1>5. NoneWaits'
    BY <1>1, <1>2, <1>3, <1>4 DEF CancelInv, NoneWaits
  <1>6. CASE StartRows(h)
    <2>1. exec' = exec + 1
      BY <1>6 DEF StartRows
    <2>2. \A e \in dead : e <= exec /\ e \in Int
      BY <1>0, ArrayAssumption DEF CancelInv, WhyNoneWaits, TypeOK
    <2>3. \A i \in DOMAIN handle.deferred :
             handle.deferred[i].exec <= exec /\ handle.deferred[i].exec \in Int
      <3>1. \A i \in DOMAIN handle.deferred : handle.deferred[i] \in Row
        <4>1. handle.deferred \in Seq(Row)
          BY <1>0 DEF TypeOK, Handle
        <4> QED BY <4>1
      <3> QED BY <3>1, ArrayAssumption DEF CancelInv, WhyNoneWaits, Row
    <2>4. exec \in Int
      BY <1>0, ArrayAssumption DEF TypeOK
    <2>5. WhyNoneWaits'
      BY <1>1, <1>2, <1>3, <2>1, <2>2, <2>3, <2>4 DEF WhyNoneWaits
    <2> QED BY <1>5, <2>5 DEF CancelInv
  <1>7. CASE ParametersUnknown(h)
    <2>1. ~InProgress' /\ exec' = exec
      BY <1>0, <1>1, <1>7, CallField DEF ParametersUnknown, InProgress, Idle, TypeOK
    <2>2. WhyNoneWaits'
      BY <1>1, <1>2, <1>3, <2>1 DEF CancelInv, WhyNoneWaits
    <2> QED BY <1>5, <2>2 DEF CancelInv
  <1> QED BY <1>2, <1>6, <1>7

LEMMA CancelInvDefers ==
    ASSUME CancelInv, TypedPositions', BadValue \/ Defer \/ SendRow
    PROVE  CancelInv'
  <1>0. TypeOK /\ ~Idle /\ InProgress
    BY DEF CancelInv, TypedPositions, BadValue, Defer, SendRow, Idle, InProgress
  <1>1. CASE BadValue
    <2>1. handle'.deferred = handle.deferred /\ handle'.type = handle.type
      BY <1>0, <1>1 DEF BadValue, TypeOK, Handle
    <2>2. call'.pc = "idle" /\ dm' = "idle"
      BY <1>0, <1>1, CallField DEF BadValue, Over, TypeOK
    <2> QED BY <1>0, <1>1, <2>1, <2>2, CancelInvKept DEF BadValue
  <1>2. exec \notin dead /\ TheRow.exec = exec
    BY <1>0 DEF CancelInv, WhyNoneWaits, TheRow
  <1>3. \A i \in DOMAIN Append(handle.deferred, TheRow) :
           LET e == Append(handle.deferred, TheRow)[i].exec IN
           e \notin dead /\ e <= exec
    <2>1. handle.deferred \in Seq(Row) /\ exec \in Int
      BY <1>0, ArrayAssumption DEF TypeOK, Handle
    <2>2. \A i \in DOMAIN handle.deferred : handle.deferred[i].exec \notin dead /\ handle.deferred[i].exec <= exec
      BY DEF CancelInv, NoneWaits, WhyNoneWaits
    <2>3. ASSUME NEW i \in DOMAIN Append(handle.deferred, TheRow)
          PROVE  \/ i \in DOMAIN handle.deferred /\ Append(handle.deferred, TheRow)[i] = handle.deferred[i]
                 \/ Append(handle.deferred, TheRow)[i] = TheRow
      BY <2>1, <2>3
    <2> QED BY <1>2, <2>1, <2>2, <2>3
  <1>4. CASE Defer
    <2>1. handle'.deferred = Append(handle.deferred, TheRow) /\ handle'.type = "deferred"
      BY <1>0, <1>4 DEF Defer, MayDefer, TypeOK, Handle
    <2>2. call'.pc = "row" /\ UNCHANGED <<cancel, dm, dead, exec>>
      BY <1>0, <1>4, CallField DEF Defer, TypeOK
    <2>3. NoneWaits'
      BY <1>3, <2>1, <2>2 DEF NoneWaits
    <2>4. WhyNoneWaits'
      <3>1. cancel.pc # "reset"
        BY <1>4 DEF Defer, MayDefer, CancelInv, WhyNoneWaits
      <3>2. \A i \in DOMAIN handle'.deferred : handle'.deferred[i].exec <= exec
        BY <1>3, <2>1
      <3> QED BY <1>2, <2>1, <2>2, <3>1, <3>2 DEF CancelInv, WhyNoneWaits
    <2> QED BY <2>3, <2>4 DEF CancelInv
  <1>5. CASE SendRow
    <2>1. handle'.deferred = handle.deferred /\ handle'.type = handle.type
      BY <1>0, <1>5 DEF SendRow, TypeOK, Handle
    <2>2. UNCHANGED <<cancel, dm, dead, exec>>
      BY <1>5 DEF SendRow
    <2>3. call'.msg = <<TheRow>> \/ call'.msg = Append(handle.deferred, TheRow)
      BY <1>0, <1>5 DEF SendRow, TypeOK, CallRec
    <2>4. NoneWaits'
      <3>1. \A i \in DOMAIN <<TheRow>> : <<TheRow>>[i].exec \notin dead
        BY <1>2
      <3>2. \A i \in DOMAIN call'.msg : call'.msg[i].exec \notin dead
        BY <1>3, <2>3, <3>1
      <3> QED BY <2>1, <2>2, <3>2 DEF CancelInv, NoneWaits
    <2>5. WhyNoneWaits'
      BY <1>0, <2>1, <2>2 DEF CancelInv, WhyNoneWaits
    <2> QED BY <2>4, <2>5 DEF CancelInv
  <1> QED BY <1>1, <1>4, <1>5

LEMMA CancelInvRows ==
    ASSUME CancelInv, TypedPositions', BoundRow \/ DataRow \/ FinishRows \/ SendDeferred
    PROVE  CancelInv'
  <1>0. TypeOK /\ ~Idle /\ InProgress
    BY DEF CancelInv, TypedPositions, BoundRow, DataRow, FinishRows, SendDeferred,
           StartRow, Idle, InProgress
  <1>1. /\ handle'.deferred = handle.deferred /\ handle'.type = handle.type
    <2>1. \A r : /\ RowHandle(r).deferred = handle.deferred
                 /\ RowHandle(r).type = handle.type
      BY <1>0 DEF RowHandle, FreeData, TypeOK, Handle
    <2>2. CASE BoundRow
      BY <2>1, <2>2 DEF BoundRow
    <2>3. CASE DataRow
      <3>1. PICK r : LET h == [RowHandle(r) EXCEPT !.dae = Params] IN
                     handle' = h \/ handle' = Token(h)
        BY <2>3 DEF DataRow
      <3>2. \A h : /\ Token(h).deferred = h.deferred \/ "deferred" \notin DOMAIN h
                   /\ Token(h).type = h.type \/ "type" \notin DOMAIN h
        BY DEF Token
      <3>3. {"deferred", "type"} \subseteq DOMAIN RowHandle(r)
        BY <1>0 DEF RowHandle, FreeData, TypeOK, Handle
      <3> QED BY <2>1, <3>1, <3>2, <3>3
    <2>4. CASE FinishRows
      BY <1>0, <2>4 DEF FinishRows, TypeOK, Handle
    <2>5. CASE SendDeferred
      BY <1>0, <2>5 DEF SendDeferred, TypeOK, Handle
    <2> QED BY <2>2, <2>3, <2>4, <2>5
  <1>2. UNCHANGED <<dead, exec, cancel>>
    BY DEF BoundRow, DataRow, FinishRows, SendDeferred, StartRow
  <1>3. CASE BoundRow \/ DataRow \/ FinishRows
    <2>1. call'.pc # "server"
      BY <1>0, <1>3, CallField DEF BoundRow, DataRow, FinishRows, NeedData, Over, TypeOK
    <2> QED BY <1>0, <1>1, <1>2, <2>1, CancelInvKept
  <1>4. CASE SendDeferred
    <2>1. call'.msg = handle.deferred /\ dm' = dm
      BY <1>0, <1>4 DEF SendDeferred, TypeOK, CallRec
    <2>2. NoneWaits'
      BY <1>1, <1>2, <2>1 DEF CancelInv, NoneWaits
    <2>3. WhyNoneWaits'
      BY <1>0, <1>1, <1>2, <2>1 DEF CancelInv, WhyNoneWaits
    <2> QED BY <2>2, <2>3 DEF CancelInv
  <1> QED BY <1>3, <1>4

LEMMA CancelInvAnswer ==
    ASSUME CancelInv, TypedPositions', Done \/ Failed
    PROVE  CancelInv'
  <1>0. TypeOK /\ ~Idle /\ InProgress
    BY DEF CancelInv, TypedPositions, Done, Failed, Idle, InProgress
  <1>1. /\ handle'.deferred = handle.deferred \/ handle'.deferred = << >>
        /\ handle'.type = handle.type
    <2>1. /\ Executed(handle) \in Handle
          /\ Executed(handle).deferred = handle.deferred \/ Executed(handle).deferred = << >>
          /\ Executed(handle).type = handle.type
      BY <1>0, ExecutedIn DEF Executed, TypeOK, Handle
    <2>2. PICK c : handle' = [Executed(handle) EXCEPT !.current = c]
      BY DEF Done, Failed
    <2> QED BY <2>1, <2>2 DEF Handle
  <1>2. UNCHANGED <<cancel, dead, exec>>
    BY DEF Done, Failed
  <1>3. call'.pc # "server"
    BY <1>0, CallField DEF Done, Failed, Over, TypeOK
  <1>4. NoneWaits'
    BY <1>1, <1>2, <1>3 DEF CancelInv, NoneWaits
  <1>5. WhyNoneWaits'
    BY <1>0, <1>1, <1>2 DEF CancelInv, WhyNoneWaits
  <1> QED BY <1>4, <1>5 DEF CancelInv

LEMMA CancelInvDialogue ==
    ASSUME CancelInv, TypedPositions', ParamToken \/ ParamDataComplete \/ PutData
    PROVE  CancelInv'
  <1>0. TypeOK /\ InProgress
    BY DEF CancelInv, TypedPositions, ParamToken, ParamDataComplete, PutData, InProgress
  <1>1. handle'.deferred = handle.deferred /\ handle'.type = handle.type
    <2>1. CASE ParamToken
      BY <1>0, <2>1 DEF ParamToken, Token, TypeOK, Handle
    <2>2. CASE ParamDataComplete
      BY <2>2 DEF ParamDataComplete
    <2>3. CASE PutData
      BY <1>0, <2>3 DEF PutData, TypeOK, Handle
    <2> QED BY <2>1, <2>2, <2>3
  <1>2. UNCHANGED <<cancel, dead, exec>>
    BY DEF ParamToken, ParamDataComplete, PutData
  <1>3. call'.pc = "server" => call.pc = "server" /\ call'.msg = call.msg
    BY <1>0, CallField DEF ParamToken, ParamDataComplete, PutData, NeedData, TypeOK
  <1> QED BY <1>0, <1>1, <1>2, <1>3, CancelInvKept

LEMMA CancelInvBetween ==
    ASSUME CancelInv, TypedPositions', Prepare \/ Close \/ ResetParams
    PROVE  CancelInv'
  <1>0. TypeOK
    BY DEF CancelInv, TypedPositions
  <1>1. handle'.deferred = handle.deferred /\ handle'.type = handle.type
    <2>1. /\ Recycle(handle) \in Handle
          /\ Recycle(handle).deferred = handle.deferred
          /\ Recycle(handle).type = handle.type
      BY <1>0, RecycleKeeps DEF TypeOK
    <2>2. CASE Prepare
      BY <1>0, <2>1, <2>2 DEF Prepare, InitializeStmts, TypeOK, Handle
    <2>3. CASE Close
      BY <2>1, <2>3 DEF Close
    <2>4. CASE ResetParams
      BY <1>0, <2>4 DEF ResetParams, FreeData, TypeOK, Handle
    <2> QED BY <2>2, <2>3, <2>4
  <1>2. UNCHANGED <<call, cancel, dm, dead, exec>>
    BY DEF Prepare, Close, ResetParams
  <1>3. InProgress' => InProgress
    BY <1>2 DEF InProgress, Idle
  <1> QED BY <1>1, <1>2, <1>3, CancelInvKept

LEMMA CancelInvCancels ==
    ASSUME CancelInv, TypedPositions', "cancelBatch" \in Avoids,
           CancelDialogue \/ CancelAtServer \/ CancelReset
    PROVE  CancelInv'
  <1>0. TypeOK
    BY DEF CancelInv, TypedPositions
  <1>1. CASE CancelDialogue
    <2>1. handle.type = "direct" /\ UNCHANGED <<handle, call, dm, dead, exec>>
      BY <1>1 DEF CancelDialogue, CancelBegins
    <2>2. InProgress' => InProgress
      BY <2>1 DEF InProgress, Idle
    <2> QED BY <2>1, <2>2, CancelInvKept
  <1>2. CASE CancelAtServer
    <2>1. cancel'.pc = cancel.pc /\ UNCHANGED <<handle, call, dm, dead, exec>>
      BY <1>0, <1>2 DEF CancelAtServer, CancelBegins, TypeOK
    <2>2. InProgress' => InProgress
      BY <2>1 DEF InProgress, Idle
    <2> QED BY <2>1, <2>2, CancelInvKept
  <1>3. CASE CancelReset
    <2>1. handle.type = "direct" /\ Idle /\ UNCHANGED <<call, exec>> /\ dm' = "idle"
      BY <1>3 DEF CancelReset, CancelInv, WhyNoneWaits
    <2>2. handle'.deferred = handle.deferred /\ handle'.type = handle.type
      BY <1>0, <1>3 DEF CancelReset, TypeOK, Handle
    <2>3. \A e \in dead' : e \in dead \/ (e = exec /\ InProgress)
      <3>1. CASE dm = "idle"
        BY <1>3, <3>1 DEF CancelReset
      <3>2. CASE dm # "idle"
        <4>1. dead' = dead \cup {exec}
          BY <1>3, <3>2 DEF CancelReset
        <4> QED BY <3>2, <4>1 DEF InProgress
      <3> QED BY <3>1, <3>2
    <2>4. ~InProgress' /\ call'.pc # "server"
      BY <2>1 DEF InProgress, Idle
    <2>5. exec \in Int
      BY <1>0, ArrayAssumption DEF TypeOK
    <2>6. NoneWaits'
      BY <2>1, <2>2, <2>3, <2>4 DEF CancelInv, NoneWaits, WhyNoneWaits
    <2>7. WhyNoneWaits'
      BY <2>1, <2>2, <2>3, <2>4, <2>5 DEF CancelInv, WhyNoneWaits
    <2> QED BY <2>6, <2>7 DEF CancelInv
  <1> QED BY <1>1, <1>2, <1>3

LEMMA CancelInvStep ==
    ASSUME CancelInv, "cancelBatch" \in Avoids, [Next]_vars
    PROVE  CancelInv'
  <1>1. TypedPositions'
    BY StepTyped DEF CancelInv
  <1>2. CASE UNCHANGED vars
    BY <1>1, <1>2 DEF vars, CancelInv, NoneWaits, WhyNoneWaits, InProgress, Idle
  <1>3. CASE Next
    BY <1>1, <1>3, CancelInvBetween, CancelInvStarts, CancelInvRows, CancelInvDefers,
       CancelInvAnswer, CancelInvDialogue, CancelInvCancels DEF Next, CallStep
  <1> QED BY <1>2, <1>3

\* A step adds nothing to the rows in effect but the message under way.
LEMMA OnlyTheMessage ==
    ASSUME CancelInv, [Next]_vars
    PROVE  \A i \in Len(effect) + 1 .. Len(effect') : effect'[i].exec \notin dead
  <1>0. effect \in Seq(Row) /\ call.msg \in Seq(Row)
    BY DEF CancelInv, TypedPositions, TypeOK, CallRec
  <1>1. CASE effect' = effect
    <2>1. Len(effect) \in Nat
      BY <1>0
    <2> QED BY <1>1, <2>1
  <1>2. CASE Done
    <2>1. effect' = effect \o call.msg /\ call.pc = "server"
      BY <1>2 DEF Done
    <2>2. ASSUME NEW i \in Len(effect) + 1 .. Len(effect')
          PROVE  effect'[i] = call.msg[i - Len(effect)] /\ i - Len(effect) \in DOMAIN call.msg
      BY <1>0, <2>1, <2>2
    <2> QED BY <2>1, <2>2 DEF CancelInv, NoneWaits
  <1>3. effect' = effect \/ Done
    BY DEF vars, Next, CallStep, Prepare, Close, ResetParams, Execute, ExecDirect, StartRows,
           ParametersUnknown, BoundRow, DataRow, StartRow, FinishRows, SendDeferred, BadValue,
           Defer, SendRow, Failed, ParamToken, ParamDataComplete, PutData,
           CancelDialogue, CancelAtServer, CancelBegins, CancelReset
  <1> QED BY <1>1, <1>2, <1>3

\* If no batched execution is cancelled while it waits for data, what SQLCancel
\* ended stays undone for good: the rows that PGAPI_Cancel leaves in stmt_deferred
\* are the only way by which a cancelled execution can still take effect.
THEOREM CancelledStaysUndone ==
    ASSUME "cancelBatch" \in Avoids
    PROVE  Spec => CancelledRowsNeverRun
  <1>1. Init => CancelInv
    <2> SUFFICES ASSUME Init PROVE CancelInv
      OBVIOUS
    <2>1. handle.deferred = << >> /\ call.pc = "idle" /\ dm = "idle"
      BY DEF Init
    <2>2. dead = {} /\ cancel.pc = "idle"
      BY DEF Init
    <2>3. NoneWaits /\ WhyNoneWaits
      BY <2>1, <2>2 DEF NoneWaits, WhyNoneWaits, InProgress, Idle
    <2> QED BY <2>3, InitTyped DEF CancelInv
  <1>2. CancelInv /\ [Next]_vars => CancelInv'
    BY CancelInvStep
  <1>3. CancelInv /\ [Next]_vars =>
           [\A i \in Len(effect) + 1 .. Len(effect') : effect'[i].exec \notin dead]_vars
    BY OnlyTheMessage
  <1> QED BY <1>1, <1>2, <1>3, PTL DEF Spec, CancelledRowsNeverRun


-----------------------------------------------------------------------------
(* What the status array says of the rows.                                 *)

\* What the application has to keep clear of: the paths on which PGAPI_Execute
\* leaves rows in stmt_deferred, starts in the middle of an array, or reports on
\* rows of an earlier message.
Careful == {"cancelBatch", "badValueInBatch", "directAfterCancel", "ignoredTailFails"} \subseteq Avoids

\* The row loop has turned to the current row and has not left it yet.
AtRow == \/ call.pc = "resolve"
         \/ Idle /\ dm # "idle"
         \/ call.pc = "server" /\ call.kind # "last"

Passed(r) == r < handle.current /\ r \notin app.ignored

RowsOf(rows) == {rows[i].row : i \in DOMAIN rows}

\* Rows of one execution in the order of the array.
Batch(rows, e) ==
    /\ \A i \in DOMAIN rows : rows[i].exec = e
    /\ \A i, j \in DOMAIN rows : i < j => rows[i].row < rows[j].row
    /\ IsFiniteSet(RowsOf(rows)) /\ Cardinality(RowsOf(rows)) = Len(rows)

\* The row loop is in the array, and never at a row it is to ignore.
Place == InProgress => /\ handle.current \in 0 .. EndRow
                       /\ AtRow => handle.current \notin app.ignored

\* Every row the loop has passed is in effect or deferred, and no other.
Account == InProgress =>
    \A r \in 0 .. EndRow : Passed(r) <=> InEffect(r) \/ r \in RowsOf(handle.deferred)

\* The status array follows the loop: a deferred row already counts as a success.
Reported ==
    IF InProgress
    THEN \A r \in 0 .. EndRow : pstat[r] = IF Passed(r) THEN "success"
                                           ELSE IF AtRow /\ r = handle.current THEN "error"
                                           ELSE "unused"
    ELSE \A r \in 0 .. EndRow : pstat[r] = "success" <=> InEffect(r)

\* The deferred rows are of the execution in progress, they come after the rows
\* in effect, and count_of_deffered counts them.
Queue ==
    /\ Batch(handle.deferred, exec) /\ handle.count = Len(handle.deferred)
    /\ handle.deferred # << >> => InProgress /\ handle.type = "deferred"
    /\ \A i \in DOMAIN handle.deferred :
          /\ handle.deferred[i].row \in 0 .. EndRow
          /\ \A q \in 0 .. EndRow : InEffect(q) => q < handle.deferred[i].row

Effects == \A i \in DOMAIN effect : effect[i].exec <= exec

\* A message holds the deferred rows, and the current one unless the array ended
\* with ignored rows.
Message == call.pc = "server" =>
    /\ Batch(call.msg, exec)
    /\ call.kind = "direct" <=> handle.type = "direct"
    /\ call.kind = "last" => /\ call.msg = handle.deferred /\ handle.deferred # << >>
                             /\ handle.current = EndRow /\ EndRow \in app.ignored
    /\ call.kind # "last" => /\ RowsOf(call.msg) = RowsOf(handle.deferred) \cup {handle.current}
                             /\ Len(call.msg) = Len(handle.deferred) + 1

ArrayInv == CancelInv /\ Place /\ Account /\ Reported /\ Queue /\ Effects /\ Message

-----------------------------------------------------------------------------
(* Batches of rows.                                                        *)

LEMMA RowsOfAny ==
    ASSUME NEW rows, NEW r
    PROVE  r \in RowsOf(rows) <=> \E i \in DOMAIN rows : rows[i].row = r
  BY DEF RowsOf

LEMMA BatchEmpty ==
    ASSUME NEW e
    PROVE  Batch(<< >>, e) /\ RowsOf(<< >>) = {}
  <1>1. RowsOf(<< >>) = {}
    BY DEF RowsOf
  <1>2. IsFiniteSet({}) /\ Cardinality({}) = 0
    BY FS_EmptySet
  <1>3. DOMAIN << >> = {} /\ Len(<< >>) = 0
    OBVIOUS
  <1>4. Cardinality(RowsOf(<< >>)) = Len(<< >>) /\ IsFiniteSet(RowsOf(<< >>))
    BY <1>1, <1>2, <1>3
  <1> QED BY <1>1, <1>3, <1>4 DEF Batch

LEMMA AppendDomain ==
    ASSUME NEW rows \in Seq(Row), NEW row \in Row
    PROVE  /\ Append(rows, row) \in Seq(Row) /\ Len(Append(rows, row)) = Len(rows) + 1
           /\ DOMAIN Append(rows, row) = DOMAIN rows \cup {Len(rows) + 1}
           /\ Append(rows, row)[Len(rows) + 1] = row
           /\ \A i \in DOMAIN rows : Append(rows, row)[i] = rows[i]
  <1>1. \A n \in Nat : 1 .. n + 1 = 1 .. n \cup {n + 1}
    OBVIOUS
  <1>2. Len(rows) \in Nat /\ DOMAIN rows = 1 .. Len(rows)
    OBVIOUS
  <1>3. Append(rows, row) \in Seq(Row) /\ Len(Append(rows, row)) = Len(rows) + 1
    OBVIOUS
  <1>4. DOMAIN Append(rows, row) = 1 .. Len(rows) + 1
    OBVIOUS
  <1>5. DOMAIN Append(rows, row) = DOMAIN rows \cup {Len(rows) + 1}
    BY <1>1, <1>2, <1>4, Zenon
  <1> QED BY <1>3, <1>5

LEMMA RowsOfAppend ==
    ASSUME NEW rows \in Seq(Row), NEW row \in Row
    PROVE  RowsOf(Append(rows, row)) = RowsOf(rows) \cup {row.row}
  <1>1. PICK s \in Seq(Row) : s = Append(rows, row)
    BY AppendDomain
  <1>2. DOMAIN s = DOMAIN rows \cup {Len(rows) + 1}
    BY <1>1, AppendDomain
  <1>3. s[Len(rows) + 1] = row /\ \A i \in DOMAIN rows : s[i] = rows[i]
    BY <1>1, AppendDomain
  <1>4. \A r : r \in RowsOf(s) <=> r \in RowsOf(rows) \/ r = row.row
    <2> HIDE <1>1
    <2>1. \A r : r \in RowsOf(s) <=> \E i \in DOMAIN s : s[i].row = r
      BY RowsOfAny
    <2>2. \A r : r \in RowsOf(rows) <=> \E i \in DOMAIN rows : rows[i].row = r
      BY RowsOfAny
    <2> QED BY <2>1, <2>2, <1>2, <1>3, Zenon
  <1> QED BY <1>1, <1>4

LEMMA BatchAppend ==
    ASSUME NEW rows \in Seq(Row), NEW row \in Row, NEW e, Batch(rows, e), row.exec = e,
           \A i \in DOMAIN rows : rows[i].row < row.row
    PROVE  Batch(Append(rows, row), e)
  <1>1. PICK s \in Seq(Row) : s = Append(rows, row)
    BY AppendDomain
  <1>2. DOMAIN s = DOMAIN rows \cup {Len(rows) + 1} /\ Len(s) = Len(rows) + 1
    BY <1>1, AppendDomain
  <1>3. s[Len(rows) + 1] = row /\ \A i \in DOMAIN rows : s[i] = rows[i]
    BY <1>1, AppendDomain
  <1>4. \A i \in DOMAIN s : s[i].exec = e
    BY <1>2, <1>3 DEF Batch
  <1>5. \A i, j \in DOMAIN s : i < j => s[i].row < s[j].row
    <2>1. \A i \in DOMAIN rows : i \in Nat /\ i <= Len(rows)
      OBVIOUS
    <2>2. \A i, j \in DOMAIN rows : i < j => rows[i].row < rows[j].row
      BY DEF Batch
    <2>3. Len(rows) \in Nat
      OBVIOUS
    <2> QED BY <2>1, <2>2, <2>3, <1>2, <1>3
  <1>6. IsFiniteSet(RowsOf(s)) /\ Cardinality(RowsOf(s)) = Len(s)
    <2>1. IsFiniteSet(RowsOf(rows)) /\ Cardinality(RowsOf(rows)) = Len(rows)
      BY DEF Batch
    <2>2. row.row \notin RowsOf(rows)
      <3>1. row.row \in Int
        BY DEF Row, Rows
      <3> QED BY <3>1, RowsOfAny
    <2>3. RowsOf(s) = RowsOf(rows) \cup {row.row}
      BY <1>1, RowsOfAppend
    <2>4. /\ IsFiniteSet(RowsOf(rows) \cup {row.row})
          /\ Cardinality(RowsOf(rows) \cup {row.row}) = Cardinality(RowsOf(rows)) + 1
      BY <2>1, <2>2, FS_AddElement
    <2> QED BY <1>2, <2>1, <2>3, <2>4
  <1>7. Batch(s, e)
    BY <1>4, <1>5, <1>6 DEF Batch
  <1> QED BY <1>1, <1>7

\* A row alone is a batch.
LEMMA BatchOne ==
    ASSUME NEW row \in Row
    PROVE  Batch(<<row>>, row.exec) /\ RowsOf(<<row>>) = {row.row}
  <1>1. << >> \in Seq(Row) /\ Append(<< >>, row) = <<row>> /\ DOMAIN << >> = {}
    OBVIOUS
  <1>2. Batch(<< >>, row.exec) /\ RowsOf(<< >>) = {}
    BY BatchEmpty
  <1>3. Batch(Append(<< >>, row), row.exec)
    BY <1>1, <1>2, BatchAppend
  <1>4. RowsOf(Append(<< >>, row)) = {} \cup {row.row}
    BY <1>1, <1>2, RowsOfAppend
  <1> QED BY <1>1, <1>3, <1>4


-----------------------------------------------------------------------------
(* The steps that leave the account of the rows as it is.                  *)

LEMMA ArrayTypes ==
    ASSUME ArrayInv
    PROVE  /\ TypeOK /\ TypedPositions
           /\ handle \in Handle /\ app \in App /\ call \in CallRec
           /\ handle.deferred \in Seq(Row) /\ call.msg \in Seq(Row) /\ effect \in Seq(Row)
           /\ EndRow \in Rows /\ app.n \in 1 .. MaxRows /\ exec \in Int
           /\ 0 .. EndRow \subseteq Rows /\ handle.count \in Nat /\ handle.current \in Int
           /\ pstat \in [Rows -> Status]
  <1>1. TypeOK /\ TypedPositions
    BY DEF ArrayInv, CancelInv, TypedPositions
  <1>2. handle.deferred \in Seq(Row) /\ call.msg \in Seq(Row) /\ effect \in Seq(Row)
    BY <1>1 DEF TypeOK, Handle, CallRec
  <1>3. app.n \in 1 .. MaxRows /\ EndRow = app.n - 1
    BY <1>1 DEF TypeOK, App, EndRow
  <1>4. EndRow \in Rows /\ 0 .. EndRow \subseteq Rows
    BY <1>3, ArrayAssumption DEF Rows
  <1>5. exec \in Int /\ handle.count \in Nat /\ handle.current \in Int
    BY <1>1, Numbers, ArrayAssumption DEF TypeOK, Handle
  <1> QED BY <1>1, <1>2, <1>3, <1>4, <1>5 DEF TypeOK

\* The execution is over, or had not begun: nothing is deferred.
LEMMA Rests ==
    ASSUME CancelInv', ~InProgress', Effects',
           handle'.deferred = << >>, handle'.count = 0,
           (\A r \in 0 .. EndRow : pstat[r] = "success" <=> InEffect(r))'
    PROVE  ArrayInv'
  <1>1. Place' /\ Account' /\ Reported'
    BY DEF Place, Account, Reported
  <1>2. Queue'
    <2>1. PICK e : e = exec'
      OBVIOUS
    <2>2. Batch(<< >>, e) /\ DOMAIN << >> = {} /\ Len(<< >>) = 0
      BY BatchEmpty
    <2>3. Batch(handle.deferred, exec)'
      BY <2>1, <2>2 DEF Batch, RowsOf
    <2> QED BY <2>2, <2>3 DEF Queue
  <1>3. Message'
    BY DEF Message, InProgress, Idle
  <1> QED BY <1>1, <1>2, <1>3 DEF ArrayInv

LEMMA Resting ==
    ASSUME ArrayInv, ~InProgress
    PROVE  /\ handle.deferred = << >> /\ handle.count = 0
           /\ \A r \in 0 .. EndRow : pstat[r] = "success" <=> InEffect(r)
  BY DEF ArrayInv, Queue, Reported

LEMMA KeepsResting ==
    ASSUME ArrayInv, CancelInv', ~InProgress, ~InProgress',
           handle'.deferred = handle.deferred, handle'.count = handle.count,
           UNCHANGED <<app, pstat, effect, exec>>
    PROVE  ArrayInv'
  <1>1. Effects'
    BY DEF ArrayInv, Effects
  <1>2. (\A r \in 0 .. EndRow : pstat[r] = "success" <=> InEffect(r))'
    BY Resting DEF EndRow, InEffect
  <1> QED BY <1>1, <1>2, Resting, Rests

\* An execution that is left with nothing deferred while the loop is in the array.
LEMMA EndsEmpty ==
    ASSUME ArrayInv, CancelInv', InProgress, ~InProgress', handle.deferred = << >>,
           handle'.deferred = handle.deferred, handle'.count = handle.count,
           UNCHANGED <<app, pstat, effect, exec>>
    PROVE  ArrayInv'
  <1>1. Effects'
    BY DEF ArrayInv, Effects
  <1>2. \A r : r \notin RowsOf(handle.deferred)
    BY BatchEmpty
  <1>3. \A r \in 0 .. EndRow : Passed(r) <=> InEffect(r)
    BY <1>2 DEF ArrayInv, Account
  <1>4. \A r \in 0 .. EndRow : pstat[r] = "success" <=> Passed(r)
    BY DEF ArrayInv, Reported
  <1>5. (\A r \in 0 .. EndRow : pstat[r] = "success" <=> InEffect(r))'
    BY <1>3, <1>4 DEF EndRow, InEffect
  <1>6. handle.count = 0
    BY DEF ArrayInv, Queue
  <1> QED BY <1>1, <1>5, <1>6, Rests

\* Nothing the account speaks about changes.
LEMMA KeepsAll ==
    ASSUME ArrayInv, CancelInv', UNCHANGED <<handle, app, pstat, call, dm, effect, exec>>
    PROVE  ArrayInv'
  <1>1. Place' /\ Effects'
    BY DEF ArrayInv, Place, Effects, InProgress, AtRow, Idle, EndRow
  <1>2. Account'
    BY DEF ArrayInv, Account, InProgress, Idle, Passed, InEffect, EndRow, RowsOf
  <1>3. Reported'
    BY DEF ArrayInv, Reported, InProgress, AtRow, Idle, Passed, InEffect, EndRow
  <1>4. Queue'
    BY DEF ArrayInv, Queue, InProgress, Idle, InEffect, EndRow, Batch, RowsOf
  <1>5. Message'
    BY DEF ArrayInv, Message, EndRow, Batch, RowsOf
  <1> QED BY <1>1, <1>2, <1>3, <1>4, <1>5 DEF ArrayInv

\* The loop stays at its row: the row is given its data, or sent.
LEMMA StaysAtRow ==
    ASSUME ArrayInv, CancelInv', AtRow, AtRow', Message',
           handle'.current = handle.current, handle'.deferred = handle.deferred,
           handle'.count = handle.count, handle'.type = handle.type,
           UNCHANGED <<app, pstat, effect, exec>>
    PROVE  ArrayInv'
  <1>1. InProgress /\ InProgress'
    BY DEF AtRow, InProgress, Idle
  <1>2. EndRow' = EndRow /\ \A r : (Passed(r)' <=> Passed(r)) /\ (InEffect(r)' <=> InEffect(r))
    BY DEF EndRow, Passed, InEffect
  <1>3. Place'
    BY <1>1, <1>2 DEF ArrayInv, Place
  <1>4. Account'
    <2>1. RowsOf(handle.deferred)' = RowsOf(handle.deferred)
      BY DEF RowsOf
    <2> QED BY <1>1, <1>2, <2>1 DEF ArrayInv, Account
  <1>5. Reported'
    BY <1>1, <1>2 DEF ArrayInv, Reported
  <1>6. Queue'
    <2>1. Batch(handle.deferred, exec)'
      BY DEF ArrayInv, Queue, Batch, RowsOf
    <2> QED BY <1>1, <1>2, <2>1 DEF ArrayInv, Queue
  <1>7. Effects'
    BY DEF ArrayInv, Effects
  <1> QED BY <1>3, <1>4, <1>5, <1>6, <1>7 DEF ArrayInv

\* The loop turns to the next row it is not to ignore.
LEMMA TurnsToRow ==
    ASSUME ArrayInv, CancelInv', NEW r, call.pc = "row", IsNext(r),
           pstat' = [pstat EXCEPT ![r] = "error"],
           AtRow', InProgress', call'.pc # "server",
           handle'.current = r, handle'.deferred = handle.deferred,
           handle'.count = handle.count, handle'.type = handle.type,
           UNCHANGED <<app, effect, exec>>
    PROVE  ArrayInv'
  <1>0. InProgress /\ ~AtRow /\ EndRow' = EndRow
    BY DEF InProgress, AtRow, Idle, EndRow
  <1>1. EndRow \in Int /\ handle.current \in 0 .. EndRow
    BY <1>0, ArrayTypes DEF ArrayInv, Place, Rows
  <1>2. /\ r \in handle.current .. EndRow /\ r \notin app.ignored
        /\ \A s \in handle.current .. r - 1 : s \in app.ignored
    BY <1>1 DEF IsNext, RowsLeft
  <1>3. \A s \in 0 .. EndRow : /\ Passed(s)' <=> Passed(s)
                               /\ InEffect(s)' <=> InEffect(s)
                               /\ Passed(s) => s # r
    BY <1>1, <1>2 DEF Passed, InEffect
  <1>4. Place'
    BY <1>0, <1>1, <1>2 DEF Place
  <1>5. Account'
    <2>1. RowsOf(handle.deferred)' = RowsOf(handle.deferred)
      BY DEF RowsOf
    <2> QED BY <1>0, <1>3, <2>1 DEF ArrayInv, Account
  <1>6. Reported'
    <2>1. \A s \in 0 .. EndRow : pstat[s] = IF Passed(s) THEN "success" ELSE "unused"
      BY <1>0 DEF ArrayInv, Reported
    <2>2. \A s \in 0 .. EndRow : pstat'[s] = IF s = r THEN "error" ELSE pstat[s]
      BY ArrayTypes
    <2>3. \A s \in 0 .. EndRow : pstat'[s] = IF Passed(s)' THEN "success"
                                             ELSE IF s = r THEN "error" ELSE "unused"
      BY <1>3, <2>1, <2>2
    <2> QED BY <1>0, <2>3 DEF Reported
  <1>7. Queue'
    <2>1. Batch(handle.deferred, exec)'
      BY DEF ArrayInv, Queue, Batch, RowsOf
    <2> QED BY <1>0, <1>3, <2>1 DEF ArrayInv, Queue
  <1>8. Effects' /\ Message'
    BY DEF ArrayInv, Effects, Message
  <1> QED BY <1>4, <1>5, <1>6, <1>7, <1>8 DEF ArrayInv


LEMMA RecycledQueue ==
    ASSUME NEW h \in Handle
    PROVE  /\ Recycle(h) \in Handle /\ Recycle(h).deferred = h.deferred
           /\ Recycle(h).count = h.count /\ Recycle(h).current = h.current
  <1>1. Recycle(h) \in Handle
    BY FreedType
  <1>2. /\ Recycle(h).deferred = h.deferred /\ Recycle(h).count = h.count
        /\ Recycle(h).current = h.current
    BY DEF Recycle, FreeData, Handle
  <1> QED BY <1>1, <1>2

LEMMA ArrayBetween ==
    ASSUME ArrayInv, CancelInv', Prepare \/ Close \/ ResetParams
    PROVE  ArrayInv'
  <1>0. handle \in Handle
    BY ArrayTypes
  <1>1. handle'.deferred = handle.deferred /\ handle'.count = handle.count
    <2>1. Recycle(handle) \in Handle
      BY <1>0, RecycledQueue
    <2>2. Recycle(handle).deferred = handle.deferred /\ Recycle(handle).count = handle.count
      BY <1>0, RecycledQueue
    <2>3. CASE Prepare
      BY <1>0, <2>1, <2>2, <2>3 DEF Prepare, InitializeStmts, Handle
    <2>4. CASE Close
      BY <2>2, <2>4 DEF Close
    <2>5. CASE ResetParams
      BY <1>0, <2>5 DEF ResetParams, FreeData, Handle
    <2> QED BY <2>3, <2>4, <2>5
  <1>2. ~InProgress /\ ~InProgress' /\ UNCHANGED <<app, pstat, effect, exec>>
    BY DEF Prepare, Close, ResetParams, InProgress, Idle
  <1> QED BY <1>1, <1>2, KeepsResting

LEMMA ArrayCancels ==
    ASSUME ArrayInv, CancelInv', CancelDialogue \/ CancelAtServer \/ CancelReset
    PROVE  ArrayInv'
  <1>1. CASE CancelDialogue \/ CancelAtServer
    BY <1>1, KeepsAll DEF CancelDialogue, CancelAtServer, CancelBegins
  <1>2. CASE CancelReset
    <2>1. /\ handle'.deferred = handle.deferred /\ handle'.count = handle.count
      BY <1>2, ArrayTypes DEF CancelReset, Handle
    <2>2. ~InProgress' /\ UNCHANGED <<app, pstat, effect, exec>>
      BY <1>2 DEF CancelReset, InProgress, Idle
    <2>3. handle.deferred = << >>
      BY <1>2 DEF CancelReset, ArrayInv, Queue, CancelInv, WhyNoneWaits
    <2> QED BY <2>1, <2>2, <2>3, KeepsResting, EndsEmpty
  <1> QED BY <1>1, <1>2

LEMMA ArrayStarts ==
    ASSUME ArrayInv, CancelInv', Careful, Execute \/ ExecDirect
    PROVE  ArrayInv'
  <1>0. /\ TypeOK /\ handle \in Handle /\ exec \in Int /\ "pc" \in DOMAIN call
        /\ ~InProgress /\ Idle /\ dm = "idle"
    BY ArrayTypes, CallField DEF InProgress, Idle, Execute, ExecDirect, MayExecute
  <1>1. PICK h \in Handle : /\ StartRows(h) \/ ParametersUnknown(h)
                            /\ h.deferred = handle.deferred /\ h.count = handle.count
                            /\ h.current <= 0
    <2>1. \A g \in Handle : /\ Recycle(g) \in Handle /\ Recycle(g).deferred = g.deferred
                            /\ Recycle(g).count = g.count /\ Recycle(g).current = g.current
      BY RecycledQueue
    <2>2. CASE Execute
      <3>1. PICK g \in Handle : /\ g = IF handle.status = "finished" THEN Recycle(handle) ELSE handle
                                /\ g.deferred = handle.deferred /\ g.count = handle.count
        BY <1>0, <2>1
      <3>2. ExecuteHandle(handle) = [g EXCEPT !.current = None]
        BY <3>1 DEF ExecuteHandle
      <3>3. /\ ExecuteHandle(handle) \in Handle /\ ExecuteHandle(handle).current <= 0
            /\ ExecuteHandle(handle).deferred = handle.deferred
            /\ ExecuteHandle(handle).count = handle.count
        BY <3>1, <3>2, Numbers, SMTT(30) DEF Handle, None
      <3> QED BY <2>2, <3>3 DEF Execute
    <2>3. CASE ExecDirect
      <3>0. InitializeStmts(handle) \in Handle
        BY <1>0 DEF InitializeStmts, Handle
      <3>1. PICK g \in Handle : g = InitializeStmts(handle) /\ g.deferred = handle.deferred
                                /\ g.count = handle.count /\ g.current = handle.current
        <4>1. /\ InitializeStmts(handle).deferred = handle.deferred
              /\ InitializeStmts(handle).count = handle.count
              /\ InitializeStmts(handle).current = handle.current
          BY <1>0 DEF InitializeStmts, Handle
        <4> QED BY <3>0, <4>1
      <3>2. handle.current <= 0
        BY <2>3 DEF ExecDirect, Careful
      <3> QED BY <2>1, <2>3, <3>1, <3>2 DEF ExecDirect
    <2> QED BY <2>2, <2>3
  <1>2. CASE StartRows(h)
    <2>1. handle' = FirstRow(h, app'.n)
      BY <1>1, <1>2 DEF StartRows, Handle, None
    <2>2. /\ handle'.current = 0 /\ handle'.deferred = << >> /\ handle'.count = 0
      <3>1. Recycle(h) \in Handle /\ Recycle(h).deferred = h.deferred /\ Recycle(h).count = h.count
        BY RecycledQueue
      <3> QED BY <1>0, <1>1, <2>1, <3>1, Resting DEF FirstRow, Handle
    <2>3. app' \in App /\ exec' = exec + 1 /\ UNCHANGED effect
      BY <1>2 DEF StartRows, Arrays
    <2>4. InProgress' /\ ~AtRow' /\ call'.pc = "row"
      BY <1>0, <1>2 DEF StartRows, InProgress, AtRow, Idle
    <2>5. app'.n \in 1 .. MaxRows /\ EndRow' = app'.n - 1
      BY <2>3 DEF App, EndRow
    <2>6. \A i \in DOMAIN effect : effect[i].exec \in Int /\ effect[i].exec <= exec
      <3>1. \A i \in DOMAIN effect : effect[i] \in Row
        BY ArrayTypes
      <3> QED BY <3>1, ArrayAssumption DEF ArrayInv, Effects, Row
    <2>7. \A r : ~InEffect(r)'
      BY <1>0, <2>3, <2>6 DEF InEffect
    <2>8. \A r : ~Passed(r)' \/ r < 0
      BY <2>2 DEF Passed
    <2>9. \A r \in 0 .. app'.n - 1 : pstat'[r] = "unused"
      <3>1. \A r \in 0 .. app'.n - 1 : r \in Rows /\ r < app'.n
        BY <2>5, ArrayAssumption DEF Rows
      <3> QED BY <1>1, <1>2, <3>1 DEF StartRows, Handle, None
    <2>10. \A r : r \notin RowsOf(handle.deferred)'
      BY <2>2, BatchEmpty DEF RowsOf
    <2>11. Place' /\ Effects'
      BY <1>0, <2>2, <2>3, <2>4, <2>5, <2>6 DEF Place, Effects
    <2>12. Account'
      BY <2>5, <2>7, <2>8, <2>10 DEF Account
    <2>13. Reported'
      BY <2>4, <2>5, <2>8, <2>9 DEF Reported
    <2>14. Queue'
      <3>1. PICK e : e = exec'
        OBVIOUS
      <3>2. Batch(<< >>, e) /\ DOMAIN << >> = {} /\ Len(<< >>) = 0
        BY BatchEmpty
      <3>3. Batch(handle.deferred, exec)'
        BY <2>2, <3>1, <3>2 DEF Batch, RowsOf
      <3> QED BY <2>2, <3>2, <3>3 DEF Queue
    <2>15. Message'
      BY <2>4 DEF Message
    <2> QED BY <2>11, <2>12, <2>13, <2>14, <2>15 DEF ArrayInv
  <1>3. CASE ParametersUnknown(h)
    <2>1. handle'.deferred = handle.deferred /\ handle'.count = handle.count
      <3>1. PICK a : handle' = [(IF h.status = "finished" THEN Recycle(h) ELSE h)
                                EXCEPT !.current = 0, !.method = HowToPrepare(h, a.n)]
        BY <1>3 DEF ParametersUnknown
      <3>2. /\ Recycle(h) \in Handle /\ Recycle(h).deferred = h.deferred
            /\ Recycle(h).count = h.count
        BY RecycledQueue
      <3> QED BY <1>1, <3>1, <3>2 DEF Handle
    <2>2. ~InProgress' /\ UNCHANGED <<app, pstat, effect, exec>>
      BY <1>0, <1>3 DEF ParametersUnknown, InProgress, Idle
    <2> QED BY <1>0, <2>1, <2>2, KeepsResting
  <1> QED BY <1>1, <1>2, <1>3

LEMMA ArrayDialogue ==
    ASSUME ArrayInv, CancelInv', ParamToken \/ ParamDataComplete \/ PutData
    PROVE  ArrayInv'
  <1>0. TypeOK /\ handle \in Handle /\ "pc" \in DOMAIN call
    BY ArrayTypes, CallField DEF TypeOK
  <1>1. /\ handle'.current = handle.current /\ handle'.deferred = handle.deferred
        /\ handle'.count = handle.count /\ handle'.type = handle.type
    BY <1>0 DEF ParamToken, Token, ParamDataComplete, PutData, Handle
  <1>2. AtRow /\ AtRow' /\ call'.pc # "server" /\ UNCHANGED <<app, pstat, effect, exec>>
    BY <1>0 DEF ParamToken, ParamDataComplete, PutData, NeedData, AtRow, Idle
  <1>3. Message'
    BY <1>2 DEF Message
  <1> QED BY <1>1, <1>2, <1>3, StaysAtRow

LEMMA ArrayRows ==
    ASSUME ArrayInv, CancelInv', BoundRow \/ DataRow \/ FinishRows
    PROVE  ArrayInv'
  <1>0. TypeOK /\ handle \in Handle /\ "pc" \in DOMAIN call
    BY ArrayTypes, CallField DEF TypeOK
  <1>1. \A r : /\ RowHandle(r).current = r /\ RowHandle(r).deferred = handle.deferred
               /\ RowHandle(r).count = handle.count /\ RowHandle(r).type = handle.type
               /\ {"current", "deferred", "count", "type"} \subseteq DOMAIN RowHandle(r)
    BY <1>0 DEF RowHandle, FreeData, Handle
  <1>2. CASE BoundRow
    <2>1. PICK r \in Rows : /\ StartRow(r) /\ handle' = RowHandle(r)
                            /\ call' = [call EXCEPT !.pc = "resolve"] /\ UNCHANGED dm
      BY <1>2 DEF BoundRow
    <2>2. AtRow' /\ InProgress' /\ call'.pc # "server"
      BY <1>0, <2>1 DEF AtRow, InProgress, Idle
    <2> QED BY <1>1, <2>1, <2>2, TurnsToRow DEF StartRow
  <1>3. CASE DataRow
    <2>1. PICK r, g : /\ StartRow(r) /\ g = [RowHandle(r) EXCEPT !.dae = Params]
                      /\ handle' = g \/ handle' = Token(g)
                      /\ NeedData("need") \/ NeedData("must")
      BY <1>3 DEF DataRow
    <2>2. /\ handle'.current = r /\ handle'.deferred = handle.deferred
          /\ handle'.count = handle.count /\ handle'.type = handle.type
      <3>1. /\ g.current = r /\ g.deferred = handle.deferred /\ g.count = handle.count
            /\ g.type = handle.type /\ {"current", "deferred", "count", "type"} \subseteq DOMAIN g
        BY <1>1, <2>1
      <3> QED BY <2>1, <3>1 DEF Token
    <2>3. AtRow' /\ InProgress' /\ call'.pc # "server"
      BY <1>0, <2>1 DEF NeedData, AtRow, InProgress, Idle
    <2> QED BY <2>1, <2>2, <2>3, TurnsToRow DEF StartRow
  <1>4. CASE FinishRows
    <2>1. handle'.deferred = handle.deferred /\ handle'.count = handle.count
      BY <1>0, <1>4 DEF FinishRows, Handle
    <2>2. InProgress /\ ~InProgress' /\ UNCHANGED <<app, pstat, effect, exec>>
      BY <1>0, <1>4 DEF FinishRows, Over, InProgress, Idle
    <2>3. handle.deferred = << >>
      BY <1>4 DEF FinishRows, ArrayInv, Queue
    <2> QED BY <2>1, <2>2, <2>3, EndsEmpty
  <1> QED BY <1>2, <1>3, <1>4


-----------------------------------------------------------------------------
(* The steps that defer rows and send them.                                *)

LEMMA RowInTurn ==
    ASSUME ArrayInv, call.pc = "resolve"
    PROVE  /\ InProgress /\ AtRow
           /\ handle.current \in 0 .. EndRow /\ handle.current \notin app.ignored
           /\ TheRow \in Row /\ TheRow.exec = exec /\ TheRow.row = handle.current
           /\ \A q \in 0 .. EndRow : InEffect(q) => q < handle.current
           /\ \A i \in DOMAIN handle.deferred : handle.deferred[i].row < handle.current
           /\ Batch(Append(handle.deferred, TheRow), exec)
           /\ RowsOf(Append(handle.deferred, TheRow)) = RowsOf(handle.deferred) \cup {handle.current}
  <1>1. InProgress /\ AtRow
    BY DEF InProgress, AtRow, Idle
  <1>2. handle.current \in 0 .. EndRow /\ handle.current \notin app.ignored
    BY <1>1 DEF ArrayInv, Place
  <1>3. TheRow \in Row /\ TheRow.exec = exec /\ TheRow.row = handle.current
    <2>1. handle.current \in Rows /\ TypeOK
      BY <1>2, ArrayTypes
    <2> QED BY <2>1, RowType DEF TheRow
  <1>4. \A q \in 0 .. EndRow : InEffect(q) => q < handle.current
    BY <1>1 DEF ArrayInv, Account, Passed
  <1>5. \A i \in DOMAIN handle.deferred : handle.deferred[i].row < handle.current
    BY <1>1, RowsOfAny DEF ArrayInv, Account, Queue, Passed
  <1>6. Batch(handle.deferred, exec) /\ handle.deferred \in Seq(Row)
    BY ArrayTypes DEF ArrayInv, Queue
  <1>7. Batch(Append(handle.deferred, TheRow), exec)
    BY <1>3, <1>5, <1>6, BatchAppend
  <1>8. RowsOf(Append(handle.deferred, TheRow)) = RowsOf(handle.deferred) \cup {handle.current}
    BY <1>3, <1>6, RowsOfAppend
  <1> QED BY <1>1, <1>2, <1>3, <1>4, <1>5, <1>7, <1>8

LEMMA ArrayBadValue ==
    ASSUME ArrayInv, CancelInv', Careful, BadValue
    PROVE  ArrayInv'
  <1>0. TypeOK /\ handle \in Handle /\ "pc" \in DOMAIN call
    BY ArrayTypes, CallField DEF TypeOK
  <1>1. handle'.deferred = handle.deferred /\ handle'.count = handle.count
    BY <1>0 DEF BadValue, Handle
  <1>2. InProgress /\ ~InProgress' /\ UNCHANGED <<app, pstat, effect, exec>>
    BY <1>0 DEF BadValue, Over, InProgress, Idle
  <1>3. handle.deferred = << >>
    BY DEF BadValue, Careful
  <1> QED BY <1>1, <1>2, <1>3, EndsEmpty

LEMMA ArrayDefer ==
    ASSUME ArrayInv, CancelInv', Defer
    PROVE  ArrayInv'
  <1>0. /\ handle \in Handle /\ call \in CallRec /\ "pc" \in DOMAIN call
        /\ handle.deferred \in Seq(Row) /\ handle.count \in Nat
        /\ EndRow \in Int /\ 0 .. EndRow \subseteq Rows /\ pstat \in [Rows -> Status]
    BY ArrayTypes, CallField DEF Rows
  <1>1. /\ handle'.deferred = Append(handle.deferred, TheRow) /\ handle'.count = handle.count + 1
        /\ handle'.current = handle.current + 1 /\ handle'.type = handle.type
    BY <1>0 DEF Defer, Handle
  <1>2. /\ call.pc = "resolve" /\ call'.pc = "row" /\ handle.type = "deferred"
        /\ handle.current < EndRow /\ UNCHANGED <<app, effect, exec>>
        /\ pstat' = [pstat EXCEPT ![handle.current] = "success"]
    BY <1>0 DEF Defer, MayDefer
  <1>3. InProgress' /\ ~AtRow' /\ EndRow' = EndRow
    BY <1>2 DEF InProgress, AtRow, Idle, EndRow
  <1>4. PICK r \in 0 .. EndRow : r = handle.current /\ r \notin app.ignored
    BY <1>2, RowInTurn
  <1>5. \A s \in 0 .. EndRow : /\ Passed(s)' <=> Passed(s) \/ s = r
                               /\ InEffect(s)' <=> InEffect(s)
    BY <1>1, <1>2, <1>4 DEF Passed, InEffect
  <1>6. PICK new \in Seq(Row) : new = Append(handle.deferred, TheRow)
    BY <1>0, <1>2, AppendDomain, RowInTurn
  <1>7. RowsOf(new) = RowsOf(handle.deferred) \cup {r} /\ Batch(new, exec) /\ new # << >>
    <2>1. Len(new) = Len(handle.deferred) + 1 /\ Len(handle.deferred) \in Nat
      BY <1>0, <1>2, <1>6, AppendDomain, RowInTurn
    <2>2. RowsOf(new) = RowsOf(handle.deferred) \cup {r} /\ Batch(new, exec)
      BY <1>2, <1>4, <1>6, RowInTurn
    <2> QED BY <2>1, <2>2
  <1>8. RowsOf(handle.deferred)' = RowsOf(new) /\ Batch(handle.deferred, exec)'
    <2>1. handle'.deferred = new /\ exec' = exec
      BY <1>1, <1>2, <1>6
    <2>2. RowsOf(handle.deferred)' = RowsOf(new)
      BY <2>1 DEF RowsOf
    <2>3. Batch(handle.deferred, exec)'
      BY <1>7, <2>1 DEF RowsOf, Batch
    <2> QED BY <2>2, <2>3
  <1>9. Place'
    BY <1>0, <1>1, <1>2, <1>3, <1>4 DEF Place
  <1>10. Account'
    BY <1>2, <1>3, <1>5, <1>7, <1>8, RowInTurn DEF ArrayInv, Account
  <1>11. Reported'
    <2>1. \A s \in 0 .. EndRow : pstat[s] = IF Passed(s) THEN "success"
                                            ELSE IF s = r THEN "error" ELSE "unused"
      BY <1>2, <1>4, RowInTurn DEF ArrayInv, Reported
    <2>2. \A s \in 0 .. EndRow : pstat'[s] = IF s = r THEN "success" ELSE pstat[s]
      BY <1>0, <1>2, <1>4
    <2>3. \A s \in 0 .. EndRow : pstat'[s] = IF Passed(s)' THEN "success" ELSE "unused"
      BY <1>5, <2>1, <2>2
    <2> QED BY <1>3, <2>3 DEF Reported
  <1>12. Queue'
    <2>1. DOMAIN new = DOMAIN handle.deferred \cup {Len(handle.deferred) + 1}
      BY <1>0, <1>2, <1>6, AppendDomain, RowInTurn
    <2>2. new[Len(handle.deferred) + 1].row = r /\ \A i \in DOMAIN handle.deferred : new[i] = handle.deferred[i]
      BY <1>0, <1>2, <1>4, <1>6, AppendDomain, RowInTurn
    <2>3. \A i \in DOMAIN new : /\ new[i].row \in 0 .. EndRow
                                /\ \A q \in 0 .. EndRow : InEffect(q) => q < new[i].row
      BY <1>2, <1>4, <2>1, <2>2, RowInTurn DEF ArrayInv, Queue
    <2>4. handle'.count = Len(new)
      BY <1>0, <1>1, <1>2, <1>6, AppendDomain, RowInTurn DEF ArrayInv, Queue
    <2> QED BY <1>1, <1>2, <1>3, <1>5, <1>6, <1>8, <2>3, <2>4 DEF Queue
  <1>13. Effects' /\ Message'
    BY <1>2 DEF ArrayInv, Effects, Message
  <1> QED BY <1>9, <1>10, <1>11, <1>12, <1>13 DEF ArrayInv

LEMMA ArraySendRow ==
    ASSUME ArrayInv, CancelInv', SendRow
    PROVE  ArrayInv'
  <1>0. /\ handle \in Handle /\ call \in CallRec /\ handle.deferred \in Seq(Row)
    BY ArrayTypes
  <1>1. /\ handle'.deferred = handle.deferred /\ handle'.count = handle.count
        /\ handle'.current = handle.current /\ handle'.type = handle.type
        /\ handle.type \in {"direct", "deferred"}
    BY <1>0 DEF SendRow, Handle
  <1>2. /\ call.pc = "resolve" /\ call'.pc = "server" /\ UNCHANGED <<app, pstat, effect, exec>>
        /\ call'.kind = IF handle.type = "direct" THEN "direct" ELSE "batch"
        /\ call'.msg = IF handle.type = "direct" THEN <<TheRow>> ELSE Append(handle.deferred, TheRow)
    BY <1>0 DEF SendRow, CallRec
  <1>3. AtRow /\ AtRow'
    BY <1>2 DEF AtRow
  <1>4. PICK m : m = call'.msg
    OBVIOUS
  <1>5. /\ Batch(m, exec) /\ RowsOf(m) = RowsOf(handle.deferred) \cup {handle.current}
        /\ Len(m) = Len(handle.deferred) + 1
    <2>1. TheRow \in Row /\ TheRow.exec = exec /\ TheRow.row = handle.current
      BY <1>2, RowInTurn
    <2>2. CASE handle.type = "direct"
      <3>1. handle.deferred = << >> /\ m = <<TheRow>>
        BY <1>2, <1>4, <2>2 DEF ArrayInv, Queue
      <3>2. RowsOf(handle.deferred) = {} /\ RowsOf(m) = {handle.current}
        BY <2>1, <3>1, BatchEmpty, BatchOne
      <3>3. Batch(m, exec)
        BY <2>1, <3>1, BatchOne
      <3>4. Len(m) = Len(handle.deferred) + 1
        BY <3>1
      <3> QED BY <3>2, <3>3, <3>4
    <2>3. CASE handle.type # "direct"
      <3>1. m = Append(handle.deferred, TheRow)
        BY <1>2, <1>4, <2>3
      <3> QED BY <1>0, <1>2, <2>1, <3>1, RowInTurn, AppendDomain
    <2> QED BY <2>2, <2>3
  <1>6. Message'
    <2>1. Batch(call.msg, exec)'
      BY <1>2, <1>4, <1>5 DEF Batch, RowsOf
    <2>2. RowsOf(call.msg)' = RowsOf(handle.deferred)' \cup {handle'.current}
      BY <1>1, <1>4, <1>5, ZenonT(40) DEF RowsOf
    <2> QED BY <1>1, <1>2, <1>4, <1>5, <2>1, <2>2 DEF Message
  <1> QED BY <1>1, <1>2, <1>3, <1>6, StaysAtRow

LEMMA ArraySendDeferred ==
    ASSUME ArrayInv, CancelInv', SendDeferred
    PROVE  ArrayInv'
  <1>0. /\ handle \in Handle /\ call \in CallRec /\ handle.deferred \in Seq(Row) /\ EndRow \in Int
    BY ArrayTypes DEF Rows
  <1>1. /\ call.pc = "row" /\ call'.pc = "server" /\ call'.kind = "last"
        /\ call'.msg = handle.deferred /\ handle.type = "deferred" /\ handle.deferred # << >>
        /\ RowsLeft = {} /\ UNCHANGED <<app, pstat, effect, exec>>
    BY <1>0 DEF SendDeferred, CallRec
  <1>2. InProgress /\ ~AtRow /\ InProgress' /\ ~AtRow' /\ EndRow' = EndRow
    BY <1>1 DEF InProgress, AtRow, Idle, EndRow
  <1>3. handle.current \in 0 .. EndRow
    BY <1>2 DEF ArrayInv, Place
  <1>4. /\ handle'.deferred = handle.deferred /\ handle'.count = handle.count
        /\ handle'.current = EndRow /\ handle'.type = handle.type
    BY <1>0, <1>3 DEF SendDeferred, Handle
  <1>5. \A r \in handle.current .. EndRow : r \in app.ignored
    BY <1>1 DEF RowsLeft
  <1>6. \A r \in 0 .. EndRow : (Passed(r)' <=> Passed(r)) /\ (InEffect(r)' <=> InEffect(r))
    BY <1>0, <1>1, <1>3, <1>4, <1>5 DEF Passed, InEffect
  <1>7. RowsOf(handle.deferred)' = RowsOf(handle.deferred) /\ Batch(handle.deferred, exec)'
    BY <1>1, <1>4 DEF ArrayInv, Queue, RowsOf, Batch
  <1>8. Place' /\ Effects'
    BY <1>0, <1>1, <1>2, <1>3, <1>4 DEF ArrayInv, Place, Effects
  <1>9. Account'
    BY <1>2, <1>6, <1>7 DEF ArrayInv, Account
  <1>10. Reported'
    BY <1>1, <1>2, <1>6 DEF ArrayInv, Reported
  <1>11. Queue'
    BY <1>1, <1>2, <1>4, <1>6, <1>7 DEF ArrayInv, Queue
  <1>12. Message'
    <2>1. Batch(call.msg, exec)'
      BY <1>1, <1>4, <1>7 DEF RowsOf, Batch
    <2>2. EndRow \in app.ignored
      BY <1>0, <1>3, <1>5
    <2> QED BY <1>1, <1>2, <1>4, <2>1, <2>2 DEF Message
  <1> QED BY <1>8, <1>9, <1>10, <1>11, <1>12 DEF ArrayInv


-----------------------------------------------------------------------------
(* The answer to a message.                                                *)

LEMMA InEffectAfter ==
    ASSUME ArrayInv, call.pc = "server", effect' = effect \o call.msg, UNCHANGED exec
    PROVE  /\ \A r : InEffect(r)' <=> InEffect(r) \/ r \in RowsOf(call.msg)
           /\ Effects'
  <1>1. PICK old \in Seq(Row), m \in Seq(Row), new \in Seq(Row) :
           /\ old = effect /\ m = call.msg /\ new = old \o m
    <2>1. effect \in Seq(Row) /\ call.msg \in Seq(Row) /\ effect \o call.msg \in Seq(Row)
      BY ArrayTypes
    <2> QED BY <2>1
  <1>2. \A i \in DOMAIN m : m[i].exec = exec
    BY <1>1 DEF ArrayInv, Message, Batch
  <1>3. /\ \A i \in DOMAIN old : i \in DOMAIN new /\ new[i] = old[i]
        /\ \A i \in DOMAIN m : i + Len(old) \in DOMAIN new /\ new[i + Len(old)] = m[i]
        /\ \A i \in DOMAIN new : \/ i \in DOMAIN old /\ new[i] = old[i]
                                 \/ i - Len(old) \in DOMAIN m /\ new[i] = m[i - Len(old)]
    BY <1>1
  <1>4. \A r : (\E i \in DOMAIN new : new[i].exec = exec /\ new[i].row = r)
               <=> \/ \E i \in DOMAIN old : old[i].exec = exec /\ old[i].row = r
                   \/ \E i \in DOMAIN m : m[i].row = r
    <2>1. ASSUME NEW i \in DOMAIN m
          PROVE  \E j \in DOMAIN new : new[j].exec = exec /\ new[j].row = m[i].row
      BY <1>2, <1>3
    <2>2. ASSUME NEW i \in DOMAIN old
          PROVE  \E j \in DOMAIN new : new[j] = old[i]
      BY <1>3
    <2>3. ASSUME NEW i \in DOMAIN new
          PROVE  (\E j \in DOMAIN old : new[i] = old[j]) \/ (\E j \in DOMAIN m : new[i] = m[j])
      BY <1>3
    <2>4. \A r : (\E i \in DOMAIN old : old[i].exec = exec /\ old[i].row = r)
                 => \E i \in DOMAIN new : new[i].exec = exec /\ new[i].row = r
      BY <2>2, Zenon
    <2>5. \A r : (\E i \in DOMAIN m : m[i].row = r)
                 => \E i \in DOMAIN new : new[i].exec = exec /\ new[i].row = r
      BY <2>1, Zenon
    <2>6. \A r : (\E i \in DOMAIN new : new[i].exec = exec /\ new[i].row = r)
                 => \/ \E i \in DOMAIN old : old[i].exec = exec /\ old[i].row = r
                    \/ \E i \in DOMAIN m : m[i].row = r
      BY <2>3, Zenon
    <2> QED BY <2>4, <2>5, <2>6, Zenon
  <1>5. \A r : InEffect(r)' <=> InEffect(r) \/ r \in RowsOf(call.msg)
    <2>1. effect' = new
      BY <1>1
    <2>2. \A r : InEffect(r)' <=> \E i \in DOMAIN new : new[i].exec = exec /\ new[i].row = r
      BY <2>1 DEF InEffect
    <2>3. \A r : InEffect(r) <=> \E i \in DOMAIN old : old[i].exec = exec /\ old[i].row = r
      BY <1>1 DEF InEffect
    <2>4. \A r : r \in RowsOf(call.msg) <=> \E i \in DOMAIN m : m[i].row = r
      BY <1>1, RowsOfAny
    <2> QED BY <1>4, <2>2, <2>3, <2>4, Zenon
  <1>6. Effects'
    <2>1. \A i \in DOMAIN old : old[i].exec <= exec
      BY <1>1 DEF ArrayInv, Effects
    <2>2. exec \in Int
      BY ArrayTypes
    <2>3. \A i \in DOMAIN new : new[i].exec <= exec
      BY <1>2, <1>3, <2>1, <2>2
    <2>4. effect' = new /\ exec' = exec
      BY <1>1
    <2> QED BY <2>3, <2>4 DEF Effects
  <1> QED BY <1>5, <1>6

\* The rows with a status are those the loop has passed or is at.
LEMMA UsedRows ==
    ASSUME ArrayInv, call.pc = "server", NEW r \in 0 .. EndRow
    PROVE  /\ pstat[r] # "unused" <=> InEffect(r) \/ r \in RowsOf(call.msg)
           /\ pstat[r] = "success" => Passed(r)
           /\ r \in RowsOf(call.msg) => r <= handle.current
           /\ InEffect(r) => /\ \A s \in RowsOf(call.msg) : r < s
                             /\ r < handle.current
           /\ call.kind = "last" => (pstat[r] # "unused" => pstat[r] = "success")
           /\ call.kind # "last" => (pstat[r] # "unused" => pstat[r] = "success" \/ r = handle.current)
  <1>1. InProgress /\ (AtRow <=> call.kind # "last")
    BY DEF InProgress, AtRow, Idle
  <1>2. pstat[r] = IF Passed(r) THEN "success" ELSE IF AtRow /\ r = handle.current THEN "error" ELSE "unused"
    BY <1>1 DEF ArrayInv, Reported
  <1>3. Passed(r) <=> InEffect(r) \/ r \in RowsOf(handle.deferred)
    BY <1>1 DEF ArrayInv, Account
  <1>4. handle.current \in 0 .. EndRow /\ EndRow \in Int
    BY <1>1, ArrayTypes DEF ArrayInv, Place, Rows
  <1>5. /\ call.kind = "last" => RowsOf(call.msg) = RowsOf(handle.deferred)
        /\ call.kind # "last" => RowsOf(call.msg) = RowsOf(handle.deferred) \cup {handle.current}
    BY DEF ArrayInv, Message
  <1>6. InEffect(r) => /\ \A s \in RowsOf(call.msg) : r < s
                       /\ r < handle.current
    <2>1. InEffect(r) => \A s \in RowsOf(handle.deferred) : r < s
      BY RowsOfAny DEF ArrayInv, Queue
    <2>2. InEffect(r) => r < handle.current
      BY <1>3 DEF Passed
    <2> QED BY <1>5, <2>1, <2>2
  <1>7. r \in RowsOf(call.msg) => r <= handle.current
    BY <1>3, <1>4, <1>5 DEF Passed
  <1> QED BY <1>1, <1>2, <1>3, <1>5, <1>6, <1>7

\* param_status_batch_update reports on the rows of the message.
LEMMA UpdatedRows ==
    ASSUME ArrayInv, call.pc = "server", NEW r \in 0 .. EndRow
    PROVE  /\ r \in RowsOf(call.msg) => r \in Updated(handle.current, handle.count)
           /\ call.kind # "last" /\ InEffect(r) => r \notin Updated(handle.current, handle.count)
  <1>0. /\ InProgress /\ 0 .. EndRow \subseteq Rows /\ EndRow \in Int /\ handle.count \in Nat
        /\ handle.current \in 0 .. EndRow
    BY ArrayTypes DEF InProgress, Idle, ArrayInv, Place, Rows
  <1>1. PICK B : B = RowsOf(call.msg)
    OBVIOUS
  <1>2. PICK N : N = {s \in r .. handle.current : pstat[s] # "unused"}
    OBVIOUS
  <1>3. \A s : s \in N <=> s \in r .. handle.current /\ pstat[s] # "unused"
    BY <1>2
  <1>4. /\ IsFiniteSet(B) /\ Cardinality(B) = Len(call.msg)
        /\ Cardinality(B) \in Nat /\ Cardinality(B) <= handle.count + 1
        /\ call.kind # "last" => Cardinality(B) = handle.count + 1
    <2>1. IsFiniteSet(B) /\ Cardinality(B) = Len(call.msg)
      BY <1>1 DEF ArrayInv, Message, Batch
    <2>2. Cardinality(B) \in Nat
      BY <2>1, FS_CardinalityType
    <2>3. call.kind # "last" => Len(call.msg) = handle.count + 1
      BY DEF ArrayInv, Message, Queue
    <2>4. call.kind = "last" => Len(call.msg) = handle.count
      BY DEF ArrayInv, Message, Queue
    <2> QED BY <1>0, <2>1, <2>2, <2>3, <2>4
  <1>5. ASSUME r \in B PROVE r \in Updated(handle.current, handle.count)
    <2>1. r <= handle.current /\ pstat[r] # "unused"
      BY <1>1, <1>5, UsedRows
    <2>2. N \subseteq B
      <3>1. \A s \in r .. handle.current : s \in 0 .. EndRow /\ r <= s
        BY <1>0
      <3>2. ASSUME NEW s \in r .. handle.current, pstat[s] # "unused" PROVE s \in B
        <4>1. InEffect(s) \/ s \in B
          BY <1>1, <3>1, <3>2, UsedRows
        <4>2. InEffect(s) => s < r
          BY <1>1, <1>5, <3>1, UsedRows
        <4> QED BY <3>1, <4>1, <4>2
      <3> QED BY <1>3, <3>2
    <2>3. Cardinality(N) <= Cardinality(B) /\ IsFiniteSet(N)
      BY <1>4, <2>2, FS_Subset
    <2>4. Cardinality(N) \in Nat
      BY <2>3, FS_CardinalityType
    <2>5. Cardinality(N) <= handle.count + 1
      BY <1>0, <1>4, <2>3, <2>4
    <2> QED BY <1>0, <1>2, <2>1, <2>5 DEF Updated
  <1>6. ASSUME call.kind # "last", InEffect(r)
        PROVE  r \notin Updated(handle.current, handle.count)
    <2>1. r \notin B /\ r < handle.current /\ \A s \in B : r < s
      <3>1. \A s \in B : r < s
        BY <1>1, <1>6, UsedRows
      <3>2. r < handle.current
        BY <1>6, UsedRows
      <3> QED BY <3>1, <3>2
    <2>2. B \subseteq 0 .. EndRow
      BY <1>0, <1>1, <1>6, RowsOfAny DEF ArrayInv, Message, Queue
    <2>3. B \cup {r} \subseteq N
      <3>1. \A s \in B : s \in r .. handle.current /\ pstat[s] # "unused"
        BY <1>0, <1>1, <2>1, <2>2, UsedRows
      <3>2. r \in r .. handle.current /\ pstat[r] # "unused"
        BY <1>0, <1>6, <2>1, UsedRows
      <3> QED BY <1>3, <3>1, <3>2
    <2>4. IsFiniteSet(N)
      <3>1. IsFiniteSet(r .. handle.current)
        BY <1>0, FS_Interval
      <3> QED BY <1>3, <3>1, FS_Subset
    <2>5. Cardinality(B \cup {r}) = Cardinality(B) + 1
      BY <1>4, <2>1, FS_AddElement
    <2>6. Cardinality(B \cup {r}) <= Cardinality(N)
      BY <2>3, <2>4, FS_Subset
    <2>7. Cardinality(N) \in Nat
      BY <2>4, FS_CardinalityType
    <2>8. ~(Cardinality(N) <= handle.count + 1)
      BY <1>0, <1>4, <1>6, <2>5, <2>6, <2>7
    <2> QED BY <1>2, <2>8 DEF Updated
  <1> QED BY <1>1, <1>5, <1>6

\* A message that takes effect: which rows are reported.
LEMMA ReportedRows ==
    ASSUME ArrayInv, call.pc = "server",
           NEW rows \in {{StatusRow}, Updated(StatusRow, handle.count)}
    PROVE  /\ \A r \in 0 .. EndRow : r \in rows => pstat[r] # "unused"
           /\ call.kind # "last" => handle.current \in rows
  <1>0. /\ InProgress /\ 0 .. EndRow \subseteq Rows /\ EndRow \in Int /\ handle.count \in Nat
        /\ handle.current \in 0 .. EndRow
    BY ArrayTypes DEF InProgress, Idle, ArrayInv, Place, Rows
  <1>1. \A r \in Updated(StatusRow, handle.count) : pstat[r] # "unused"
    BY DEF Updated
  <1>2. CASE call.kind # "last"
    <2>1. StatusRow = handle.current
      BY <1>2 DEF StatusRow
    <2>2. pstat[handle.current] # "unused"
      BY <1>0, <1>2, UsedRows DEF ArrayInv, Message
    <2>3. handle.current \in Updated(handle.current, handle.count)
      BY <1>0, <1>2, UpdatedRows DEF ArrayInv, Message
    <2> QED BY <1>1, <2>1, <2>2, <2>3
  <1>3. CASE call.kind = "last"
    <2>1. PICK m \in Seq(Row) : m = call.msg /\ m # << >>
      BY <1>3, ArrayTypes DEF ArrayInv, Message
    <2>2. PICK n \in Nat : n = Len(m) /\ n \in DOMAIN m /\ \A i \in DOMAIN m : i \in Nat /\ i <= n
      <3>1. Len(m) \in Nat /\ Len(m) > 0 /\ DOMAIN m = 1 .. Len(m)
        BY <2>1
      <3>2. \A k \in Nat : k > 0 => k \in 1 .. k /\ \A i \in 1 .. k : i \in Nat /\ i <= k
        OBVIOUS
      <3>3. Len(m) \in DOMAIN m /\ \A i \in DOMAIN m : i \in Nat /\ i <= Len(m)
        BY <3>1, <3>2, Zenon
      <3> QED BY <3>1, <3>3, Zenon
    <2>3. PICK top : top = m[n].row
      OBVIOUS
    <2>4. top \in 0 .. EndRow /\ top \in RowsOf(call.msg)
      BY <1>3, <2>1, <2>2, <2>3, RowsOfAny DEF ArrayInv, Message, Queue
    <2>5. pstat[top] # "unused"
      BY <2>4, UsedRows
    <2>6. \A s \in RowsOf(call.msg) : s <= top
      <3>1. \A i \in DOMAIN m : i < n => m[i].row < m[n].row
        BY <2>1, <2>2 DEF ArrayInv, Message, Batch
      <3>2. \A i \in DOMAIN m : m[i].row \in Int
        BY <1>3, <2>1 DEF ArrayInv, Message, Queue
      <3>3. \A i \in DOMAIN m : m[i].row <= top
        BY <2>2, <2>3, <3>1, <3>2
      <3> QED BY <2>1, <3>3, RowsOfAny
    <2>7. \A s \in top + 1 .. EndRow : pstat[s] = "unused"
      <3>1. \A s \in top + 1 .. EndRow : s \in 0 .. EndRow /\ s > top
        BY <1>0, <2>4
      <3>2. ASSUME NEW s \in top + 1 .. EndRow PROVE ~InEffect(s) /\ s \notin RowsOf(call.msg)
        <4>1. InEffect(s) => s < top
          BY <2>4, <3>1, UsedRows
        <4>2. s \in RowsOf(call.msg) => s <= top
          BY <2>6
        <4> QED BY <1>0, <2>4, <3>1, <4>1, <4>2
      <3> QED BY <3>1, <3>2, UsedRows
    <2>8. StatusRow = LastUsed
      BY <1>3, <2>4, <2>5 DEF StatusRow
    <2>9. pstat[LastUsed] # "unused"
      BY <2>4, <2>5, <2>7 DEF LastUsed
    <2> QED BY <1>1, <1>3, <2>8, <2>9
  <1> QED BY <1>2, <1>3


LEMMA AnsweredHandle ==
    ASSUME ArrayInv, Done \/ Failed
    PROVE  /\ handle'.deferred = << >> /\ handle'.count = 0
           /\ call.pc = "server" /\ InProgress /\ UNCHANGED <<app, exec>>
           /\ handle.current \in 0 .. EndRow
  <1>0. /\ handle \in Handle /\ call.pc = "server" /\ InProgress
    BY ArrayTypes DEF Done, Failed, InProgress, Idle
  <1>1. call.kind = "direct" => handle.deferred = << >>
    BY <1>0 DEF ArrayInv, Message, Queue
  <1>2. PICK c : handle' = [Executed(handle) EXCEPT !.current = c]
    <2>1. Executed(handle).current = handle.current
      BY <1>0 DEF Executed, Handle
    <2> QED BY <2>1 DEF Done, Failed
  <1>3. /\ Executed(handle) \in Handle /\ Executed(handle).deferred = << >>
        /\ Executed(handle).count = 0
    <2>1. Executed(handle) \in Handle
      BY <1>0, ExecutedIn
    <2>2. Executed(handle).deferred = << >> /\ Executed(handle).count = 0
      BY <1>0, <1>1 DEF Executed, Handle
    <2> QED BY <2>1, <2>2
  <1>4. handle'.deferred = << >> /\ handle'.count = 0
    BY <1>2, <1>3 DEF Handle
  <1> QED BY <1>0, <1>4 DEF Done, Failed, ArrayInv, Place

\* A message that has taken effect: its rows, and only they, join the successes.
LEMMA DoneRows ==
    ASSUME ArrayInv, Done
    PROVE  /\ \A r \in 0 .. EndRow :
                 /\ pstat'[r] = "success" <=> InEffect(r)'
                 /\ pstat'[r] # "success" => pstat'[r] = pstat[r]
                 /\ InEffect(r)' <=> Passed(r) \/ (call.kind # "last" /\ r = handle.current)
           /\ Effects'
  <1>0. /\ call.pc = "server" /\ InProgress /\ UNCHANGED exec /\ (AtRow <=> call.kind # "last")
        /\ effect' = effect \o call.msg /\ 0 .. EndRow \subseteq Rows
    BY ArrayTypes DEF Done, InProgress, AtRow, Idle
  <1>1. PICK rows \in {{StatusRow}, Updated(StatusRow, handle.count)} :
           pstat' = [r \in Rows |-> IF r \in rows THEN "success" ELSE pstat[r]]
    BY DEF Done
  <1>2. /\ \A r : InEffect(r)' <=> InEffect(r) \/ r \in RowsOf(call.msg)
        /\ Effects'
    BY <1>0, InEffectAfter
  <1>3. ASSUME NEW r \in 0 .. EndRow
        PROVE  /\ pstat'[r] = "success" <=> InEffect(r)'
               /\ pstat'[r] # "success" => pstat'[r] = pstat[r]
               /\ InEffect(r)' <=> Passed(r) \/ (call.kind # "last" /\ r = handle.current)
    <2>1. InEffect(r)' <=> Passed(r) \/ (call.kind # "last" /\ r = handle.current)
      BY <1>0, <1>2 DEF ArrayInv, Account, Message
    <2>2. pstat[r] = IF Passed(r) THEN "success" ELSE IF AtRow /\ r = handle.current THEN "error" ELSE "unused"
      BY <1>0 DEF ArrayInv, Reported
    <2>3. r \in rows => pstat[r] # "unused"
      BY <1>0, <1>1, ReportedRows
    <2>4. call.kind # "last" /\ r = handle.current => r \in rows
      BY <1>0, <1>1, ReportedRows
    <2>5. pstat'[r] = IF r \in rows THEN "success" ELSE pstat[r]
      BY <1>0, <1>1
    <2> QED BY <1>0, <2>1, <2>2, <2>3, <2>4, <2>5
  <1> QED BY <1>2, <1>3

LEMMA ArrayDone ==
    ASSUME ArrayInv, CancelInv', Done
    PROVE  ArrayInv'
  <1>0. /\ handle \in Handle /\ "pc" \in DOMAIN call /\ EndRow \in Int
        /\ handle.current \in 0 .. EndRow /\ EndRow' = EndRow /\ UNCHANGED <<app, exec>>
        /\ handle'.deferred = << >> /\ handle'.count = 0
    BY ArrayTypes, CallField, AnsweredHandle DEF TypeOK, Rows, EndRow
  <1>1. CASE handle.current >= EndRow
    <2>1. ~InProgress'
      BY <1>0, <1>1 DEF Done, Over, InProgress, Idle
    <2>2. (\A r \in 0 .. EndRow : pstat[r] = "success" <=> InEffect(r))'
      BY <1>0, DoneRows
    <2> QED BY <1>0, <2>1, <2>2, DoneRows, Rests
  <1>2. CASE ~(handle.current >= EndRow)
    <2>1. /\ InProgress' /\ ~AtRow' /\ call'.pc = "row"
      BY <1>0, <1>2 DEF Done, InProgress, AtRow, Idle
    <2>2. handle'.current = handle.current + 1
      <3>1. Executed(handle) \in Handle /\ Executed(handle).current = handle.current
        BY <1>0, ExecutedIn, ZenonT(40) DEF Executed, Handle
      <3> QED BY <1>2, <3>1 DEF Done, Handle
    <2>3. call.kind # "last" /\ handle.current \notin app.ignored
      <3>1. call.pc = "server" /\ InProgress
        BY AnsweredHandle
      <3>2. call.kind # "last"
        BY <1>0, <1>2, <3>1 DEF ArrayInv, Message
      <3>3. AtRow
        BY <3>1, <3>2 DEF AtRow
      <3> QED BY <3>1, <3>2, <3>3 DEF ArrayInv, Place
    <2>4. \A r \in 0 .. EndRow : Passed(r)' <=> Passed(r) \/ r = handle.current
      BY <1>0, <2>2, <2>3 DEF Passed
    <2>5. \A r \in 0 .. EndRow : InEffect(r)' <=> Passed(r)'
      BY <2>3, <2>4, DoneRows
    <2>6. Place' /\ Effects' /\ Message'
      BY <1>0, <1>2, <2>1, <2>2, DoneRows DEF Place, Message
    <2>7. Account'
      <3>1. \A r : r \notin RowsOf(handle.deferred)'
        BY <1>0, BatchEmpty DEF RowsOf
      <3> QED BY <1>0, <2>5, <3>1 DEF Account
    <2>8. Reported'
      <3>1. ASSUME NEW r \in 0 .. EndRow
            PROVE  pstat'[r] = IF Passed(r)' THEN "success" ELSE "unused"
        <4>1. pstat[r] = IF Passed(r) THEN "success" ELSE IF r = handle.current THEN "error" ELSE "unused"
          BY <2>3, AnsweredHandle DEF ArrayInv, Reported, AtRow
        <4> QED BY <2>4, <2>5, <4>1, DoneRows
      <3> QED BY <1>0, <2>1, <3>1 DEF Reported
    <2>9. Queue'
      <3>1. PICK e : e = exec'
        OBVIOUS
      <3>2. Batch(<< >>, e) /\ DOMAIN << >> = {} /\ Len(<< >>) = 0
        BY BatchEmpty
      <3>3. Batch(handle.deferred, exec)'
        BY <1>0, <3>1, <3>2 DEF Batch, RowsOf
      <3> QED BY <1>0, <3>2, <3>3 DEF Queue
    <2> QED BY <2>6, <2>7, <2>8, <2>9 DEF ArrayInv
  <1> QED BY <1>1, <1>2

LEMMA ArrayFailed ==
    ASSUME ArrayInv, CancelInv', Careful, Failed
    PROVE  ArrayInv'
  <1>0. /\ call.pc = "server" /\ 0 .. EndRow \subseteq Rows /\ EndRow' = EndRow /\ UNCHANGED <<app, exec, effect>>
        /\ handle'.deferred = << >> /\ handle'.count = 0 /\ "pc" \in DOMAIN call
    BY ArrayTypes, CallField, AnsweredHandle DEF TypeOK, EndRow, Failed
  <1>1. ~InProgress'
    BY <1>0 DEF Failed, Over, InProgress, Idle
  <1>2. ASSUME NEW r \in 0 .. EndRow
        PROVE  pstat'[r] = "success" <=> InEffect(r)'
    <2>1. pstat'[r] = IF r \in Updated(handle.current, handle.count) THEN "error" ELSE pstat[r]
      BY <1>0 DEF Failed
    <2>2. /\ r \in RowsOf(call.msg) => r \in Updated(handle.current, handle.count)
          /\ call.kind # "last" /\ InEffect(r) => r \notin Updated(handle.current, handle.count)
      BY <1>0, UpdatedRows
    <2>3. call.kind = "last" => ~InEffect(r)
      BY DEF Failed, Careful
    <2>4. pstat[r] = "success" => InEffect(r) \/ r \in RowsOf(call.msg)
      BY <1>0, UsedRows
    <2>5. InEffect(r) => pstat[r] = "success"
      <3>1. InEffect(r) => pstat[r] # "unused" /\ r < handle.current
        BY <1>0, UsedRows
      <3>2. pstat[r] # "unused" => pstat[r] = "success" \/ r = handle.current
        BY <1>0, UsedRows
      <3>3. handle.current \in Int
        BY ArrayTypes
      <3> QED BY <3>1, <3>2, <3>3
    <2>6. InEffect(r)' <=> InEffect(r)
      BY <1>0 DEF InEffect
    <2> QED BY <2>1, <2>2, <2>3, <2>4, <2>5, <2>6
  <1>3. Effects'
    BY <1>0 DEF ArrayInv, Effects
  <1>4. (\A r \in 0 .. EndRow : pstat[r] = "success" <=> InEffect(r))'
    BY <1>0, <1>2
  <1> QED BY <1>0, <1>1, <1>3, <1>4, Rests

LEMMA CancelInvInit == Init => CancelInv
  <1> SUFFICES ASSUME Init PROVE CancelInv
    OBVIOUS
  <1>1. handle.deferred = << >> /\ call.pc = "idle" /\ dm = "idle"
    BY DEF Init
  <1>2. dead = {} /\ cancel.pc = "idle"
    BY DEF Init
  <1>3. NoneWaits /\ WhyNoneWaits
    BY <1>1, <1>2 DEF NoneWaits, WhyNoneWaits, InProgress, Idle
  <1> QED BY <1>3, InitTyped DEF CancelInv

LEMMA ArrayInit == Init => ArrayInv
  <1> SUFFICES ASSUME Init PROVE ArrayInv
    OBVIOUS
  <1>1. /\ handle.deferred = << >> /\ handle.count = 0 /\ effect = << >> /\ exec = 0
        /\ call.pc = "idle" /\ dm = "idle" /\ EndRow = 0 /\ pstat = [r \in Rows |-> "unused"]
    BY DEF Init, EndRow
  <1>2. ~InProgress /\ ~AtRow
    BY <1>1 DEF InProgress, AtRow, Idle
  <1>3. Place /\ Account /\ Message /\ Effects
    BY <1>1, <1>2 DEF Place, Account, Message, Effects
  <1>4. Reported
    <2>1. \A r : ~InEffect(r)
      BY <1>1 DEF InEffect
    <2>2. \A r \in 0 .. EndRow : r \in Rows
      BY <1>1, Numbers
    <2> QED BY <1>1, <1>2, <2>1, <2>2 DEF Reported
  <1>5. Queue
    <2>1. DOMAIN << >> = {} /\ Len(<< >>) = 0
      OBVIOUS
    <2> QED BY <1>1, <2>1, BatchEmpty DEF Queue
  <1> QED BY <1>3, <1>4, <1>5, CancelInvInit DEF ArrayInv

LEMMA ArrayStep ==
    ASSUME ArrayInv, Careful, [Next]_vars
    PROVE  ArrayInv'
  <1>1. CancelInv'
    BY CancelInvStep DEF ArrayInv, Careful
  <1>2. CASE UNCHANGED vars
    BY <1>1, <1>2, KeepsAll DEF vars
  <1>3. CASE Prepare \/ Close \/ ResetParams
    BY <1>1, <1>3, ArrayBetween
  <1>4. CASE Execute \/ ExecDirect
    BY <1>1, <1>4, ArrayStarts
  <1>5. CASE CallStep
    BY <1>1, <1>5, ArrayRows, ArraySendDeferred, ArrayBadValue, ArrayDefer, ArraySendRow,
       ArrayDone, ArrayFailed DEF CallStep
  <1>6. CASE ParamToken \/ ParamDataComplete \/ PutData
    BY <1>1, <1>6, ArrayDialogue
  <1>7. CASE CancelDialogue \/ CancelAtServer \/ CancelReset
    BY <1>1, <1>7, ArrayCancels
  <1> QED BY <1>2, <1>3, <1>4, <1>5, <1>6, <1>7 DEF Next

\* The status array tells the truth once an execution is over: of every message
\* of PGAPI_Execute, however many rows Exec_with_parameters_resolved deferred into
\* it and however many notices the server sent, exactly the rows in effect are
\* reported as SQL_PARAM_SUCCESS, if the application keeps clear of the paths that
\* Careful names.
THEOREM StatusTruthAlways ==
    ASSUME Careful
    PROVE  Spec => []StatusTruth
  <1>1. Init => ArrayInv
    BY ArrayInit
  <1>2. ArrayInv /\ [Next]_vars => ArrayInv'
    BY ArrayStep
  <1>3. ArrayInv => StatusTruth
    BY DEF ArrayInv, Reported, StatusTruth, InProgress
  <1> QED BY <1>1, <1>2, <1>3, PTL DEF Spec


-----------------------------------------------------------------------------
(* The data of the rows.                                                   *)

\* What SQLPutData was given for a parameter of a row, piece by piece.
Pieces(r, p) == [k \in 1 .. given[r][p] |-> [exec |-> exec, row |-> r]]

Own(row) == \A p \in Pars : row.data[p] = Pieces(row.row, p)
Owns(rows) == \A i \in DOMAIN rows : Own(rows[i])
OwnEffects == \A i \in DOMAIN effect : effect[i].exec = exec => Own(effect[i])

\* A row the loop has not turned to has been given nothing, nor has one whose
\* values are all bound.
Unasked == InProgress => \A r \in 0 .. EndRow : \A p \in Pars :
    r \notin app.atexec \/ r > handle.current \/ (r = handle.current /\ ~AtRow)
    => given[r][p] = 0

\* The PutDataInfo holds what the current row was given: nothing yet for the
\* parameters after the current one, and for it unless put_data says otherwise.
Handed ==
    /\ Idle /\ dm # "idle" => handle.current \in app.atexec
    /\ AtRow /\ call.pc # "server" /\ handle.current \in app.atexec =>
          \A p \in Pars :
             /\ handle.pdata[p] = Pieces(handle.current, p)
             /\ Idle => \/ p < handle.param \/ (p = handle.param /\ handle.put)
                        \/ given[handle.current][p] = 0

GivenInv == /\ ArrayInv /\ Unasked /\ Handed
            /\ Owns(handle.deferred) /\ OwnEffects
            /\ call.pc = "server" => Owns(call.msg)

LEMMA SamePieces ==
    ASSUME NEW c, NEW n \in Nat
    PROVE  /\ [k \in 1 .. n |-> c] \in Seq({c}) /\ Len([k \in 1 .. n |-> c]) = n
           /\ \A s \in Seq({c}) : Len(s) = n => s = [k \in 1 .. n |-> c]
  <1>1. PICK t : t = [k \in 1 .. n |-> c]
    OBVIOUS
  <1>2. t \in [1 .. n -> {c}] /\ DOMAIN t = 1 .. n /\ \A k \in 1 .. n : t[k] = c
    BY <1>1
  <1>3. t \in Seq({c})
    <2>1. Seq({c}) = UNION {[1 .. m -> {c}] : m \in Nat}
      BY SeqDef
    <2> QED BY <1>2, <2>1
  <1>4. Len(t) = n
    <2>1. Len(t) \in Nat /\ DOMAIN t = 1 .. Len(t)
      BY <1>3, LenProperties
    <2> QED BY <1>2, <2>1
  <1>5. ASSUME NEW s \in Seq({c}), Len(s) = n PROVE s = t
    <2>1. \A k \in 1 .. Len(s) : s[k] = t[k]
      <3>1. \A k \in 1 .. Len(s) : s[k] \in {c}
        BY ElementOfSeq
      <3> QED BY <1>2, <1>5, <3>1
    <2> QED BY <1>3, <1>4, <1>5, <2>1, SeqEqual
  <1> QED BY <1>1, <1>3, <1>4, <1>5

LEMMA NoPieces ==
    ASSUME NEW c
    PROVE  [k \in 1 .. 0 |-> c] = << >>
  <1>1. << >> \in Seq({c}) /\ Len(<< >>) = 0
    BY EmptySeq
  <1> QED BY <1>1, SamePieces

LEMMA OnePiece ==
    ASSUME NEW c
    PROVE  [k \in 1 .. 1 |-> c] = <<c>>
  <1>1. <<c>> \in Seq({c}) /\ Len(<<c>>) = 1
    OBVIOUS
  <1> QED BY <1>1, SamePieces

LEMMA OneMorePiece ==
    ASSUME NEW n \in Nat, NEW c
    PROVE  Append([k \in 1 .. n |-> c], c) = [k \in 1 .. n + 1 |-> c]
  <1>1. PICK s \in Seq({c}) : s = [k \in 1 .. n |-> c] /\ Len(s) = n
    BY SamePieces
  <1>2. Append(s, c) \in Seq({c}) /\ Len(Append(s, c)) = n + 1
    BY <1>1
  <1> QED BY <1>1, <1>2, SamePieces

LEMMA OwnKept ==
    ASSUME UNCHANGED <<given, exec>>
    PROVE  /\ \A row : Own(row)' <=> \A p \in Pars : row.data[p] = Pieces(row.row, p)
           /\ \A r, p : Pieces(r, p)' = Pieces(r, p)
  BY DEF Own, Pieces


LEMMA GivenTypes ==
    ASSUME GivenInv, NEW r \in Rows, NEW p \in Pars
    PROVE  given[r][p] \in 0 .. MaxChunks /\ given[r][p] \in Nat
  <1>1. given \in [Rows -> [Pars -> 0 .. MaxChunks]]
    BY ArrayTypes DEF GivenInv, TypeOK
  <1> QED BY <1>1, ArrayAssumption

\* No execution is in progress any longer.
LEMMA GivenRests ==
    ASSUME ArrayInv', ~InProgress', OwnEffects'
    PROVE  GivenInv'
  <1>1. handle'.deferred = << >> /\ DOMAIN << >> = {}
    BY DEF ArrayInv, Queue
  <1>2. Owns(handle.deferred)'
    BY <1>1 DEF Owns
  <1>3. Unasked' /\ Handed' /\ call'.pc # "server"
    BY DEF Unasked, Handed, AtRow, InProgress, Idle
  <1> QED BY <1>2, <1>3 DEF GivenInv

LEMMA EffectsStayOwn ==
    ASSUME GivenInv, UNCHANGED <<given, exec, effect>>
    PROVE  OwnEffects'
  BY DEF GivenInv, OwnEffects, Own, Pieces

LEMMA OwnsKept ==
    ASSUME NEW rows, Owns(rows), UNCHANGED <<given, exec>>
    PROVE  \A i \in DOMAIN rows : Own(rows[i])'
  BY DEF Owns, Own, Pieces

\* What the invariant adds to the account of the rows, for a step within an
\* execution that gives no data.
LEMMA GivenKept ==
    ASSUME GivenInv, ArrayInv', UNCHANGED <<given, exec, effect>>,
           handle'.deferred = handle.deferred,
           Unasked', Handed', (call.pc = "server" => Owns(call.msg))'
    PROVE  GivenInv'
  <1>1. Owns(handle.deferred)'
    <2>1. PICK d : d = handle.deferred
      OBVIOUS
    <2>2. \A i \in DOMAIN d : Own(d[i])'
      BY <2>1, OwnsKept DEF GivenInv
    <2> QED BY <2>1, <2>2 DEF Owns
  <1> QED BY <1>1, EffectsStayOwn DEF GivenInv

LEMMA OwnRowInTurn ==
    ASSUME GivenInv, call.pc = "resolve"
    PROVE  Own(TheRow)
  <1>0. /\ TheRow.row = handle.current /\ handle.current \in 0 .. EndRow /\ handle.current \in Rows
        /\ InProgress /\ AtRow
    BY ArrayTypes, RowInTurn DEF GivenInv
  <1>1. CASE handle.current \in app.atexec
    <2>1. TheRow.data = handle.pdata
      BY <1>1 DEF TheRow
    <2> QED BY <1>0, <1>1, <2>1 DEF Own, GivenInv, Handed
  <1>2. CASE handle.current \notin app.atexec
    <2>1. TheRow.data = NoData
      BY <1>2 DEF TheRow
    <2>2. ASSUME NEW p \in Pars PROVE Pieces(handle.current, p) = << >>
      <3>1. given[handle.current][p] = 0
        BY <1>0, <1>2 DEF GivenInv, Unasked
      <3> QED BY <3>1, NoPieces DEF Pieces
    <2> QED BY <1>0, <2>1, <2>2 DEF Own, NoData
  <1> QED BY <1>1, <1>2

LEMMA GivenBetween ==
    ASSUME GivenInv, ArrayInv', Prepare \/ Close \/ ResetParams
    PROVE  GivenInv'
  <1>1. ~InProgress' /\ UNCHANGED <<given, exec, effect>>
    BY DEF Prepare, Close, ResetParams, InProgress, Idle
  <1> QED BY <1>1, EffectsStayOwn, GivenRests

LEMMA GivenKeepsAll ==
    ASSUME GivenInv, ArrayInv', UNCHANGED <<handle, app, call, dm, effect, given, exec>>
    PROVE  GivenInv'
  <1>1. Unasked'
    BY DEF GivenInv, Unasked, InProgress, AtRow, Idle, EndRow
  <1>2. Handed'
    BY DEF GivenInv, Handed, AtRow, Idle, Pieces
  <1>3. (call.pc = "server" => Owns(call.msg))'
    BY DEF GivenInv, Owns, Own, Pieces
  <1> QED BY <1>1, <1>2, <1>3, GivenKept

LEMMA GivenCancels ==
    ASSUME GivenInv, ArrayInv', CancelDialogue \/ CancelAtServer \/ CancelReset
    PROVE  GivenInv'
  <1>1. CASE CancelDialogue \/ CancelAtServer
    BY <1>1, GivenKeepsAll DEF CancelDialogue, CancelAtServer, CancelBegins
  <1>2. CASE CancelReset
    <2>1. ~InProgress' /\ UNCHANGED <<given, exec, effect>>
      BY <1>2 DEF CancelReset, InProgress, Idle
    <2> QED BY <2>1, EffectsStayOwn, GivenRests
  <1> QED BY <1>1, <1>2

LEMMA StartsDeferNothing ==
    ASSUME GivenInv, Execute \/ ExecDirect
    PROVE  handle'.deferred = << >>
  <1>0. handle \in Handle /\ ~InProgress
    BY ArrayTypes DEF GivenInv, InProgress, Idle, Execute, ExecDirect, MayExecute
  <1>1. PICK h \in Handle : /\ StartRows(h) \/ ParametersUnknown(h)
                            /\ h.deferred = handle.deferred
    <2>1. Recycle(handle) \in Handle /\ Recycle(handle).deferred = handle.deferred
      BY <1>0, RecycledQueue
    <2>2. CASE Execute
      <3>1. ExecuteHandle(handle) \in Handle /\ ExecuteHandle(handle).deferred = handle.deferred
        BY <1>0, <2>1, Numbers DEF ExecuteHandle, Handle
      <3> QED BY <2>2, <3>1 DEF Execute
    <2>3. CASE ExecDirect
      <3>1. PICK g : g = InitializeStmts(handle)
        OBVIOUS
      <3>2. g \in Handle /\ g.deferred = handle.deferred
        BY <1>0, <3>1 DEF InitializeStmts, Handle
      <3>3. Recycle(g) \in Handle /\ Recycle(g).deferred = handle.deferred
        BY <3>2, RecycledQueue
      <3> QED BY <2>3, <3>1, <3>3 DEF ExecDirect
    <2> QED BY <2>2, <2>3
  <1>2. Recycle(h) \in Handle /\ Recycle(h).deferred = h.deferred
    BY RecycledQueue
  <1>3. handle'.deferred = h.deferred
    <2>1. CASE StartRows(h)
      <3>1. FirstRow(h, app'.n).deferred = h.deferred
        BY <1>2 DEF FirstRow, Handle
      <3> QED BY <2>1, <3>1 DEF StartRows
    <2>2. CASE ParametersUnknown(h)
      <3>1. PICK a : handle' = [(IF h.status = "finished" THEN Recycle(h) ELSE h)
                                EXCEPT !.current = 0, !.method = HowToPrepare(h, a.n)]
        BY <2>2 DEF ParametersUnknown
      <3> QED BY <1>2, <3>1 DEF Handle
    <2> QED BY <1>1, <2>1, <2>2
  <1> QED BY <1>0, <1>1, <1>3, Resting DEF GivenInv

LEMMA GivenStarts ==
    ASSUME GivenInv, ArrayInv', Execute \/ ExecDirect
    PROVE  GivenInv'
  <1>0. "pc" \in DOMAIN call /\ exec \in Int /\ ~InProgress /\ Idle /\ dm = "idle"
    BY ArrayTypes, CallField DEF GivenInv, InProgress, Idle, Execute, ExecDirect, MayExecute
  <1>1. PICK h : StartRows(h) \/ ParametersUnknown(h)
    BY DEF Execute, ExecDirect
  <1>2. CASE ParametersUnknown(h)
    <2>1. ~InProgress' /\ UNCHANGED <<given, exec, effect>>
      BY <1>0, <1>2 DEF ParametersUnknown, InProgress, Idle
    <2> QED BY <2>1, EffectsStayOwn, GivenRests
  <1>3. CASE StartRows(h)
    <2>1. /\ call'.pc = "row" /\ exec' = exec + 1 /\ UNCHANGED effect
          /\ given' = [r \in Rows |-> [p \in Pars |-> 0]]
      BY <1>0, <1>3 DEF StartRows
    <2>2. \A i \in DOMAIN effect : effect[i].exec # exec + 1
      <3>1. \A i \in DOMAIN effect : effect[i] \in Row
        BY ArrayTypes DEF GivenInv
      <3> QED BY <1>0, <3>1, ArrayAssumption DEF GivenInv, ArrayInv, Effects, Row
    <2>3. OwnEffects'
      BY <2>1, <2>2 DEF OwnEffects
    <2>4. Unasked'
      <3>1. (0 .. EndRow \subseteq Rows)'
        <4>1. app' \in App /\ EndRow' = app'.n - 1
          BY <1>3 DEF StartRows, Arrays, EndRow
        <4>2. app'.n \in 1 .. MaxRows
          BY <4>1 DEF App
        <4> QED BY <4>1, <4>2, ArrayAssumption DEF Rows
      <3>2. \A r \in Rows : \A p \in Pars : given'[r][p] = 0
        BY <2>1
      <3> QED BY <3>1, <3>2 DEF Unasked
    <2>5. Handed'
      BY <2>1 DEF Handed, AtRow, Idle
    <2>6. Owns(handle.deferred)'
      <3>1. handle'.deferred = << >> /\ DOMAIN << >> = {}
        BY StartsDeferNothing
      <3> QED BY <3>1 DEF Owns
    <2> QED BY <2>1, <2>3, <2>4, <2>5, <2>6 DEF GivenInv
  <1> QED BY <1>1, <1>2, <1>3


LEMMA GivenDialogue ==
    ASSUME GivenInv, ArrayInv', ParamToken \/ ParamDataComplete
    PROVE  GivenInv'
  <1>0. /\ handle \in Handle /\ TypedPositions /\ "pc" \in DOMAIN call /\ ArrayInv /\ Handed /\ Unasked
    BY ArrayTypes, CallField DEF GivenInv, TypeOK
  <1>1. /\ AtRow /\ AtRow' /\ call'.pc # "server" /\ call.pc # "server" /\ Idle /\ dm # "idle"
        /\ UNCHANGED <<app, effect, given, exec>>
    BY <1>0 DEF ParamToken, ParamDataComplete, NeedData, AtRow, Idle
  <1>2. /\ handle'.current = handle.current /\ handle'.deferred = handle.deferred
        /\ handle'.pdata = handle.pdata
    BY <1>0 DEF ParamToken, Token, ParamDataComplete, Handle
  <1>3. Unasked'
    BY <1>0, <1>1, <1>2 DEF Unasked, InProgress, EndRow
  <1>4. handle.current \in app.atexec
    BY <1>0, <1>1 DEF Handed
  <1>5. \A p \in Pars : /\ handle.pdata[p] = Pieces(handle.current, p)
                        /\ \/ p < handle.param \/ (p = handle.param /\ handle.put)
                           \/ given[handle.current][p] = 0
    BY <1>0, <1>1, <1>4 DEF Handed
  <1>6. CASE ParamToken
    <2>1. handle'.param = handle.param + 1 /\ handle.param \in Int
      BY <1>0, <1>6, ArrayAssumption DEF ParamToken, Token, Handle, None
    <2>2. \A p \in Pars : p < handle'.param \/ given'[handle'.current][p] = 0
      BY <1>1, <1>2, <1>5, <2>1 DEF Pars
    <2>3. \A p \in Pars : handle'.pdata[p] = Pieces(handle.current, p)'
      BY <1>1, <1>2, <1>5 DEF Pieces
    <2>4. Handed'
      BY <1>1, <1>2, <1>4, <2>2, <2>3 DEF Handed
    <2> QED BY <1>1, <1>2, <1>3, <2>4, GivenKept
  <1>7. CASE ParamDataComplete
    <2>1. ~Idle'
      BY <1>0, <1>7 DEF ParamDataComplete, Idle
    <2>2. \A p \in Pars : handle'.pdata[p] = Pieces(handle.current, p)'
      BY <1>1, <1>2, <1>5 DEF Pieces
    <2>3. Handed'
      BY <2>1, <2>2 DEF Handed
    <2> QED BY <1>1, <1>2, <1>3, <2>3, GivenKept
  <1> QED BY <1>6, <1>7

\* SQLPutData appends to what the parameter has, or begins it.
LEMMA GivenPutData ==
    ASSUME GivenInv, ArrayInv', PutData
    PROVE  GivenInv'
  <1>0. /\ handle \in Handle /\ TypedPositions /\ ArrayInv /\ Handed /\ Unasked
    BY ArrayTypes DEF GivenInv
  <1>1. /\ AtRow /\ AtRow' /\ Idle /\ dm # "idle" /\ InProgress /\ InProgress'
        /\ call.pc # "server" /\ call'.pc # "server" /\ UNCHANGED <<app, effect, exec, call>>
    BY <1>0 DEF PutData, AtRow, InProgress, Idle
  <1>2. PICK r \in Rows, p \in Pars : r = handle.current /\ p = handle.param
    <2>1. handle.current \in Rows /\ handle.param >= 0 /\ handle.param \in None .. Params - 1
      BY <1>0 DEF PutData, TypedPositions, Positions, Handle
    <2> QED BY <2>1, ArrayAssumption DEF Pars, None
  <1>3. PICK chunk : chunk = [exec |-> exec, row |-> r]
    OBVIOUS
  <1>4. r \in 0 .. EndRow /\ r \in app.atexec
    BY <1>0, <1>1, <1>2 DEF ArrayInv, Place, Handed
  <1>5. PICK n \in Nat : n = given[r][p]
    BY <1>2, GivenTypes
  <1>6. /\ \A s \in Rows, q \in Pars :
               given'[s][q] = IF s = r /\ q = p THEN n + 1 ELSE given[s][q]
    <2>1. given \in [Rows -> [Pars -> 0 .. MaxChunks]]
      BY <1>0 DEF TypedPositions, TypeOK
    <2>2. given' = [given EXCEPT ![r][p] = n + 1]
      BY <1>2, <1>5 DEF PutData
    <2> QED BY <1>2, <2>1, <2>2
  <1>7. /\ handle'.current = r /\ handle'.param = p /\ handle'.put = TRUE
        /\ handle'.deferred = handle.deferred
        /\ \A q \in Pars : handle'.pdata[q] = IF q = p THEN NewData(chunk) ELSE handle.pdata[q]
    <2>1. handle.pdata \in [Pars -> Seq(Chunk)]
      BY <1>0 DEF Handle, Data
    <2>2. handle' = [handle EXCEPT !.put = TRUE, !.pdata = [@ EXCEPT ![p] = NewData(chunk)]]
      BY <1>2, <1>3 DEF PutData
    <2> QED BY <1>0, <1>2, <2>1, <2>2 DEF Handle
  <1>8. handle.pdata[p] = [k \in 1 .. n |-> chunk] /\ (handle.put \/ n = 0)
    <2>1. /\ handle.pdata[p] = Pieces(r, p)
          /\ p < p \/ handle.put \/ given[r][p] = 0
      BY <1>0, <1>1, <1>2, <1>4 DEF Handed
    <2>2. ~(p < p)
      BY DEF Pars
    <2> QED BY <1>3, <1>5, <2>1, <2>2 DEF Pieces
  <1>9. NewData(chunk) = [k \in 1 .. n + 1 |-> chunk]
    <2>1. CASE handle.put
      BY <1>2, <1>8, <2>1, OneMorePiece DEF NewData
    <2>2. CASE ~handle.put
      <3>1. n + 1 = 1
        BY <1>8, <2>2
      <3> QED BY <1>8, <2>2, <3>1, OnePiece DEF NewData
    <2> QED BY <2>1, <2>2
  <1>10. \A s \in Rows, q \in Pars : s # r \/ q # p => Pieces(s, q)' = Pieces(s, q)
    BY <1>1, <1>6 DEF Pieces
  <1>11. Pieces(r, p)' = [k \in 1 .. n + 1 |-> chunk]
    <2>1. given'[r][p] = n + 1 /\ exec' = exec
      BY <1>1, <1>2, <1>6
    <2> QED BY <1>3, <2>1 DEF Pieces
  <1>12. Unasked'
    <2>1. \A s \in 0 .. EndRow : s \in Rows
      BY <1>0, ArrayTypes
    <2>2. ASSUME NEW s \in 0 .. EndRow, NEW q \in Pars, s \notin app.atexec \/ s > r
          PROVE  given'[s][q] = 0
      <3>1. given[s][q] = 0
        BY <1>0, <1>1, <1>2, <2>2 DEF Unasked
      <3>2. s # r
        BY <1>4, <2>2
      <3> QED BY <1>6, <2>1, <3>1, <3>2
    <2>3. EndRow' = EndRow
      BY <1>1 DEF EndRow
    <2> QED BY <1>1, <1>7, <2>2, <2>3 DEF Unasked
  <1>13. Handed'
    <2>1. ASSUME NEW q \in Pars
          PROVE  /\ handle'.pdata[q] = Pieces(r, q)'
                 /\ q < p \/ q = p \/ given'[r][q] = 0
      <3>1. CASE q = p
        BY <1>7, <1>9, <1>11, <3>1
      <3>2. CASE q # p
        <4>1. q < p \/ given[r][q] = 0
          BY <1>0, <1>1, <1>2, <1>4, <3>2 DEF Handed
        <4>2. handle.pdata[q] = Pieces(r, q)
          BY <1>0, <1>1, <1>2, <1>4, <3>2 DEF Handed
        <4> QED BY <1>2, <1>6, <1>7, <1>10, <3>2, <4>1, <4>2
      <3> QED BY <3>1, <3>2
    <2> QED BY <1>1, <1>4, <1>7, <2>1 DEF Handed
  <1>14. \A row \in Row : row.row # r /\ Own(row) => Own(row)'
    BY <1>10 DEF Own, Row
  <1>15. \A s \in 0 .. EndRow : InEffect(s) \/ s \in RowsOf(handle.deferred) => s # r
    BY <1>0, <1>1, <1>2, <1>4 DEF ArrayInv, Account, Passed, Rows
  <1>16. Owns(handle.deferred)'
    <2>1. \A i \in DOMAIN handle.deferred :
             handle.deferred[i] \in Row /\ handle.deferred[i].row # r
      <3>1. \A i \in DOMAIN handle.deferred : handle.deferred[i] \in Row
        BY ArrayTypes DEF GivenInv
      <3> QED BY <1>4, <1>15, <3>1, RowsOfAny
    <2>2. PICK d : d = handle.deferred
      OBVIOUS
    <2>3. \A i \in DOMAIN d : Own(d[i])'
      BY <1>14, <2>1, <2>2 DEF GivenInv, Owns
    <2> QED BY <1>7, <2>2, <2>3 DEF Owns
  <1>17. OwnEffects'
    <2>1. PICK e : e = effect /\ e \in Seq(Row)
      BY ArrayTypes DEF GivenInv
    <2>2. \A i \in DOMAIN e : e[i] \in Row /\ (e[i].exec = exec => e[i].row # r)
      <3>1. \A i \in DOMAIN e : e[i] \in Row
        BY <2>1
      <3> QED BY <1>4, <1>15, <2>1, <3>1 DEF InEffect
    <2>3. \A i \in DOMAIN e : e[i].exec = exec => Own(e[i])'
      BY <1>14, <2>1, <2>2 DEF GivenInv, OwnEffects
    <2> QED BY <1>1, <2>1, <2>3 DEF OwnEffects
  <1> QED BY <1>1, <1>12, <1>13, <1>16, <1>17 DEF GivenInv


LEMMA GivenRows ==
    ASSUME GivenInv, ArrayInv', BoundRow \/ DataRow \/ FinishRows
    PROVE  GivenInv'
  <1>0. /\ handle \in Handle /\ call \in CallRec /\ "pc" \in DOMAIN call
        /\ ArrayInv /\ Unasked /\ EndRow \in Int
    BY ArrayTypes, CallField DEF GivenInv, TypeOK, Rows
  <1>1. CASE FinishRows
    <2>1. ~InProgress' /\ UNCHANGED <<given, exec, effect>>
      BY <1>0, <1>1 DEF FinishRows, Over, InProgress, Idle
    <2> QED BY <2>1, EffectsStayOwn, GivenRests
  <1>2. CASE BoundRow \/ DataRow
    <2>1. PICK r : /\ StartRow(r) /\ handle'.current = r /\ handle'.deferred = handle.deferred
                   /\ \/ r \notin app.atexec /\ call'.pc = "resolve"
                      \/ r \in app.atexec /\ call'.pc = "idle" /\ handle'.pdata = NoData
      <3>1. \A r : /\ RowHandle(r).current = r /\ RowHandle(r).deferred = handle.deferred
                   /\ RowHandle(r).pdata = NoData
                   /\ {"current", "deferred", "pdata"} \subseteq DOMAIN RowHandle(r)
        BY <1>0 DEF RowHandle, FreeData, Handle
      <3>2. CASE BoundRow
        BY <1>0, <3>1, <3>2 DEF BoundRow
      <3>3. CASE DataRow
        <4>1. PICK r, g : /\ r \in app.atexec /\ StartRow(r)
                          /\ g = [RowHandle(r) EXCEPT !.dae = Params]
                          /\ handle' = g \/ handle' = Token(g)
                          /\ NeedData("need") \/ NeedData("must")
          BY <3>3 DEF DataRow
        <4>2. /\ g.current = r /\ g.deferred = handle.deferred /\ g.pdata = NoData
              /\ {"current", "deferred", "pdata"} \subseteq DOMAIN g
          BY <3>1, <4>1
        <4>3. handle'.current = r /\ handle'.deferred = handle.deferred /\ handle'.pdata = NoData
          BY <4>1, <4>2 DEF Token
        <4>4. call'.pc = "idle"
          BY <1>0, <4>1 DEF NeedData
        <4> QED BY <4>1, <4>3, <4>4
      <3> QED BY <1>2, <3>2, <3>3
    <2>2. /\ InProgress /\ ~AtRow /\ UNCHANGED <<app, given, exec, effect>> /\ EndRow' = EndRow
          /\ IsNext(r)
      BY <2>1 DEF StartRow, InProgress, AtRow, Idle, EndRow
    <2>3. r \in handle.current .. EndRow /\ handle.current \in 0 .. EndRow
      BY <1>0, <2>2 DEF IsNext, RowsLeft, ArrayInv, Place
    <2>4. AtRow' \/ ~InProgress' 
      BY <2>1 DEF AtRow, InProgress, Idle
    <2>5. \A s \in 0 .. EndRow : \A p \in Pars :
             s \notin app.atexec \/ s >= handle.current => given[s][p] = 0
      BY <1>0, <2>2, <2>3 DEF Unasked
    <2>6. Unasked'
      BY <2>1, <2>2, <2>3, <2>4, <2>5 DEF Unasked
    <2>7. Handed'
      <3>1. ASSUME r \in app.atexec, NEW p \in Pars
            PROVE  given'[r][p] = 0 /\ handle'.pdata[p] = Pieces(r, p)'
        <4>1. given'[r][p] = 0
          BY <2>2, <2>3, <2>5
        <4>2. Pieces(r, p)' = << >>
          BY <4>1, NoPieces DEF Pieces
        <4>3. handle'.pdata = NoData
          BY <2>1, <3>1
        <4> QED BY <4>1, <4>2, <4>3 DEF NoData
      <3>2. call'.pc = "idle" => r \in app.atexec
        BY <2>1
      <3> QED BY <2>1, <2>2, <3>1, <3>2 DEF Handed, Idle
    <2>8. (call.pc = "server" => Owns(call.msg))'
      BY <2>1
    <2> QED BY <2>1, <2>2, <2>6, <2>7, <2>8, GivenKept
  <1> QED BY <1>1, <1>2

LEMMA GivenResolved ==
    ASSUME GivenInv, ArrayInv', BadValue \/ Defer \/ SendRow \/ SendDeferred
    PROVE  GivenInv'
  <1>0. /\ handle \in Handle /\ call \in CallRec /\ "pc" \in DOMAIN call
        /\ ArrayInv /\ Unasked /\ Handed /\ EndRow \in Int /\ handle.deferred \in Seq(Row)
        /\ Owns(handle.deferred) /\ UNCHANGED <<app, given, exec, effect>> /\ EndRow' = EndRow
        /\ handle.current \in Int
    BY ArrayTypes, CallField
       DEF GivenInv, TypeOK, Rows, BadValue, Defer, SendRow, SendDeferred, EndRow
  <1>1. CASE BadValue
    <2>1. ~InProgress'
      BY <1>0, <1>1 DEF BadValue, Over, InProgress, Idle
    <2> QED BY <1>0, <2>1, EffectsStayOwn, GivenRests
  <1>2. ASSUME call.pc = "resolve", NEW new, new = Append(handle.deferred, TheRow)
        PROVE  \A i \in DOMAIN new : Own(new[i])'
    <2>1. TheRow \in Row
      BY <1>0, <1>2, RowInTurn
    <2>2. PICK row : row = TheRow /\ Own(row)
      BY <1>2, OwnRowInTurn
    <2>3. Own(row)'
      BY <1>0, <2>2 DEF Own, Pieces
    <2>4. PICK d : d = handle.deferred
      OBVIOUS
    <2>5. \A i \in DOMAIN d : Own(d[i])'
      BY <1>0, <2>4, OwnsKept
    <2>7. /\ DOMAIN new = DOMAIN d \cup {Len(d) + 1} /\ new[Len(d) + 1] = row
          /\ \A i \in DOMAIN d : new[i] = d[i]
      BY <1>0, <1>2, <2>1, <2>2, <2>4, AppendDomain
    <2> QED BY <2>3, <2>5, <2>7, Zenon
  <1>3. CASE Defer
    <2>1. /\ call.pc = "resolve" /\ call'.pc = "row"
          /\ handle'.deferred = Append(handle.deferred, TheRow)
          /\ handle'.current = handle.current + 1
      BY <1>0, <1>3 DEF Defer, Handle
    <2>2. InProgress /\ AtRow /\ ~AtRow'
      BY <2>1 DEF InProgress, AtRow, Idle
    <2>3. Unasked'
      BY <1>0, <2>1, <2>2 DEF Unasked
    <2>4. Handed'
      BY <2>1, <2>2 DEF Handed, Idle
    <2>5. Owns(handle.deferred)'
      <3>1. PICK new : new = Append(handle.deferred, TheRow)
        OBVIOUS
      <3> QED BY <1>2, <2>1, <3>1 DEF Owns
    <2>6. OwnEffects'
      BY <1>0, EffectsStayOwn
    <2> QED BY <2>1, <2>3, <2>4, <2>5, <2>6 DEF GivenInv
  <1>4. CASE SendRow
    <2>1. /\ call.pc = "resolve" /\ call'.pc = "server"
          /\ handle'.deferred = handle.deferred /\ handle'.current = handle.current
          /\ call'.msg = <<TheRow>> \/ call'.msg = Append(handle.deferred, TheRow)
      BY <1>0, <1>4 DEF SendRow, Handle, CallRec
    <2>2. InProgress /\ AtRow /\ AtRow'
      <3>1. call'.kind # "last"
        BY <1>0, <1>4 DEF SendRow, CallRec
      <3> QED BY <2>1, <3>1 DEF InProgress, AtRow, Idle
    <2>3. Unasked'
      BY <1>0, <2>1, <2>2 DEF Unasked
    <2>4. Handed'
      BY <2>1 DEF Handed, Idle
    <2>5. Owns(call.msg)'
      <3>1. PICK row : row = TheRow /\ Own(row)
        BY <2>1, OwnRowInTurn
      <3>2. Own(row)'
        BY <1>0, <3>1 DEF Own, Pieces
      <3>3. call'.msg = <<TheRow>> => Owns(call.msg)'
        <4>1. DOMAIN <<row>> = {1} /\ <<row>>[1] = row
          OBVIOUS
        <4> QED BY <3>1, <3>2, <4>1 DEF Owns
      <3>4. call'.msg = Append(handle.deferred, TheRow) => Owns(call.msg)'
        <4>1. PICK new : new = Append(handle.deferred, TheRow)
          OBVIOUS
        <4> QED BY <1>2, <2>1, <4>1 DEF Owns
      <3> QED BY <2>1, <3>3, <3>4
    <2> QED BY <1>0, <2>1, <2>3, <2>4, <2>5, GivenKept
  <1>5. CASE SendDeferred
    <2>1. /\ call.pc = "row" /\ call'.pc = "server" /\ call'.kind = "last"
          /\ call'.msg = handle.deferred /\ handle'.deferred = handle.deferred
          /\ handle'.current >= handle.current
      BY <1>0, <1>5 DEF SendDeferred, Handle, CallRec
    <2>2. InProgress /\ ~AtRow /\ InProgress' /\ ~AtRow'
      BY <2>1 DEF InProgress, AtRow, Idle
    <2>3. Unasked'
      <3>1. handle'.current \in Int
        BY <1>0, <2>2 DEF ArrayInv, Place
      <3> QED BY <1>0, <2>1, <2>2, <3>1 DEF Unasked
    <2>4. Handed'
      BY <2>1, <2>2 DEF Handed, Idle
    <2>5. Owns(call.msg)'
      <3>1. PICK d : d = handle.deferred
        OBVIOUS
      <3>2. \A i \in DOMAIN d : Own(d[i])'
        BY <1>0, <3>1, OwnsKept
      <3> QED BY <2>1, <3>1, <3>2 DEF Owns
    <2> QED BY <1>0, <2>1, <2>3, <2>4, <2>5, GivenKept
  <1> QED BY <1>1, <1>3, <1>4, <1>5


LEMMA GivenAnswer ==
    ASSUME GivenInv, ArrayInv', Done \/ Failed
    PROVE  GivenInv'
  <1>0. /\ handle \in Handle /\ call \in CallRec /\ "pc" \in DOMAIN call /\ call.pc = "server"
        /\ ArrayInv /\ Unasked /\ InProgress /\ EndRow \in Int /\ EndRow' = EndRow
        /\ effect \in Seq(Row) /\ call.msg \in Seq(Row) /\ UNCHANGED <<app, given, exec>>
    BY ArrayTypes, CallField DEF GivenInv, TypeOK, Rows, Done, Failed, EndRow, InProgress, Idle
  <1>1. CASE Failed
    <2>1. ~InProgress' /\ UNCHANGED effect
      BY <1>0, <1>1 DEF Failed, Over, InProgress, Idle
    <2> QED BY <1>0, <2>1, EffectsStayOwn, GivenRests
  <1>2. ASSUME Done PROVE OwnEffects'
    <2>1. PICK old \in Seq(Row), m \in Seq(Row), new \in Seq(Row) :
             old = effect /\ m = call.msg /\ new = old \o m
      <3>1. effect \o call.msg \in Seq(Row)
        BY <1>0
      <3> QED BY <1>0, <3>1
    <2>2. \A i \in DOMAIN new : \/ i \in DOMAIN old /\ new[i] = old[i]
                                \/ i - Len(old) \in DOMAIN m /\ new[i] = m[i - Len(old)]
      BY <2>1
    <2>3. \A i \in DOMAIN m : Own(m[i])'
      BY <1>0, <2>1, OwnsKept DEF GivenInv
    <2>4. \A i \in DOMAIN old : old[i].exec = exec => Own(old[i])'
      BY <1>0, <2>1 DEF GivenInv, OwnEffects, Own, Pieces
    <2>5. \A i \in DOMAIN new : new[i].exec = exec => Own(new[i])'
      BY <2>2, <2>3, <2>4, Zenon
    <2>6. effect' = new /\ exec' = exec
      BY <1>0, <1>2, <2>1 DEF Done
    <2> QED BY <2>5, <2>6 DEF OwnEffects
  <1>3. CASE Done /\ handle.current >= EndRow
    <2>1. ~InProgress'
      BY <1>0, <1>3 DEF Done, Over, InProgress, Idle
    <2> QED BY <1>2, <1>3, <2>1, GivenRests
  <1>4. CASE Done /\ ~(handle.current >= EndRow)
    <2>1. call'.pc = "row" /\ ~AtRow' /\ ~Idle'
      BY <1>0, <1>4 DEF Done, AtRow, Idle
    <2>2. handle'.current = handle.current + 1 /\ handle.current \in Int
      <3>1. Executed(handle) \in Handle /\ Executed(handle).current = handle.current
        BY <1>0, ExecutedIn DEF Executed, Handle
      <3> QED BY <1>0, <1>4, <3>1, ArrayTypes DEF Done, Handle
    <2>3. Unasked'
      BY <1>0, <2>2 DEF Unasked
    <2>4. Handed'
      BY <2>1 DEF Handed, AtRow
    <2>5. Owns(handle.deferred)'
      <3>1. handle'.deferred = << >> /\ DOMAIN << >> = {}
        BY <1>0, <1>4, AnsweredHandle
      <3> QED BY <3>1 DEF Owns
    <2> QED BY <1>2, <1>4, <2>1, <2>3, <2>4, <2>5 DEF GivenInv
  <1> QED BY <1>1, <1>3, <1>4

LEMMA GivenInit == Init => GivenInv
  <1> SUFFICES ASSUME Init PROVE GivenInv
    OBVIOUS
  <1>1. /\ call.pc = "idle" /\ dm = "idle"
        /\ handle.deferred = << >> /\ effect = << >> /\ DOMAIN << >> = {}
    BY DEF Init
  <1>2. ~InProgress /\ ~AtRow
    BY <1>1 DEF InProgress, AtRow, Idle
  <1>3. Unasked /\ Handed /\ Owns(handle.deferred) /\ OwnEffects
    BY <1>1, <1>2 DEF Unasked, Handed, Owns, OwnEffects
  <1> QED BY <1>1, <1>3, ArrayInit DEF GivenInv

LEMMA GivenStep ==
    ASSUME GivenInv, Careful, [Next]_vars
    PROVE  GivenInv'
  <1>1. ArrayInv'
    BY ArrayStep DEF GivenInv
  <1>2. CASE UNCHANGED vars
    BY <1>1, <1>2, GivenKeepsAll DEF vars
  <1>3. CASE Prepare \/ Close \/ ResetParams
    BY <1>1, <1>3, GivenBetween
  <1>4. CASE Execute \/ ExecDirect
    BY <1>1, <1>4, GivenStarts
  <1>5. CASE CallStep
    BY <1>1, <1>5, GivenRows, GivenResolved, GivenAnswer DEF CallStep
  <1>6. CASE ParamToken \/ ParamDataComplete \/ PutData
    BY <1>1, <1>6, GivenDialogue, GivenPutData
  <1>7. CASE CancelDialogue \/ CancelAtServer \/ CancelReset
    BY <1>1, <1>7, GivenCancels
  <1> QED BY <1>2, <1>3, <1>4, <1>5, <1>6, <1>7 DEF Next

\* A row takes effect with its own data: all the pieces PGAPI_PutData was given for
\* its parameters, in their order, and nothing that was meant for another row, also
\* when Exec_with_parameters_resolved defers the row and the PutDataInfo is freed
\* for the next one before the message is sent.
THEOREM OwnDataAlways ==
    ASSUME Careful
    PROVE  Spec => []OwnData
  <1>1. Init => GivenInv
    BY GivenInit
  <1>2. GivenInv /\ [Next]_vars => GivenInv'
    BY GivenStep
  <1>3. GivenInv => OwnData
    BY DEF GivenInv, OwnEffects, Own, Pieces, OwnData
  <1> QED BY <1>1, <1>2, <1>3, PTL DEF Spec


-----------------------------------------------------------------------------
(* ParamExec implements ArrayContract.                                     *)

LEMMA TodoRows ==
    /\ \A r : r \in Todo <=> InProgress /\ r \in 0 .. EndRow /\ r \notin app.ignored /\ ~InEffect(r)
    /\ ~InProgress => Todo = {}
  BY DEF Todo, InProgress

LEMMA SameTodo ==
    ASSUME InProgress, InProgress', UNCHANGED <<app, exec, effect>>
    PROVE  Todo' = Todo
  BY DEF Todo, InProgress, EndRow, InEffect

\* The steps other than the answer of the server and the beginning of an execution
\* put no row into effect: they stay in the execution or end it.
LEMMA QuietStep ==
    ASSUME ArrayInv, [Next]_vars, ~Done
    PROVE  \/ /\ UNCHANGED <<exec, effect>>
              /\ ~InProgress' \/ (InProgress /\ InProgress' /\ UNCHANGED app)
           \/ /\ ~InProgress /\ exec' = exec + 1 /\ UNCHANGED effect /\ app' \in App
  <1>0. "pc" \in DOMAIN call
    BY ArrayTypes, CallField
  <1>1. CASE UNCHANGED vars
    BY <1>1 DEF vars, InProgress, Idle
  <1>2. CASE Prepare \/ Close \/ ResetParams
    BY <1>2 DEF Prepare, Close, ResetParams, InProgress, Idle
  <1>3. CASE Execute \/ ExecDirect
    <2>1. PICK h : StartRows(h) \/ ParametersUnknown(h)
      BY <1>3 DEF Execute, ExecDirect
    <2>2. ~InProgress /\ Idle /\ dm = "idle"
      BY <1>3 DEF Execute, ExecDirect, MayExecute, InProgress
    <2>3. CASE StartRows(h)
      BY <2>2, <2>3 DEF StartRows, Arrays
    <2>4. CASE ParametersUnknown(h)
      BY <1>0, <2>2, <2>4 DEF ParametersUnknown, InProgress, Idle
    <2> QED BY <2>1, <2>3, <2>4
  <1>4. CASE BoundRow
    BY <1>0, <1>4 DEF BoundRow, StartRow, InProgress, Idle
  <1>5. CASE DataRow
    <2>1. NeedData("need") \/ NeedData("must")
      BY <1>5 DEF DataRow
    <2> QED BY <1>5, <2>1 DEF DataRow, StartRow, NeedData, InProgress, Idle
  <1>6. CASE FinishRows \/ BadValue \/ Failed
    BY <1>0, <1>6 DEF FinishRows, BadValue, Failed, Over, InProgress, Idle
  <1>7. CASE SendDeferred \/ Defer \/ SendRow
    BY <1>0, <1>7 DEF SendDeferred, Defer, SendRow, InProgress, Idle
  <1>8. CASE ParamToken \/ ParamDataComplete \/ PutData
    BY <1>0, <1>8 DEF ParamToken, ParamDataComplete, PutData, NeedData, InProgress, Idle
  <1>9. CASE CancelDialogue \/ CancelAtServer \/ CancelReset
    BY <1>9 DEF CancelDialogue, CancelAtServer, CancelBegins, CancelReset, InProgress, Idle
  <1> QED BY <1>1, <1>2, <1>3, <1>4, <1>5, <1>6, <1>7, <1>8, <1>9 DEF Next, CallStep

LEMMA ContractCardinality == \A S : Contract!Cardinality(S) = Cardinality(S)
  BY DEF Contract!Cardinality, Cardinality

LEMMA QuietImplements ==
    ASSUME ArrayInv, [Next]_vars, ~Done
    PROVE  [Contract!Next]_<<exec, Todo, effect>>
  <1>1. CASE UNCHANGED <<exec, effect>> /\ ~InProgress'
    <2>1. Todo' = {}
      BY <1>1 DEF Todo, InProgress
    <2> QED BY <1>1, <2>1 DEF Contract!Next, Contract!Over
  <1>2. CASE UNCHANGED <<exec, effect>> /\ InProgress /\ InProgress' /\ UNCHANGED app
    BY <1>2, SameTodo
  <1>3. CASE ~InProgress /\ exec' = exec + 1 /\ UNCHANGED effect /\ app' \in App
    <2>1. Todo = {}
      BY <1>3, TodoRows
    <2>2. Todo' \in SUBSET (0 .. MaxRows - 1)
      <3>1. app'.n \in 1 .. MaxRows
        BY <1>3 DEF App
      <3>2. \A r \in 0 .. app'.n - 1 : r \in 0 .. MaxRows - 1
        BY <3>1, ArrayAssumption
      <3>3. Todo' \subseteq 0 .. app'.n - 1
        BY DEF Todo, EndRow
      <3> QED BY <3>2, <3>3
    <2> QED BY <1>3, <2>1, <2>2 DEF Contract!Next, Contract!Begin
  <1> QED BY <1>1, <1>2, <1>3, QuietStep

\* A message holds the rows that are next.
LEMMA NextRows ==
    ASSUME ArrayInv, call.pc = "server"
    PROVE  /\ \A r \in RowsOf(call.msg) : r \in Todo /\ r <= handle.current
           /\ \A r \in Todo : r <= handle.current => r \in RowsOf(call.msg)
  <1>0. /\ InProgress /\ handle.current \in 0 .. EndRow /\ EndRow \in Int
        /\ (AtRow <=> call.kind # "last")
    BY ArrayTypes DEF InProgress, Idle, AtRow, ArrayInv, Place, Rows
  <1>1. /\ call.kind = "last" => RowsOf(call.msg) = RowsOf(handle.deferred) /\ handle.current \in app.ignored
        /\ call.kind # "last" => /\ RowsOf(call.msg) = RowsOf(handle.deferred) \cup {handle.current}
                                 /\ handle.current \notin app.ignored
    BY <1>0 DEF ArrayInv, Message, Place
  <1>2. \A r \in RowsOf(handle.deferred) : r \in 0 .. EndRow /\ Passed(r)
    <2>1. \A r \in RowsOf(handle.deferred) : r \in 0 .. EndRow
      BY RowsOfAny DEF ArrayInv, Queue
    <2> QED BY <1>0, <2>1 DEF ArrayInv, Account
  <1>3. ASSUME NEW r \in RowsOf(call.msg)
        PROVE  r \in Todo /\ r <= handle.current
    <2>1. r \in 0 .. EndRow /\ r \notin app.ignored
      BY <1>0, <1>1, <1>2 DEF Passed
    <2>2. r <= handle.current
      BY <1>3, <2>1, UsedRows
    <2>3. ~InEffect(r)
      <3>1. InEffect(r) => r < r
        BY <1>3, <2>1, UsedRows
      <3> QED BY <2>1, <3>1
    <2> QED BY <1>0, <2>1, <2>2, <2>3, TodoRows
  <1>4. ASSUME NEW r \in Todo, r <= handle.current
        PROVE  r \in RowsOf(call.msg)
    <2>1. r \in 0 .. EndRow /\ r \notin app.ignored /\ ~InEffect(r)
      BY TodoRows
    <2>2. r < handle.current => r \in RowsOf(handle.deferred)
      BY <1>0, <2>1 DEF Passed, ArrayInv, Account
    <2>3. r = handle.current => call.kind # "last"
      BY <1>1, <2>1
    <2> QED BY <1>0, <1>1, <1>4, <2>1, <2>2, <2>3
  <1> QED BY <1>3, <1>4

LEMMA DoneImplements ==
    ASSUME ArrayInv, ArrayInv', Done
    PROVE  Contract!Apply
  <1>0. /\ call.pc = "server" /\ InProgress /\ UNCHANGED <<app, exec>> /\ EndRow' = EndRow
        /\ EndRow \in Int /\ handle.current \in 0 .. EndRow /\ "pc" \in DOMAIN call
    BY ArrayTypes, CallField, AnsweredHandle DEF Rows, EndRow
  <1>1. PICK old \in Seq(Row), m \in Seq(Row), new \in Seq(Row) :
           /\ old = effect /\ m = call.msg /\ new = old \o m /\ effect' = new
    <2>1. effect \in Seq(Row) /\ call.msg \in Seq(Row) /\ effect' = effect \o call.msg
      BY ArrayTypes DEF Done
    <2>2. effect \o call.msg \in Seq(Row)
      BY <2>1
    <2> QED BY <2>1, <2>2
  <1>2. PICK todo : todo = Todo
    OBVIOUS
  <1>3. /\ \A r \in RowsOf(m) : r \in todo /\ r <= handle.current
        /\ \A r \in todo : r <= handle.current => r \in RowsOf(m)
        /\ \A r \in todo : r \in 0 .. EndRow
    BY <1>0, <1>1, <1>2, NextRows, TodoRows
  <1>4. /\ \A i \in DOMAIN m : m[i].exec = exec
        /\ \A i, j \in DOMAIN m : i < j => m[i].row < m[j].row
        /\ Cardinality(RowsOf(m)) = Len(m) /\ Len(m) # 0
        /\ \A i \in DOMAIN m : m[i].row \in RowsOf(m)
    <2>1. Batch(m, exec)
      BY <1>0, <1>1 DEF ArrayInv, Message
    <2>2. Len(m) # 0
      <3>1. call.kind # "last" => Len(m) = Len(handle.deferred) + 1 /\ Len(handle.deferred) \in Nat
        BY <1>0, <1>1, ArrayTypes DEF ArrayInv, Message
      <3>2. call.kind = "last" => m # << >>
        BY <1>0, <1>1 DEF ArrayInv, Message
      <3>3. m # << >> => Len(m) # 0
        OBVIOUS
      <3> QED BY <3>1, <3>2, <3>3
    <2> QED BY <2>1, <2>2, RowsOfAny DEF Batch
  <1>5. PICK n \in Nat : /\ n = Len(m) /\ n # 0 /\ n \in DOMAIN m
                         /\ \A i \in DOMAIN m : i \in Nat /\ i <= n
    <2>1. Len(m) \in Nat /\ DOMAIN m = 1 .. Len(m)
      OBVIOUS
    <2>2. \A k \in Nat : k # 0 => k \in 1 .. k /\ \A i \in 1 .. k : i \in Nat /\ i <= k
      OBVIOUS
    <2>3. Len(m) \in DOMAIN m /\ \A i \in DOMAIN m : i \in Nat /\ i <= Len(m)
      BY <1>4, <2>1, <2>2, Zenon
    <2> QED BY <1>4, <2>1, <2>3, Zenon
  <1>6. PICK last \in todo : last = m[n].row
    BY <1>3, <1>4, <1>5
  <1>7. \A r \in RowsOf(m) : r <= last
    <2>1. \A i \in DOMAIN m : m[i].row \in Int
      BY <1>3, <1>4
    <2>2. \A i \in DOMAIN m : m[i].row <= last
      BY <1>4, <1>5, <1>6, <2>1
    <2> QED BY <2>2, RowsOfAny
  <1>8. last <= handle.current /\ last \in Int
    BY <1>3, <1>4, <1>5, <1>6
  <1>9. {r \in todo : r <= last} = RowsOf(m)
    <2>1. \A r \in todo : r <= last <=> r \in RowsOf(m)
      BY <1>0, <1>3, <1>7, <1>8
    <2>2. \A r \in RowsOf(m) : r \in todo
      BY <1>3
    <2> QED BY <2>1, <2>2
  <1>10. \A r \in 0 .. EndRow : InEffect(r)' <=> InEffect(r) \/ r \in RowsOf(m)
    BY <1>0, <1>1, InEffectAfter
  <1>11. Todo' = todo \ RowsOf(m)
    <2>1. CASE handle.current >= EndRow
      <3>1. Todo' = {}
        <4>1. ~InProgress'
          BY <1>0, <2>1 DEF Done, Over, InProgress, Idle
        <4> QED BY <4>1 DEF Todo, InProgress
      <3>2. \A r \in todo : r \in RowsOf(m)
        BY <1>0, <1>3, <2>1
      <3> QED BY <3>1, <3>2
    <2>2. CASE ~(handle.current >= EndRow)
      <3>1. InProgress'
        BY <1>0, <2>2 DEF Done, InProgress, Idle
      <3>2. Todo' = {r \in (0 .. EndRow) \ app.ignored : ~InEffect(r)'}
        BY <1>0, <3>1 DEF Todo, InProgress
      <3>3. \A r : r \in Todo' <=> r \in todo /\ r \notin RowsOf(m)
        BY <1>0, <1>2, <1>10, <3>2, TodoRows
      <3> QED BY <3>3
    <2> QED BY <2>1, <2>2
  <1>12. /\ Len(new) = Len(old) + Len(m) /\ Len(old) \in Nat
         /\ SubSeq(new, 1, Len(old)) = old
         /\ \A i \in Len(old) + 1 .. Len(new) :
               /\ i - Len(old) \in DOMAIN m /\ new[i] = m[i - Len(old)]
               /\ i > Len(old) + 1 => /\ i - 1 - Len(old) \in DOMAIN m
                                      /\ new[i - 1] = m[i - 1 - Len(old)]
    <2>1. Len(new) = Len(old) + Len(m) /\ Len(old) \in Nat /\ Len(m) \in Nat
      BY <1>1
    <2>2. \A i \in 1 .. Len(old) + Len(m) : new[i] = IF i <= Len(old) THEN old[i] ELSE m[i - Len(old)]
      BY <1>1, ConcatProperties
    <2>3. SubSeq(new, 1, Len(old)) = old
      <3>1. \A i \in 1 .. Len(old) : new[i] = old[i] /\ old[i] \in Row
        BY <2>1, <2>2
      <3>2. /\ SubSeq(new, 1, Len(old)) \in Seq(Row)
            /\ Len(SubSeq(new, 1, Len(old))) = Len(old)
            /\ \A i \in 1 .. Len(old) : SubSeq(new, 1, Len(old))[i] = old[i]
        BY <2>1, <3>1, SubSeqProperties
      <3> QED BY <3>2, SeqEqual
    <2>4. DOMAIN m = 1 .. Len(m)
      OBVIOUS
    <2>5. ASSUME NEW i \in Len(old) + 1 .. Len(new)
          PROVE  /\ i - Len(old) \in DOMAIN m /\ new[i] = m[i - Len(old)]
                 /\ i > Len(old) + 1 => /\ i - 1 - Len(old) \in DOMAIN m
                                        /\ new[i - 1] = m[i - 1 - Len(old)]
      BY <2>1, <2>2, <2>4, SMTT(30)
    <2> QED BY <2>1, <2>3, <2>5
  <1>13. \A i \in Len(old) + 1 .. Len(new) :
            /\ new[i].exec = exec /\ new[i].row \in RowsOf(m)
            /\ i > Len(old) + 1 => new[i].row > new[i - 1].row
    <2>1. ASSUME NEW i \in Len(old) + 1 .. Len(new), i > Len(old) + 1
          PROVE  new[i].row > new[i - 1].row
      <3>1. i - 1 - Len(old) < i - Len(old)
        BY <1>12
      <3>2. m[i - 1 - Len(old)].row < m[i - Len(old)].row
        BY <1>4, <1>12, <2>1, <3>1
      <3>3. m[i - 1 - Len(old)].row \in Int /\ m[i - Len(old)].row \in Int
        <4>1. \A k \in DOMAIN m : m[k].row \in Int
          BY <1>3, <1>4
        <4>2. i - 1 - Len(old) \in DOMAIN m /\ i - Len(old) \in DOMAIN m
          BY <1>12, <2>1
        <4> QED BY <4>1, <4>2
      <3> QED BY <1>12, <2>1, <3>2, <3>3
    <2> QED BY <1>4, <1>12, <2>1
  <1>14. \E l \in Todo :
            LET rows == {r \in Todo : r <= l} IN
            /\ Todo' = Todo \ rows
            /\ Len(effect') = Len(effect) + Cardinality(rows)
            /\ SubSeq(effect', 1, Len(effect)) = effect
            /\ \A i \in Len(effect) + 1 .. Len(effect') :
                  /\ effect'[i].exec = exec /\ effect'[i].row \in rows
                  /\ i > Len(effect) + 1 => effect'[i].row > effect'[i - 1].row
    <2>1. /\ {r \in Todo : r <= last} = RowsOf(m) /\ Todo' = Todo \ RowsOf(m) /\ last \in Todo
      BY <1>2, <1>6, <1>9, <1>11
    <2>2. Len(effect') = Len(effect) + Cardinality(RowsOf(m)) /\ SubSeq(effect', 1, Len(effect)) = effect
      BY <1>1, <1>4, <1>12
    <2>3. \A i \in Len(effect) + 1 .. Len(effect') :
             /\ effect'[i].exec = exec /\ effect'[i].row \in RowsOf(m)
             /\ i > Len(effect) + 1 => effect'[i].row > effect'[i - 1].row
      BY <1>1, <1>13
    <2> QED BY <2>1, <2>2, <2>3, Zenon
  <1> QED BY <1>0, <1>14, ContractCardinality, Zenon DEF Contract!Apply

\* PGAPI_Execute keeps the contract of an array execution: the rows the application
\* did not ask to ignore take effect in order, in whole messages, none twice and
\* none left out, until the execution is over; afterwards none of them ever does.
THEOREM ArrayContractKept ==
    ASSUME Careful
    PROVE  Spec => ImplementsContract
  <1>1. Init => ArrayInv /\ Contract!Init
    <2> SUFFICES ASSUME Init PROVE ArrayInv /\ Contract!Init
      OBVIOUS
    <2>1. ~InProgress /\ exec = 0 /\ effect = << >>
      BY DEF Init, InProgress, Idle
    <2> QED BY <2>1, ArrayInit, TodoRows DEF Contract!Init
  <1>2. ArrayInv /\ [Next]_vars => ArrayInv' /\ [Contract!Next]_<<exec, Todo, effect>>
    <2> SUFFICES ASSUME ArrayInv, [Next]_vars
                 PROVE  ArrayInv' /\ [Contract!Next]_<<exec, Todo, effect>>
      OBVIOUS
    <2>1. ArrayInv'
      BY ArrayStep
    <2>2. CASE Done
      BY <2>1, <2>2, DoneImplements DEF Contract!Next
    <2>3. CASE ~Done
      BY <2>1, <2>3, QuietImplements
    <2> QED BY <2>1, <2>2, <2>3
  <1> QED BY <1>1, <1>2, PTL DEF Spec, ImplementsContract, Contract!Spec
==============================================================================
