---------------------------- MODULE RddiDap_proofs ----------------------------
(***************************************************************************)
(* Proofs about the register functions of the RDDI library, for any calls, *)
(* any range of the count byte and any size of a chunk: the transfers are  *)
(* made in order, and a call succeeds only when they all are, by way of    *)
(* one inductive invariant with one lemma per action; and a call ends      *)
(* after a bounded number of steps.                                        *)
(***************************************************************************)
EXTENDS RddiDap, FiniteSetTheorems, SequenceTheorems, TLAPS

-----------------------------------------------------------------------------
(* Runs of positions.                                                      *)

\* Two runs one behind the other are one run.
LEMMA FollowConcat ==
    ASSUME NEW s \in Seq(Nat), NEW t \in Seq(Nat), NEW n \in Nat, Follow(s, n),
           Follow(t, n + Len(s))
    PROVE  s \o t \in Seq(Nat) /\ Len(s \o t) = Len(s) + Len(t) /\ Follow(s \o t, n)
<1>1. /\ s \o t \in Seq(Nat) /\ Len(s \o t) = Len(s) + Len(t)
      /\ \A i \in 1 .. Len(s) + Len(t) :
             (s \o t)[i] = IF i =< Len(s) THEN s[i] ELSE t[i - Len(s)]
    BY ConcatProperties
<1>2. Len(s) \in Nat /\ Len(t) \in Nat
    OBVIOUS
<1>3. ASSUME NEW i \in 1 .. Len(s) + Len(t) PROVE (s \o t)[i] = n + i
  <2>1. CASE i =< Len(s)
      BY <1>1, <1>2, <2>1 DEF Follow
  <2>2. CASE i > Len(s)
    <3>1. i - Len(s) \in 1 .. Len(t)
        BY <1>2, <2>2
    <3>2. t[i - Len(s)] = n + Len(s) + (i - Len(s))
        BY <3>1 DEF Follow
    <3>3. QED
        BY <1>1, <1>2, <2>2, <3>2
  <2>3. QED
      BY <1>2, <2>1, <2>2
<1>4. QED
    BY <1>1, <1>3 DEF Follow

\* The first part of a run is a run.
LEMMA FollowSubSeq ==
    ASSUME NEW s \in Seq(Nat), NEW n \in Nat, NEW k \in 0 .. Len(s), Follow(s, n)
    PROVE  /\ SubSeq(s, 1, k) \in Seq(Nat)
           /\ Len(SubSeq(s, 1, k)) = k
           /\ Follow(SubSeq(s, 1, k), n)
<1>1. \A i \in 1 .. k : s[i] \in Nat
    OBVIOUS
<1>2. /\ SubSeq(s, 1, k) \in Seq(Nat)
      /\ Len(SubSeq(s, 1, k)) = IF 1 =< k THEN k - 1 + 1 ELSE 0
      /\ \A i \in 1 .. k - 1 + 1 : SubSeq(s, 1, k)[i] = s[1 + i - 1]
    BY <1>1, SubSeqProperties
<1>3. QED
    BY <1>2 DEF Follow

\* The next position makes a run longer.
LEMMA FollowAppend ==
    ASSUME NEW s \in Seq(Nat), NEW n \in Nat, Follow(s, n)
    PROVE  Follow(Append(s, n + Len(s) + 1), n)
BY DEF Follow

\* The shortest runs, and the run of all positions.
LEMMA FollowBase ==
    ASSUME NEW n \in Nat
    PROVE  /\ <<>> \in Seq(Nat) /\ Len(<<>>) = 0 /\ Follow(<<>>, n)
           /\ Follow(<<n + 1>>, n)
           /\ Upto(n) \in Seq(Nat) /\ Len(Upto(n)) = n /\ Follow(Upto(n), 0)
BY DEF Follow, Upto

-----------------------------------------------------------------------------
(* Calls and pages.                                                        *)

\* The lists of transfers the assumption fixes.
LEMMA CallFacts ==
    ASSUME NEW c \in Requests \cup {NoCall}
    PROVE  /\ c.regs \in Seq(Kinds)
           /\ Len(c.regs) \in Nat
           /\ c.fn \in Orders \cup {"DetectJtag"} => Len(c.regs) = 0
           /\ c.fn = "DetectSwd" => Len(c.regs) = 2
<1>1. CASE c = NoCall
    BY <1>1 DEF NoCall
<1>2. CASE c \in Requests
  <2>1. c \in [fn : Fns, regs : Seq(Kinds)]
      BY <1>2, RddiAssumption DEF RddiAssumption
  <2>2. c.regs \in Seq(Kinds)
      BY <2>1
  <2>3. Len(c.regs) \in Nat
      BY <2>2
  <2>4. ASSUME c.fn \in Orders \cup {"DetectJtag"} PROVE Len(c.regs) = 0
    <3>1. c.regs = <<>>
        BY <1>2, <2>4, RddiAssumption DEF RddiAssumption
    <3>2. QED
        BY <3>1
  <2>5. ASSUME c.fn = "DetectSwd" PROVE Len(c.regs) = 2
    <3>1. c.regs = <<"read", "read">>
        BY <1>2, <2>5, RddiAssumption DEF RddiAssumption
    <3>2. QED
        BY <3>1
  <2>6. QED
      BY <2>2, <2>3, <2>4, <2>5
<1>3. QED
    BY <1>1, <1>2

\* A remainder is not more than what was divided.
LEMMA Remainder ==
    ASSUME NEW n \in Nat, NEW m \in Nat \ {0}
    PROVE  n % m \in 0 .. n
OBVIOUS

\* The commands that come first in a request.
LEMMA LeadFacts ==
    /\ <<>> \in Seq(LeadIds)
    /\ <<"SWJ_Sequence">> \in Seq(LeadIds)
    /\ SwdLead \in Seq(LeadIds)
    /\ JtagLead \in Seq(LeadIds)
    /\ ConfigureLead \in Seq(LeadIds)
<1>1. ASSUME NEW n \in Nat PROVE [k \in 1 .. n |-> "SWJ_Sequence"] \in Seq(LeadIds)
    BY DEF LeadIds, Reporting
<1>2. /\ <<"Disconnect", "Connect", "SWJ_Clock", "TransferConfigure", "SWD_Configure">> \in Seq(LeadIds)
      /\ <<"Disconnect", "Connect", "SWJ_Clock", "TransferConfigure">> \in Seq(LeadIds)
      /\ <<"JTAG_Configure">> \in Seq(LeadIds)
      /\ <<"SWJ_Sequence">> \in Seq(LeadIds)
      /\ <<>> \in Seq(LeadIds)
    BY DEF LeadIds, Plain, Reporting
<1>3. QED
    BY <1>1, <1>2, ConcatProperties DEF SwdLead, JtagLead, ConfigureLead

\* What a request leaves behind.
LEMMA SendFacts ==
    ASSUME NEW lead \in Seq(LeadIds), NEW config \in Nat, NEW id \in Ids, NEW xs \in Seq(Nat),
           NEW count \in Nat, Send(lead, config, id, xs, count)
    PROVE  /\ page' \in [lead : Seq(LeadIds), config : Nat, id : Ids, xs : Seq(Nat), n : Nat, count : Nat]
           /\ page'.config = config /\ page'.id = id /\ page'.xs = xs /\ page'.count = count
           /\ page'.n \in 0 .. Len(xs)
           /\ id # "Transfer" => page'.n = Len(xs)
           /\ status' = "invalid" /\ step' = "probe"
           /\ UNCHANGED <<call, result, devices, resp, executed>>
<1>1. Len(xs) \in Nat /\ Len(xs) \in 0 .. Len(xs)
    OBVIOUS
<1>2. CountRange \in Nat \ {0}
    BY RddiAssumption DEF RddiAssumption
<1>3. Len(xs) % CountRange \in 0 .. Len(xs)
    BY <1>1, <1>2, Remainder
<1>4. /\ page' = [lead |-> lead, config |-> config, id |-> id, xs |-> xs,
                  n |-> IF id = "Transfer" THEN Len(xs) % CountRange ELSE Len(xs),
                  count |-> count]
      /\ status' = "invalid" /\ step' = "probe"
      /\ UNCHANGED <<call, result, devices, resp, executed>>
    BY DEF Send, probeVars
<1>5. QED
    BY <1>1, <1>3, <1>4
-----------------------------------------------------------------------------
(* The three ways on: a request, a return, and back to the next one.       *)

\* The length of a call, for both states of a step that keeps it.
LEMMA TotalFacts ==
    ASSUME ControlTypeOK
    PROVE  /\ Total \in Nat
           /\ call.fn \in Orders \cup {"DetectJtag"} => Total = 0
           /\ call.fn = "DetectSwd" => Total = 2
BY CallFacts DEF ControlTypeOK, Total

\* A request that takes up where the target has stopped.
LEMMA SendStep ==
    ASSUME RddiInductive, step = "build",
           NEW lead \in Seq(LeadIds), NEW config \in Nat, NEW id \in Ids, NEW xs \in Seq(Nat),
           NEW count \in Nat, Send(lead, config, id, xs, count),
           pos' \in 1 .. Total + 1, setup' \in Nat, batch' \in Seq(Nat), reads' \in Seq(Nat),
           phase' \in 0 .. 3,
           call.fn \in Singles => pos' = Total + 1,
           Made + Own(config) + Len(xs) = pos' - 1,
           config # 0 => config = Made + 1,
           Follow(xs, Made + Own(config)),
           id \in Counting => count = Len(xs),
           id \notin Counting \cup {"WriteABORT"} => xs = <<>>,
           id = "none" => config # 0
    PROVE  RddiInductive'
<1>1. /\ page' \in [lead : Seq(LeadIds), config : Nat, id : Ids, xs : Seq(Nat), n : Nat, count : Nat]
      /\ page'.config = config /\ page'.id = id /\ page'.xs = xs /\ page'.count = count
      /\ page'.n \in 0 .. Len(xs)
      /\ id # "Transfer" => page'.n = Len(xs)
      /\ status' = "invalid" /\ step' = "probe"
      /\ UNCHANGED <<call, result, devices, resp, executed>>
    BY SendFacts
<1>2. Total' = Total /\ Made' = Made
    BY <1>1 DEF Total, Made
<1>3. ControlTypeOK'
    BY <1>1, <1>2 DEF RddiInductive, ControlTypeOK
<1>4. Placed'
    BY <1>1, <1>2 DEF RddiInductive, Placed
<1>5. Sent'
  <2>1. Follow(page'.xs, Made' + Own(page'.config))
      BY <1>1, <1>2
  <2>2. /\ Made' + Own(page'.config) + Len(page'.xs) = pos' - 1
        /\ page'.config # 0 => page'.config = Made' + 1
        /\ page'.n \in 0 .. Len(page'.xs)
        /\ page'.id \in Counting => page'.count = Len(page'.xs)
        /\ page'.id = "WriteABORT" => page'.n = Len(page'.xs)
        /\ page'.id \notin Counting \cup {"WriteABORT"} => page'.xs = <<>>
        /\ page'.id = "none" => page'.config # 0
      BY <1>1, <1>2
  <2>3. QED
      BY <2>1, <2>2 DEF Sent, Follow, Own, Made
<1>6. Follow(executed, 0)'
    BY <1>1 DEF RddiInductive, Follow
<1>7. Built' /\ Answers' /\ Accepted'
    BY <1>1 DEF Built, Answers, Accepted
<1>8. QED
    BY <1>3, <1>4, <1>5, <1>6, <1>7 DEF RddiInductive

\* A return.
LEMMA ReturnStep ==
    ASSUME RddiInductive, NEW r \in Results \ {"pending"}, Return(r), devices' \in Nat
    PROVE  RddiInductive'
<1>1. /\ result' = r /\ step' = "idle" /\ page' = NoPage /\ status' = "invalid"
      /\ UNCHANGED <<call, pos, setup, batch, reads, phase, resp, executed>>
    BY DEF Return, buildVars, probeVars
<1>2. NoPage \in [lead : Seq(LeadIds), config : Nat, id : Ids, xs : Seq(Nat), n : Nat, count : Nat]
    BY LeadFacts DEF NoPage, Ids
<1>3. Total' = Total
    BY <1>1 DEF Total
<1>4. ControlTypeOK'
    BY <1>1, <1>2, <1>3 DEF RddiInductive, ControlTypeOK, Results
<1>5. Placed'
    BY <1>1 DEF Placed
<1>6. Follow(executed, 0)'
    BY <1>1 DEF RddiInductive, Follow
<1>7. Built' /\ Sent' /\ Answers' /\ Accepted'
    BY <1>1 DEF Built, Sent, Answers, Accepted
<1>8. QED
    BY <1>4, <1>5, <1>6, <1>7 DEF RddiInductive

\* Back to the next request of a call that is no block, all made so far.
LEMMA BackStep ==
    ASSUME RddiInductive, step = "check", status = "OK", step' = "build",
           call.fn \notin Singles \cup {"RegAccessBlock"},
           call.fn = "DetectSwd" => pos =< Total,
           call.fn = "DetectJtag" => phase =< 2,
           UNCHANGED <<buildVars, phase, result, page, parseVars, probeVars>>,
           devices' \in Nat
    PROVE  RddiInductive'
<1>1. UNCHANGED <<call, pos, setup, batch, reads, phase, result, page, resp, status, executed>>
    BY DEF buildVars, parseVars, probeVars
<1>2. Total' = Total /\ Made' = Made
    BY <1>1 DEF Total, Made
<1>3. ControlTypeOK'
    BY <1>1, <1>2 DEF RddiInductive, ControlTypeOK
<1>4. Placed'
    BY <1>1, <1>2 DEF RddiInductive, Placed
<1>5. Built'
    BY <1>1, <1>2 DEF RddiInductive, Accepted, Built
<1>6. Follow(executed, 0)'
    BY <1>1 DEF RddiInductive, Follow
<1>7. Sent' /\ Answers' /\ Accepted'
    BY <1>1 DEF Sent, Answers, Accepted
<1>8. QED
    BY <1>3, <1>4, <1>5, <1>6, <1>7 DEF RddiInductive
-----------------------------------------------------------------------------
(* The actions of the library before a request.                            *)

\* A call, accepted or refused.
LEMMA CallStep ==
    ASSUME RddiInductive, NEW r \in Requests, Call(r)
    PROVE  RddiInductive'
<1>1. /\ call' = r /\ pos' = 1 /\ setup' = 0 /\ batch' = <<>> /\ reads' = <<>>
      /\ phase' = 0 /\ devices' = 0 /\ executed' = <<>>
      /\ \/ step' = "build" /\ result' = "pending"
         \/ step' = "idle" /\ result' = "failed"
      /\ UNCHANGED <<page, resp, status>>
    BY DEF Call
<1>2. Total' \in Nat /\ (r.fn = "DetectSwd" => Total' = 2)
  <2>1. r \in Requests \cup {NoCall}
      OBVIOUS
  <2>2. Len(r.regs) \in Nat /\ (r.fn = "DetectSwd" => Len(r.regs) = 2)
      BY <2>1, CallFacts
  <2>3. Total' = Len(r.regs)
      BY <1>1 DEF Total
  <2>4. QED
      BY <2>2, <2>3
<1>3. ControlTypeOK'
  <2>1. /\ pos' \in 1 .. Total' + 1 /\ setup' \in Nat /\ phase' \in 0 .. 3 /\ devices' \in Nat
    <3>1. pos' = 1 /\ setup' = 0 /\ phase' = 0 /\ devices' = 0
        BY <1>1
    <3>2. Total' = Len(r.regs) /\ Len(r.regs) \in Nat
        BY <1>1, CallFacts DEF Total
    <3>3. pos' \in 1 .. Len(r.regs) + 1
        BY <3>1, <3>2
    <3>4. QED
        BY <1>1, <3>1, <3>3 DEF Total
  <2>5. batch' \in Seq(Nat) /\ reads' \in Seq(Nat) /\ executed' \in Seq(Nat)
      BY <1>1, FollowBase, 0 \in Nat, Zenon
  <2>2. result' \in Results /\ step' \in {"idle", "build", "probe", "parse", "check"}
      BY <1>1 DEF Results
  <2>3. call' \in Requests \cup {NoCall}
      BY <1>1
  <2>4. QED
      BY <1>1, <2>1, <2>2, <2>3, <2>5 DEF RddiInductive, ControlTypeOK
<1>4. Placed'
  <2>1. step' = "idle" <=> result' # "pending"
      BY <1>1
  <2>2. pos' = 1 /\ phase' =< 2 /\ step' \notin {"probe", "parse", "check"}
      BY <1>1
  <2>3. call'.fn = "DetectSwd" => pos' =< Total'
      BY <1>1, <1>2
  <2>4. QED
      BY <2>1, <2>2, <2>3 DEF Placed
<1>5. Built'
    BY <1>1, FollowBase DEF Built, Made, Own, Follow
<1>6. Follow(executed, 0)'
    BY <1>1 DEF Follow
<1>7. Sent' /\ Answers' /\ Accepted'
    BY <1>1 DEF Sent, Answers, Accepted
<1>8. QED
    BY <1>3, <1>4, <1>5, <1>6, <1>7 DEF RddiInductive

\* One more transfer in the array.
LEMMA AddTransferStep ==
    ASSUME RddiInductive, AddTransfer
    PROVE  RddiInductive'
<1>1. /\ step = "build" /\ call.fn = "RegAccessBlock" /\ pos =< Total
      /\ batch' = Append(batch, pos)
      /\ reads' = IF IsRead(pos) THEN Append(reads, pos) ELSE reads
      /\ pos' = pos + 1
      /\ UNCHANGED <<call, setup, phase, devices, result, step, page, resp, status, executed>>
    BY DEF AddTransfer, detectVars, resultVars, parseVars, probeVars
<1>2. Total' = Total /\ Made' = Made /\ Total \in Nat /\ Made \in Nat
    BY <1>1, TotalFacts DEF RddiInductive, Total, Made, ControlTypeOK
<1>3. pos \in Nat /\ batch \in Seq(Nat) /\ reads \in Seq(Nat)
    BY <1>2 DEF RddiInductive, ControlTypeOK
<1>4. batch' \in Seq(Nat) /\ reads' \in Seq(Nat) /\ Len(batch') = Len(batch) + 1
    BY <1>1, <1>3
<1>5. ControlTypeOK'
    BY <1>1, <1>2, <1>4 DEF RddiInductive, ControlTypeOK
<1>6. Placed'
    BY <1>1, <1>2 DEF RddiInductive, Placed, Singles, Orders
<1>7. Built'
  <2>1. /\ Made + Own(setup) + Len(batch) = pos - 1
        /\ setup # 0 => setup = Made + 1
        /\ Follow(batch, Made + Own(setup))
      BY <1>1 DEF RddiInductive, Built
  <2>2. Own(setup) \in Nat
      BY DEF Own
  <2>3. pos = Made + Own(setup) + Len(batch) + 1
      BY <1>2, <1>3, <2>1, <2>2
  <2>4. Follow(batch', Made + Own(setup))
      BY <1>1, <1>2, <1>3, <2>1, <2>2, <2>3, FollowAppend
  <2>5. Made' + Own(setup') + Len(batch') = pos' - 1
      BY <1>1, <1>2, <1>3, <1>4, <2>2, <2>3
  <2>6. QED
      BY <1>1, <1>2, <2>1, <2>4, <2>5 DEF Built, Made, Own, Follow
<1>8. Follow(executed, 0)'
    BY <1>1 DEF RddiInductive, Follow
<1>9. Sent' /\ Answers' /\ Accepted'
    BY <1>1 DEF Sent, Answers, Accepted
<1>10. QED
    BY <1>5, <1>6, <1>7, <1>8, <1>9 DEF RddiInductive

\* A new array, for the match retry at this position, when everything before
\* it has been made.
LEMMA StartStep ==
    ASSUME RddiInductive, call.fn = "RegAccessBlock", pos =< Total, StartBatch,
           Made = pos - 1, step' = "build", result' = "pending",
           UNCHANGED <<call, phase, devices, page, resp, status, executed>>
    PROVE  RddiInductive'
<1>1. setup' = pos /\ batch' = <<>> /\ reads' = <<>> /\ pos' = pos + 1
    BY DEF StartBatch
<1>2. Total' = Total /\ Made' = Made /\ Total \in Nat /\ pos \in Nat /\ pos >= 1
    BY TotalFacts DEF RddiInductive, Total, Made, ControlTypeOK
<1>3. ControlTypeOK'
    BY <1>1, <1>2 DEF RddiInductive, ControlTypeOK, Results
<1>4. Placed'
    BY DEF Placed, Singles, Orders
<1>5. Built'
    BY <1>1, <1>2 DEF Built, Made, Own, Follow
<1>6. Follow(executed, 0)'
    BY DEF RddiInductive, Follow
<1>7. Sent' /\ Answers' /\ Accepted'
    BY DEF Sent, Answers, Accepted
<1>8. QED
    BY <1>3, <1>4, <1>5, <1>6, <1>7 DEF RddiInductive

\* A match retry with nothing before it.
LEMMA SkipRetryStep ==
    ASSUME RddiInductive, SkipRetry
    PROVE  RddiInductive'
<1>1. /\ step = "build" /\ call.fn = "RegAccessBlock" /\ pos =< Total
      /\ setup = 0 /\ batch = <<>> /\ StartBatch
      /\ UNCHANGED <<call, phase, devices, result, step, page, resp, status, executed>>
    BY DEF SkipRetry, NothingToSend, detectVars, resultVars, parseVars, probeVars
<1>2. Made = pos - 1
    BY <1>1 DEF RddiInductive, ControlTypeOK, Built, Own, Made
<1>3. result = "pending"
    BY <1>1 DEF RddiInductive, Placed
<1>4. QED
    BY <1>1, <1>2, <1>3, StartStep

\* The configuration of the match retries, the batch, or both are sent.
LEMMA SendBatchStep ==
    ASSUME RddiInductive, SendBatch
    PROVE  RddiInductive'
<1> DEFINE id == IF setup # 0 /\ batch = <<>> THEN "none" ELSE "Transfer"
<1>1. /\ step = "build" /\ call.fn = "RegAccessBlock"
      /\ Send(<<>>, setup, id, batch, Len(batch))
      /\ UNCHANGED <<pos, setup, batch, reads, phase>>
    BY DEF SendBatch
<1>2. /\ setup \in Nat /\ batch \in Seq(Nat) /\ reads \in Seq(Nat) /\ phase \in 0 .. 3
      /\ pos \in 1 .. Total + 1
    BY DEF RddiInductive, ControlTypeOK
<1>3. /\ Made + Own(setup) + Len(batch) = pos - 1
      /\ setup # 0 => setup = Made + 1
      /\ Follow(batch, Made + Own(setup))
    BY <1>1 DEF RddiInductive, Built
<1>4. /\ id \in Ids
      /\ id \in Counting => Len(batch) = Len(batch)
      /\ id \notin Counting \cup {"WriteABORT"} => batch = <<>>
      /\ id = "none" => setup # 0
    BY DEF Ids, Counting
<1>5. <<>> \in Seq(LeadIds) /\ Len(batch) \in Nat
    BY <1>2, LeadFacts
<1>6. call.fn \notin Singles
    BY <1>1 DEF Singles, Orders
<1> HIDE DEF id
<1>7. QED
    BY <1>1, <1>2, <1>3, <1>4, <1>5, <1>6, SendStep

\* A function that sends its transfers at once.
LEMMA SendAllStep ==
    ASSUME RddiInductive, SendAll
    PROVE  RddiInductive'
<1> DEFINE id == CASE call.fn \in {"ReadReg", "WriteReg"} -> "Transfer"
                   [] call.fn = "RegReadRepeat" -> "TransferBlock"
                   [] call.fn = "WriteAbort" -> "WriteABORT"
                   [] call.fn = "Commands" -> "ResetTarget"
                   [] call.fn = "SwjSequence" -> "SWJ_Sequence"
                   [] call.fn = "SwjPins" -> "SWJ_Pins"
<1> HIDE DEF id
<1>1. /\ step = "build" /\ call.fn \in Singles
      /\ batch' = Upto(Total)
      /\ reads' = IF call.fn \in {"ReadReg", "RegReadRepeat"} THEN Upto(Total) ELSE <<>>
      /\ pos' = Total + 1
      /\ Send(<<>>, 0, id, Upto(Total), Total)
      /\ UNCHANGED <<setup, phase>>
    BY DEF SendAll, id
<1>2. /\ Total \in Nat
      /\ call.fn \in Orders => Total = 0
    BY TotalFacts DEF RddiInductive
<1>3. /\ Upto(Total) \in Seq(Nat) /\ Len(Upto(Total)) = Total /\ Follow(Upto(Total), 0)
      /\ <<>> \in Seq(Nat)
    BY <1>2, FollowBase
<1>4. Made = 0 /\ Own(0) = 0
  <2>1. pos = 1
      BY <1>1 DEF RddiInductive, Placed
  <2>2. call.fn # "RegAccessBlock"
      BY <1>1 DEF Singles, Orders
  <2>3. Made = pos - 1
      BY <1>1, <2>2 DEF RddiInductive, Built
  <2>4. QED
      BY <2>1, <2>3 DEF Own
<1>5. id \in Ids
    BY <1>1 DEF Ids, Singles, Orders, id
<1>6. id \notin Counting \cup {"WriteABORT"} => Upto(Total) = <<>>
  <2>1. id \notin Counting \cup {"WriteABORT"} => call.fn \in Orders
      BY <1>1 DEF Counting, Singles, Orders, id
  <2>2. Total = 0 => Upto(Total) = <<>>
      BY <1>3
  <2>3. QED
      BY <1>2, <2>1, <2>2
<1>7. id # "none"
    BY <1>1 DEF Singles, Orders, id
<1>8. /\ pos' \in 1 .. Total + 1 /\ setup' \in Nat /\ batch' \in Seq(Nat) /\ reads' \in Seq(Nat)
      /\ phase' \in 0 .. 3
    BY <1>1, <1>2, <1>3 DEF RddiInductive, ControlTypeOK
<1>9. Made + Own(0) + Len(Upto(Total)) = pos' - 1 /\ Follow(Upto(Total), Made + Own(0))
    BY <1>1, <1>2, <1>3, <1>4
<1>10. <<>> \in Seq(LeadIds) /\ 0 \in Nat
    BY LeadFacts
<1>11. QED
    BY <1>1, <1>2, <1>3, <1>5, <1>6, <1>7, <1>8, <1>9, <1>10, SendStep
\* The next words of a repeated write.
LEMMA SendChunkStep ==
    ASSUME RddiInductive, SendChunk
    PROVE  RddiInductive'
<1>1. /\ step = "build" /\ call.fn = "RegWriteRepeat" /\ pos =< Total
      /\ batch' = Chunk
      /\ pos' = pos + Len(Chunk)
      /\ Send(<<>>, 0, "TransferBlock", Chunk, Len(Chunk))
      /\ UNCHANGED <<setup, reads, phase>>
    BY DEF SendChunk
<1>2. /\ Total \in Nat /\ pos \in Nat /\ pos >= 1
      /\ setup \in Nat /\ reads \in Seq(Nat) /\ phase \in 0 .. 3
    BY TotalFacts DEF RddiInductive, ControlTypeOK
<1>3. Made = pos - 1
    BY <1>1 DEF RddiInductive, Built
<1>4. PICK n \in Nat : n =< Total - pos + 1 /\ Chunk = [k \in 1 .. n |-> pos + k - 1]
  <2> DEFINE n == IF Total - pos + 1 < MaxTransmit THEN Total - pos + 1 ELSE MaxTransmit
  <2>1. MaxTransmit \in Nat
      BY RddiAssumption DEF RddiAssumption
  <2>2. n \in Nat /\ n =< Total - pos + 1
      BY <1>1, <1>2, <2>1
  <2>3. Chunk = [k \in 1 .. n |-> pos + k - 1]
      BY DEF Chunk
  <2> HIDE DEF n
  <2>4. QED
      BY <2>2, <2>3
<1>5. Chunk \in Seq(Nat) /\ Len(Chunk) = n
    BY <1>2, <1>4
<1>6. Follow(Chunk, Made)
    BY <1>2, <1>3, <1>4, <1>5 DEF Follow
<1>7. Own(0) = 0 /\ Made \in Nat
    BY <1>2, <1>3 DEF Own
<1>8. /\ pos' \in 1 .. Total + 1
      /\ Made + Own(0) + Len(Chunk) = pos' - 1
      /\ Made + Own(0) = Made
    BY <1>1, <1>2, <1>3, <1>4, <1>5, <1>7
<1>9. /\ "TransferBlock" \in Ids /\ "TransferBlock" \in Counting /\ call.fn \notin Singles
      /\ <<>> \in Seq(LeadIds)
    BY <1>1, LeadFacts DEF Ids, Counting, Singles, Orders
<1>10. QED
    BY <1>1, <1>2, <1>5, <1>6, <1>8, <1>9, SendStep

\* The ID code is asked for.
LEMMA SendIdcodeStep ==
    ASSUME RddiInductive, SendIdcode
    PROVE  RddiInductive'
<1> DEFINE lead == IF pos = 1 THEN SwdLead ELSE <<"SWJ_Sequence">>
           xs == <<pos>>
<1>1. /\ step = "build" /\ call.fn = "DetectSwd"
      /\ batch' = xs /\ reads' = xs
      /\ pos' = pos + 1
      /\ Send(lead, 0, "Transfer", xs, 1)
      /\ UNCHANGED <<setup, phase>>
    BY DEF SendIdcode
<1>2. /\ Total \in Nat /\ pos \in Nat /\ pos >= 1 /\ pos =< Total
      /\ setup \in Nat /\ phase \in 0 .. 3
    BY <1>1, TotalFacts DEF RddiInductive, ControlTypeOK, Placed
<1>3. Made = pos - 1 /\ Made \in Nat
    BY <1>1, <1>2 DEF RddiInductive, Built
<1>4. xs \in Seq(Nat) /\ Len(xs) = 1
    BY <1>2
<1>5. Follow(xs, Made)
    BY <1>2, <1>3 DEF Follow
<1>6. lead \in Seq(LeadIds)
    BY LeadFacts
<1> HIDE DEF lead, xs
<1>7. /\ pos' \in 1 .. Total + 1
      /\ Own(0) = 0
      /\ Made + Own(0) + Len(xs) = pos' - 1
      /\ Made + Own(0) = Made
    BY <1>1, <1>2, <1>3, <1>4 DEF Own
<1>8. "Transfer" \in Ids /\ "Transfer" \in Counting /\ call.fn \notin Singles
    BY <1>1 DEF Ids, Counting, Singles, Orders
<1>9. QED
    BY <1>1, <1>2, <1>4, <1>5, <1>6, <1>7, <1>8, SendStep

\* Each step of the detection of the JTAG chain sends captures only.
LEMMA ScanSends ==
    ASSUME RddiInductive, SendScan
    PROVE  \E lead \in Seq(LeadIds), count \in Nat : Send(lead, 0, "JTAG_Sequence", <<>>, count)
<1>1. phase \in {0, 1, 2} /\ devices \in Nat /\ TdoWords \in Nat
    BY RddiAssumption DEF SendScan, RddiInductive, ControlTypeOK, Placed, RddiAssumption
<1>2. CASE phase = 0
    BY <1>1, <1>2, LeadFacts DEF SendScan
<1>3. CASE phase = 1
    BY <1>1, <1>3, LeadFacts DEF SendScan
<1>4. CASE phase = 2
    BY <1>1, <1>4, LeadFacts DEF SendScan
<1>5. QED
    BY <1>1, <1>2, <1>3, <1>4

\* A step of the detection of the JTAG chain.
LEMMA SendScanStep ==
    ASSUME RddiInductive, SendScan
    PROVE  RddiInductive'
<1>1. PICK lead \in Seq(LeadIds), count \in Nat :
          Send(lead, 0, "JTAG_Sequence", <<>>, count)
    BY ScanSends
<1>2. /\ step = "build" /\ call.fn = "DetectJtag" /\ phase' = phase + 1
      /\ UNCHANGED <<pos, setup, batch, reads>>
    BY DEF SendScan
<1>3. /\ pos \in 1 .. Total + 1 /\ setup \in Nat /\ batch \in Seq(Nat) /\ reads \in Seq(Nat)
      /\ phase' \in 0 .. 3 /\ Total \in Nat
    BY <1>2, TotalFacts DEF RddiInductive, ControlTypeOK, Placed
<1>4. Made = pos - 1
    BY <1>2 DEF RddiInductive, Built
<1>5. /\ <<>> \in Seq(Nat) /\ Len(<<>>) = 0 /\ Own(0) = 0 /\ Follow(<<>>, Made + Own(0))
  <2>1. Own(0) = 0 /\ Made + Own(0) \in Nat
      BY <1>3, <1>4 DEF Own
  <2>2. QED
      BY <2>1, FollowBase
<1>6. /\ pos' = pos
      /\ Made + Own(0) + Len(<<>>) = pos - 1
    BY <1>2, <1>3, <1>4, <1>5
<1>7. /\ "JTAG_Sequence" \in Ids \ (Counting \cup {"WriteABORT", "none"})
      /\ call.fn \notin Singles
    BY <1>2 DEF Ids, Counting, Singles, Orders
<1>8. QED
    BY <1>1, <1>2, <1>3, <1>5, <1>6, <1>7, SendStep

-----------------------------------------------------------------------------
(* The probe.                                                              *)

\* What is made of a request follows what was made before, and its response
\* ends with a refusal unless all of it has been made.
LEMMA ProbeStep ==
    ASSUME RddiInductive, Probe
    PROVE  RddiInductive'
<1>1. PICK k \in 0 .. page.n, s \in ProbeStatus, lead \in {"OK", "ERROR"} :
          (page.id = "none" => s = "OK") /\ ProbeAnswers(k, s, lead)
    BY DEF Probe
<1> DEFINE R == [id : Ids \cup LeadIds, status : ProbeStatus \cup {"ERROR"}, n : Nat, made : Seq(Nat)]
           made == SubSeq(page.xs, 1, k)
           cfg == IF page.config = 0 THEN <<>> ELSE <<page.config>>
           m == IF page.id \in Counting THEN k ELSE page.count
           last == Response(page.id, s, m, made)
           A == [j \in DOMAIN page.lead |-> Response(page.lead[j], lead, 0, <<>>)]
           B == IF page.config = 0 THEN <<>> ELSE <<Response("TransferConfigure", "OK", 0, <<>>)>>
           C == IF page.id = "none" THEN <<>> ELSE <<last>>
<1>2. /\ step = "probe" /\ step' = "parse"
      /\ s = "OK" => k = page.n
      /\ executed' = (executed \o cfg) \o made
      /\ resp' = (A \o B) \o C
      /\ UNCHANGED <<call, pos, setup, batch, reads, phase, devices, result, page, status>>
    BY <1>1 DEF ProbeAnswers, buildVars, detectVars, resultVars
<1>3. /\ page.lead \in Seq(LeadIds) /\ page.config \in Nat /\ page.id \in Ids /\ page.xs \in Seq(Nat)
      /\ page.n \in Nat /\ page.count \in Nat /\ executed \in Seq(Nat) /\ Made \in Nat
      /\ pos \in Int
    BY TotalFacts DEF RddiInductive, ControlTypeOK, Made
<1>4. /\ Made + Own(page.config) + Len(page.xs) = pos - 1
      /\ page.config # 0 => page.config = Made + 1
      /\ Follow(page.xs, Made + Own(page.config))
      /\ page.n \in 0 .. Len(page.xs)
      /\ page.id \in Counting => page.count = Len(page.xs)
      /\ page.id = "WriteABORT" => page.n = Len(page.xs)
      /\ page.id \notin Counting \cup {"WriteABORT"} => page.xs = <<>>
      /\ page.id = "none" => page.config # 0
    BY <1>2 DEF RddiInductive, Sent
<1>5. /\ cfg \in Seq(Nat) /\ Len(cfg) = Own(page.config) /\ Follow(cfg, Made)
      /\ Own(page.config) \in Nat
    BY <1>3, <1>4 DEF Own, Follow
<1>6. k \in 0 .. Len(page.xs)
    BY <1>3, <1>4
<1>7. made \in Seq(Nat) /\ Len(made) = k /\ Follow(made, Made + Own(page.config))
  <2>1. Made + Own(page.config) \in Nat
      BY <1>3, <1>5
  <2>2. QED
      BY <1>3, <1>4, <1>6, <2>1, FollowSubSeq
<1> HIDE DEF cfg, made
<1>8. executed' \in Seq(Nat) /\ Len(executed') = Made + Own(page.config) + k /\ Follow(executed', 0)
  <2>1. Follow(executed, 0) /\ Len(executed) = Made /\ 0 + Len(executed) = Made
      BY <1>3 DEF RddiInductive, Made
  <2>2. /\ executed \o cfg \in Seq(Nat) /\ Len(executed \o cfg) = Made + Own(page.config)
        /\ Follow(executed \o cfg, 0)
      BY <1>3, <1>5, <2>1, FollowConcat
  <2>3. 0 + Len(executed \o cfg) = Made + Own(page.config)
      BY <1>3, <1>5, <2>2
  <2>4. QED
      BY <1>2, <1>7, <2>2, <2>3, FollowConcat
<1>9. m \in Nat
    BY <1>3, <1>6
<1> HIDE DEF m
<1>10. last \in R /\ last.id = page.id /\ last.n = m /\ last.status = s
    BY <1>3, <1>7, <1>9 DEF Response
<1> HIDE DEF last
<1>11. A \in Seq(R)
  <2>1. /\ Len(page.lead) \in Nat /\ DOMAIN page.lead = 1 .. Len(page.lead)
        /\ \A j \in 1 .. Len(page.lead) : page.lead[j] \in LeadIds
      BY <1>3
  <2>2. <<>> \in Seq(Nat)
      BY FollowBase, 0 \in Nat, Zenon
  <2>3. ASSUME NEW j \in 1 .. Len(page.lead) PROVE Response(page.lead[j], lead, 0, <<>>) \in R
    <3>1. page.lead[j] \in Ids \cup LeadIds /\ lead \in ProbeStatus \cup {"ERROR"}
        BY <2>1 DEF ProbeStatus
    <3>2. [id |-> page.lead[j], status |-> lead, n |-> 0, made |-> <<>>] \in R
        BY <2>2, <3>1
    <3>3. QED
        BY <3>2 DEF Response
  <2> HIDE DEF R
  <2>4. QED
      BY <2>1, <2>3
<1>12. B \in Seq(R) /\ (page.config # 0 => Len(B) = 1)
  <2>1. <<>> \in Seq(Nat)
      BY FollowBase, 0 \in Nat, Zenon
  <2>2. Response("TransferConfigure", "OK", 0, <<>>) \in R
      BY <2>1 DEF Response, LeadIds, ProbeStatus
  <2>3. <<>> \in Seq(R)
      BY EmptySeq, Zenon
  <2> HIDE DEF R
  <2>4. QED
      BY <2>2, <2>3
<1> HIDE DEF R, A, B
<1>13. A \o B \in Seq(R) /\ (page.config # 0 => Len(A \o B) >= 1)
  <2>1. A \o B \in Seq(R) /\ Len(A \o B) = Len(A) + Len(B)
      BY <1>11, <1>12, ConcatProperties
  <2>2. Len(A) \in Nat
      BY <1>11
  <2>3. QED
      BY <1>12, <2>1, <2>2
<1>14. C \in Seq(R) /\ (page.id # "none" => Len(C) = 1 /\ C[1] = last) /\ (page.id = "none" => C = <<>>)
    BY <1>10, EmptySeq
<1> HIDE DEF C
<1>15. /\ resp' \in Seq(R)
       /\ Len(resp') = Len(A \o B) + Len(C)
       /\ page.id # "none" => resp'[Len(resp')] = last
       /\ resp' # <<>>
  <2>1. /\ resp' \in Seq(R)
        /\ Len(resp') = Len(A \o B) + Len(C)
        /\ \A i \in 1 .. Len(A \o B) + Len(C) :
               resp'[i] = IF i =< Len(A \o B) THEN (A \o B)[i] ELSE C[i - Len(A \o B)]
      BY <1>2, <1>13, <1>14, ConcatProperties
  <2>2. Len(A \o B) \in Nat /\ Len(C) \in Nat
      BY <1>13, <1>14
  <2>3. CASE page.id = "none"
    <3>1. Len(A \o B) >= 1
        BY <1>4, <1>13, <2>3
    <3>2. Len(resp') # 0
        BY <2>1, <2>2, <3>1
    <3>3. QED
        BY <2>1, <2>3, <3>2
  <2>4. CASE page.id # "none"
    <3>1. Len(C) = 1 /\ C[1] = last
        BY <1>14, <2>4
    <3>2. Len(resp') \in 1 .. Len(A \o B) + Len(C) /\ Len(resp') - Len(A \o B) = 1
          /\ ~(Len(resp') =< Len(A \o B))
        BY <2>1, <2>2, <3>1
    <3>3. QED
        BY <2>1, <3>1, <3>2
  <2>5. QED
      BY <2>3, <2>4
<1>16. Made' = Made + Own(page.config) + k
    BY <1>8 DEF Made
<1>17. Made' =< pos - 1 /\ Made' \in Nat
    BY <1>3, <1>4, <1>5, <1>6, <1>16
<1>18. Made' = pos - 1 \/ Refused(last)
  <2>1. CASE k = Len(page.xs)
      BY <1>3, <1>4, <1>5, <1>16, <2>1
  <2>2. CASE k # Len(page.xs) /\ page.id \in Counting
      BY <1>4, <1>10, <2>2 DEF Refused, m
  <2>3. CASE k # Len(page.xs) /\ page.id = "WriteABORT"
      BY <1>2, <1>4, <1>10, <2>3 DEF Refused
  <2>4. CASE page.id \notin Counting \cup {"WriteABORT"}
    <3>1. Len(page.xs) = 0
        BY <1>4, <2>4
    <3>2. QED
        BY <1>6, <2>1, <3>1
  <2>5. QED
      BY <2>1, <2>2, <2>3, <2>4
<1>19. Answers'
  <2>1. page.id = "none" => Made' = pos - 1
    <3>1. page.id = "none" => page.id \notin Counting \cup {"WriteABORT"}
        BY DEF Counting
    <3>2. page.id = "none" => Len(page.xs) = 0
        BY <1>4, <3>1
    <3>3. QED
        BY <1>3, <1>4, <1>5, <1>6, <1>16, <3>2
  <2>3. Made' = pos - 1 \/ Refused(resp[Len(resp)])'
      BY <1>2, <1>10, <1>15, <1>18, <2>1 DEF Refused
  <2>4. pos' = pos
      BY <1>2
  <2>5. QED
      BY <1>15, <1>17, <2>3, <2>4 DEF Answers
<1>20. Total' = Total
    BY <1>2 DEF Total
<1>21. ControlTypeOK'
    BY <1>2, <1>8, <1>15, <1>20 DEF RddiInductive, ControlTypeOK, R
<1>22. Placed'
    BY <1>2, <1>20 DEF RddiInductive, Placed
<1>23. Follow(executed, 0)'
    BY <1>8 DEF Follow
<1>24. Built' /\ Sent' /\ Accepted'
    BY <1>2 DEF Built, Sent, Accepted
<1>25. QED
    BY <1>19, <1>21, <1>22, <1>23, <1>24 DEF RddiInductive

-----------------------------------------------------------------------------
(* The parser.                                                             *)

\* A command of the response has been parsed.  One that is short is left at
\* once, with a status that is not OK.
LEMMA ParsedStep ==
    ASSUME RddiInductive, step = "parse", NEW leaves \in BOOLEAN, Parsed(leaves),
           status' \in ProbeStatus \cup {"ERROR", "invalid"},
           leaves => status' # "OK",
           Refused(Head(resp)) => leaves
    PROVE  RddiInductive'
<1>1. /\ step' = IF leaves \/ Len(resp) = 1 THEN "check" ELSE "parse"
      /\ resp' = IF leaves THEN <<>> ELSE Tail(resp)
      /\ UNCHANGED <<call, pos, setup, batch, reads, phase, devices, result, page, executed>>
    BY DEF Parsed, buildVars, detectVars, resultVars, probeVars
<1> DEFINE R == [id : Ids \cup LeadIds, status : ProbeStatus \cup {"ERROR"}, n : Nat, made : Seq(Nat)]
<1>2. resp \in Seq(R) /\ resp # <<>>
    BY DEF RddiInductive, ControlTypeOK, Answers
<1> HIDE DEF R
<1>3. /\ Head(resp) = resp[1]
      /\ Tail(resp) \in Seq(R)
      /\ Len(Tail(resp)) = Len(resp) - 1
      /\ \A i \in 1 .. Len(resp) - 1 : Tail(resp)[i] = resp[i + 1]
      /\ Len(resp) \in Nat \ {0}
    BY <1>2
<1>4. /\ Made =< pos - 1
      /\ Made = pos - 1 \/ Refused(resp[Len(resp)])
    BY DEF RddiInductive, Answers
<1>5. Total' = Total /\ Made' = Made
    BY <1>1 DEF Total, Made
<1>6. ControlTypeOK'
  <2>1. <<>> \in Seq(R)
      BY Zenon, EmptySeq
  <2>2. resp' \in Seq(R)
      BY <1>1, <1>3, <2>1
  <2>3. step' \in {"idle", "build", "probe", "parse", "check"}
      BY <1>1
  <2>4. QED
      BY <1>1, <1>5, <2>2, <2>3 DEF RddiInductive, ControlTypeOK, R
<1>7. Placed'
    BY <1>1, <1>5 DEF RddiInductive, Placed
<1>8. Follow(executed, 0)'
    BY <1>1 DEF RddiInductive, Follow
<1>9. Built' /\ Sent'
    BY <1>1 DEF Built, Sent
<1>10. Answers'
  <2> SUFFICES ASSUME step' = "parse" PROVE Answers'
      BY DEF Answers
  <2>1. resp' = Tail(resp) /\ Len(resp) # 1
      BY <1>1
  <2>2. /\ Len(resp') = Len(resp) - 1 /\ Len(resp') \in 1 .. Len(resp) - 1
        /\ resp'[Len(resp')] = resp[Len(resp)]
      BY <1>3, <2>1
  <2>3. resp' # <<>>
      BY <2>2
  <2>4. Refused(resp[Len(resp)]) => Refused(resp[Len(resp)])'
      BY <1>1, <2>2 DEF Refused
  <2>5. pos' = pos
      BY <1>1
  <2>6. QED
      BY <1>4, <1>5, <2>3, <2>4, <2>5 DEF Answers
<1>11. Accepted'
  <2> SUFFICES ASSUME step' = "check", status' = "OK" PROVE Made = pos - 1
      BY <1>1, <1>4, <1>5 DEF Accepted
  <2>1. ~leaves /\ Len(resp) = 1
      BY <1>1
  <2>2. QED
      BY <1>3, <1>4, <2>1
<1>12. QED
    BY <1>6, <1>7, <1>8, <1>9, <1>10, <1>11 DEF RddiInductive
\* Every command the parser knows.
LEMMA ParseStep ==
    ASSUME RddiInductive, Parse
    PROVE  RddiInductive'
<1> DEFINE r == Head(resp)
<1>1. r.status \in ProbeStatus \cup {"ERROR"} /\ step = "parse"
  <2> DEFINE R == [id : Ids \cup LeadIds, status : ProbeStatus \cup {"ERROR"}, n : Nat, made : Seq(Nat)]
  <2>1. step = "parse"
      BY DEF Parse, ParsePlain, ParseTransferConfigure, ParseReporting, ParseWriteABORT,
             ParseTransfer, ParseJtagSequence, ParsePins
  <2>2. resp \in Seq(R) /\ resp # <<>>
      BY <2>1 DEF RddiInductive, ControlTypeOK, Answers
  <2>3. r \in R
    <3> HIDE DEF R
    <3>1. QED
        BY <2>2
  <2>4. QED
      BY <2>1, <2>3
<1>2. status \in ProbeStatus \cup {"ERROR", "invalid"}
    BY DEF RddiInductive, ControlTypeOK
<1>3. CASE ParsePlain
  <2>1. Parsed(FALSE) /\ status' = status /\ r.id \in Plain
      BY <1>3 DEF ParsePlain
  <2>2. ~Refused(r)
      BY <2>1 DEF Refused, Plain, Counting
  <2>3. QED
      BY <1>1, <1>2, <2>1, <2>2, ParsedStep
<1>4. CASE ParseTransferConfigure
  <2>1. Parsed(FALSE) /\ status' = "OK" /\ r.id = "TransferConfigure"
      BY <1>4 DEF ParseTransferConfigure
  <2>2. ~Refused(r) /\ "OK" \in ProbeStatus
      BY <2>1 DEF Refused, Counting, ProbeStatus
  <2>3. QED
      BY <1>1, <2>1, <2>2, ParsedStep
<1>5. CASE ParseReporting
  <2>1. Parsed(FALSE) /\ status' \in {"OK", "ERROR"} /\ r.id \in Reporting
      BY <1>5 DEF ParseReporting
  <2>2. ~Refused(r) /\ "OK" \in ProbeStatus
      BY <2>1 DEF Refused, Reporting, Counting, ProbeStatus
  <2>3. QED
      BY <1>1, <2>1, <2>2, ParsedStep
<1>6. CASE ParseWriteABORT
  <2>1. /\ Parsed(r.status # "OK") /\ r.id = "WriteABORT"
        /\ status' = IF r.status = "OK" THEN "OK" ELSE "FAULT"
      BY <1>6 DEF ParseWriteABORT
  <2>2. Refused(r) => r.status # "OK"
      BY <2>1 DEF Refused, Counting
  <2>3. status' \in ProbeStatus /\ (r.status # "OK" => status' # "OK")
      BY <2>1 DEF ProbeStatus
  <2>4. (r.status # "OK") \in BOOLEAN
      OBVIOUS
  <2>5. QED
      BY <1>1, <2>1, <2>2, <2>3, <2>4, ParsedStep
<1>7. CASE ParseTransfer
  <2> DEFINE leaves == r.n # page.count
                       \/ ~(r.status = "OK" \/ (r.id = "TransferBlock" /\ r.status = "FAULT"))
  <2>1. /\ Parsed(leaves) /\ r.id \in Counting
        /\ status' = IF r.n # page.count THEN "FAULT" ELSE r.status
      BY <1>7 DEF ParseTransfer
  <2>2. Refused(r) => leaves
      BY <2>1 DEF Refused, Counting
  <2>3. /\ status' \in ProbeStatus \cup {"ERROR", "invalid"}
        /\ leaves => status' # "OK"
      BY <1>1, <2>1 DEF ProbeStatus
  <2>4. leaves \in BOOLEAN
      OBVIOUS
  <2> HIDE DEF leaves
  <2>5. QED
      BY <1>1, <2>1, <2>2, <2>3, <2>4, ParsedStep
<1>8. CASE ParseJtagSequence
  <2> DEFINE leaves == ~(r.status = "OK" /\ Len(DataOf(r)) = page.count)
  <2>1. /\ Parsed(leaves) /\ r.id = "JTAG_Sequence"
        /\ status' = IF leaves THEN "FAULT" ELSE "OK"
      BY <1>8 DEF ParseJtagSequence
  <2>2. ~Refused(r)
      BY <2>1 DEF Refused, Counting
  <2>3. leaves \in BOOLEAN
      OBVIOUS
  <2> HIDE DEF leaves
  <2>4. status' \in ProbeStatus /\ (leaves => status' # "OK")
      BY <2>1 DEF ProbeStatus
  <2>5. QED
      BY <1>1, <2>1, <2>2, <2>3, <2>4, ParsedStep
<1>9. CASE ParsePins
  <2>1. Parsed(FALSE) /\ status' = "OK" /\ r.id = "SWJ_Pins"
      BY <1>9 DEF ParsePins
  <2>2. ~Refused(r) /\ "OK" \in ProbeStatus
      BY <2>1 DEF Refused, Counting, ProbeStatus
  <2>3. QED
      BY <1>1, <2>1, <2>2, ParsedStep
<1>10. QED
    BY <1>3, <1>4, <1>5, <1>6, <1>7, <1>8, <1>9 DEF Parse

-----------------------------------------------------------------------------
(* The library after a response.                                           *)

\* The devices counted are a number of bits.
LEMMA DevicesNumFacts == DevicesNum \in Nat
<1> DEFINE low == 0 .. WordBits - 1
           all == (1 .. TdoWords) \X low
<1>1. WordBits - 1 \in Int /\ TdoWords \in Int /\ 0 \in Int /\ 1 \in Int
    BY RddiAssumption DEF RddiAssumption
<1>2. IsFiniteSet(low) /\ IsFiniteSet(1 .. TdoWords)
    BY <1>1, FS_Interval
<1> HIDE DEF low
<1>3. IsFiniteSet(all)
    BY <1>2, FS_Product
<1>4. Bits \subseteq all
    BY DEF Bits, low
<1> HIDE DEF all
<1>5. IsFiniteSet(Bits)
    BY <1>3, <1>4, FS_Subset
<1>6. Cardinality(Bits) \in Nat
    BY <1>5, FS_CardinalityType
<1>7. QED
    BY <1>6 DEF DevicesNum

\* What is made of a response: a return, or the next request.
LEMMA CheckStep ==
    ASSUME RddiInductive, Check
    PROVE  RddiInductive'
<1>1. /\ devices \in Nat /\ Total \in Nat /\ pos \in Int /\ result \in Results
      /\ step = "check" => Made =< pos - 1 /\ (status = "OK" => Made = pos - 1)
    BY TotalFacts DEF RddiInductive, ControlTypeOK, Accepted
<1>2. step = "check" /\ result = "pending"
  <2>1. step = "check"
      BY DEF Check, BatchFails, NextBatch, LastBatch, AllReturns, ChunkChecked, IdcodeRead,
             SwdDetected, SwdNotDetected, ScanFails, DevicesCounted, IdcodesChecked, ChainConfigured
  <2>2. QED
      BY <2>1 DEF RddiInductive, Placed
<1>3. {"ok", "internal", "sticky"} \subseteq Results \ {"pending"}
    BY DEF Results
<1>4. CASE BatchFails \/ LastBatch \/ AllReturns \/ SwdNotDetected \/ ScanFails
  <2>1. PICK r \in {"ok", "internal", "sticky"} : Return(r)
      BY <1>4 DEF BatchFails, LastBatch, AllReturns, SwdNotDetected, ScanFails
  <2>2. devices' = devices
      BY <1>4 DEF BatchFails, LastBatch, AllReturns, SwdNotDetected, ScanFails
  <2>3. QED
      BY <1>1, <1>3, <2>1, <2>2, ReturnStep
<1>5. CASE SwdDetected \/ ChainConfigured
  <2>1. Return("ok") /\ devices' \in Nat
      BY <1>1, <1>5 DEF SwdDetected, ChainConfigured
  <2>2. QED
      BY <1>3, <2>1, ReturnStep
<1>6. CASE NextBatch
  <2>1. /\ call.fn = "RegAccessBlock" /\ pos =< Total /\ StartBatch /\ status = "OK"
        /\ step' = "build"
        /\ UNCHANGED <<call, phase, devices, result, page, resp, status, executed>>
      BY <1>6 DEF NextBatch, Answered, detectVars, parseVars, probeVars
  <2>2. QED
      BY <1>1, <1>2, <2>1, StartStep
<1>7. CASE ChunkChecked
  <2>1. CASE status # "OK"
      BY <1>1, <1>3, <1>7, <2>1, ReturnStep DEF ChunkChecked
  <2>2. CASE status = "OK"
    <3>1. /\ call.fn = "RegWriteRepeat" /\ step' = "build" /\ devices' \in Nat
          /\ UNCHANGED <<buildVars, phase, result, page, parseVars, probeVars>>
        BY <1>1, <1>7, <2>2 DEF ChunkChecked
    <3>2. QED
        BY <1>2, <2>2, <3>1, BackStep DEF Singles, Orders
  <2>3. QED
      BY <2>1, <2>2
<1>8. CASE IdcodeRead
  <2>1. /\ call.fn = "DetectSwd" /\ status = "OK" /\ pos =< Total /\ step' = "build"
        /\ devices' \in Nat
        /\ UNCHANGED <<buildVars, phase, result, page, parseVars, probeVars>>
      BY <1>1, <1>8 DEF IdcodeRead, detectVars
  <2>2. QED
      BY <1>2, <2>1, BackStep DEF Singles, Orders
<1>9. CASE DevicesCounted
  <2>1. devices' \in Nat
      BY <1>9, DevicesNumFacts DEF DevicesCounted
  <2>2. CASE DevicesNum = 0
      BY <1>3, <1>9, <2>1, <2>2, ReturnStep DEF DevicesCounted
  <2>3. CASE DevicesNum # 0
    <3>1. /\ call.fn = "DetectJtag" /\ phase = 1 /\ status = "OK" /\ step' = "build"
          /\ UNCHANGED <<buildVars, phase, result, page, parseVars, probeVars>>
        BY <1>9, <2>3 DEF DevicesCounted
    <3>2. QED
        BY <1>2, <2>1, <3>1, BackStep DEF Singles, Orders
  <2>4. QED
      BY <2>2, <2>3
<1>10. CASE IdcodesChecked
  <2>1. call.fn = "DetectJtag" /\ phase = 2 /\ devices' \in Nat
      BY <1>1, <1>10 DEF IdcodesChecked
  <2>2. CASE status = "OK" /\ known
    <3>1. step' = "build" /\ UNCHANGED <<buildVars, phase, result, page, parseVars, probeVars>>
        BY <1>10, <2>2 DEF IdcodesChecked
    <3>2. QED
        BY <1>2, <2>1, <2>2, <3>1, BackStep DEF Singles, Orders
  <2>3. CASE ~(status = "OK" /\ known)
      BY <1>3, <1>10, <2>1, <2>3, ReturnStep DEF IdcodesChecked
  <2>4. QED
      BY <2>2, <2>3
<1>11. QED
    BY <1>4, <1>5, <1>6, <1>7, <1>8, <1>9, <1>10 DEF Check

-----------------------------------------------------------------------------
(* The invariant and the refinement.                                       *)

\* The invariant holds before the first call.
LEMMA RddiInductiveInit == RddiInit => RddiInductive
<1> SUFFICES ASSUME RddiInit PROVE RddiInductive
    OBVIOUS
<1> USE DEF RddiInit
<1>1. Total = 0 /\ <<>> \in Seq(Nat)
    BY FollowBase, 0 \in Nat DEF Total, NoCall
<1>2. page \in [lead : Seq(LeadIds), config : Nat, id : Ids, xs : Seq(Nat), n : Nat, count : Nat]
    BY LeadFacts DEF NoPage, Ids
<1>3. resp \in Seq([id : Ids \cup LeadIds, status : ProbeStatus \cup {"ERROR"}, n : Nat,
                    made : Seq(Nat)])
    BY EmptySeq, Zenon
<1>4. ControlTypeOK
    BY <1>1, <1>2, <1>3 DEF ControlTypeOK, Results
<1>5. Follow(executed, 0)
    BY DEF Follow
<1>6. Placed /\ Built /\ Sent /\ Answers /\ Accepted
    BY DEF Placed, Built, Sent, Answers, Accepted
<1>7. QED
    BY <1>4, <1>5, <1>6 DEF RddiInductive

\* A step of any part keeps it.
LEMMA RddiInductiveStep == RddiInductive /\ [RddiNext]_rddiVars => RddiInductive'
<1> SUFFICES ASSUME RddiInductive, [RddiNext]_rddiVars PROVE RddiInductive'
    OBVIOUS
<1>1. CASE Build
  <2>1. CASE NothingToRepeat
    <3>1. Return("ok") /\ devices' = devices
        BY <2>1 DEF NothingToRepeat
    <3>2. "ok" \in Results \ {"pending"} /\ devices \in Nat
        BY DEF Results, RddiInductive, ControlTypeOK
    <3>3. QED
        BY <3>1, <3>2, ReturnStep
  <2>2. QED
      BY <1>1, <2>1, AddTransferStep, SkipRetryStep, SendBatchStep, SendAllStep, SendChunkStep,
         SendIdcodeStep, SendScanStep DEF Build
<1>2. CASE \E r \in Requests : Call(r)
    BY <1>2, CallStep
<1>3. CASE ConfigurePort \/ UNCHANGED rddiVars
  <2>1. UNCHANGED <<call, pos, setup, batch, reads, phase, devices, result, step, page, resp,
                    status, executed>>
      BY <1>3 DEF ConfigurePort, rddiVars, buildVars, detectVars, resultVars, parseVars, probeVars
  <2>2. Total' = Total
      BY <2>1 DEF Total
  <2>3. ControlTypeOK' /\ Placed'
      BY <2>1, <2>2 DEF RddiInductive, ControlTypeOK, Placed
  <2>4. Follow(executed, 0)' /\ Built' /\ Sent'
      BY <2>1 DEF RddiInductive, Follow, Built, Sent, Made, Own
  <2>5. Answers' /\ Accepted'
      BY <2>1 DEF RddiInductive, Answers, Accepted, Refused, Made
  <2>6. QED
      BY <2>3, <2>4, <2>5 DEF RddiInductive
<1>4. QED
    BY <1>1, <1>2, <1>3, ProbeStep, ParseStep, CheckStep DEF RddiNext, Working

\* Where a call is, what waits to be made and what a response will be taken
\* for hold together in every state.
THEOREM RddiInductiveCorrect == RddiSpec => []RddiInductive
<1>1. QED
    BY RddiInductiveInit, RddiInductiveStep, PTL DEF RddiSpec

\* The target makes the transfers of a call in their order, once each.
THEOREM InOrderCorrect == RddiSpec => []InOrder
<1>1. RddiInductive => InOrder
  <2> SUFFICES ASSUME RddiInductive PROVE executed = Upto(Len(executed))
      BY DEF InOrder
  <2>1. executed \in Seq(Nat) /\ Len(executed) \in Nat /\ Follow(executed, 0)
      BY DEF RddiInductive, ControlTypeOK
  <2>2. /\ Upto(Len(executed)) \in Seq(Nat) /\ Len(Upto(Len(executed))) = Len(executed)
        /\ Follow(Upto(Len(executed)), 0)
      BY <2>1, FollowBase
  <2>3. \A i \in 1 .. Len(executed) : executed[i] = Upto(Len(executed))[i]
      BY <2>1, <2>2 DEF Follow
  <2>4. QED
      BY <2>1, <2>2, <2>3, SeqEqual
<1>2. QED
    BY <1>1, RddiInductiveCorrect, PTL
\* What the library does before a request leaves the call and the target
\* alone, and only an empty rest of a repeated write ends a call.
LEMMA BuildFrame ==
    ASSUME RddiInductive, Build
    PROVE  UNCHANGED <<call, executed>> /\ (result' # result => NothingToRepeat)
<1>1. CASE AddTransfer \/ SkipRetry
    BY <1>1 DEF AddTransfer, SkipRetry, resultVars, probeVars
<1>2. CASE SendBatch
    BY <1>2 DEF SendBatch, Send, probeVars
<1>3. CASE SendAll
    BY <1>3 DEF SendAll, Send, probeVars
<1>4. CASE SendChunk
    BY <1>4 DEF SendChunk, Send, probeVars
<1>5. CASE SendIdcode
    BY <1>5 DEF SendIdcode, Send, probeVars
<1>6. CASE SendScan
  <2>1. PICK lead \in Seq(LeadIds), count \in Nat :
            Send(lead, 0, "JTAG_Sequence", <<>>, count)
      BY <1>6, ScanSends
  <2>2. QED
      BY <2>1 DEF Send, probeVars
<1>7. CASE NothingToRepeat
    BY <1>7 DEF NothingToRepeat, Return, buildVars, probeVars
<1>8. QED
    BY <1>1, <1>2, <1>3, <1>4, <1>5, <1>6, <1>7 DEF Build

\* Nor does what it makes of a response touch them.
LEMMA CheckFrame ==
    ASSUME Check
    PROVE  UNCHANGED <<call, executed>>
<1> USE DEF Return, buildVars, probeVars
<1>1. CASE BatchFails \/ LastBatch \/ AllReturns \/ SwdDetected \/ SwdNotDetected
    BY <1>1 DEF BatchFails, LastBatch, AllReturns, SwdDetected, SwdNotDetected
<1>2. CASE NextBatch \/ ChunkChecked \/ IdcodeRead
    BY <1>2 DEF NextBatch, ChunkChecked, IdcodeRead
<1>3. CASE ScanFails \/ DevicesCounted \/ IdcodesChecked \/ ChainConfigured
    BY <1>3 DEF ScanFails, DevicesCounted, IdcodesChecked, ChainConfigured
<1>4. QED
    BY <1>1, <1>2, <1>3 DEF Check

\* A call that returns with success has had all its transfers made.
LEMMA SuccessIsWhole ==
    ASSUME RddiInductive, Build \/ Check, result' # result
    PROVE  /\ result = "pending"
           /\ result' \in {"ok", "sticky", "internal"}
           /\ result' = "ok" => Len(executed) = Total
           /\ UNCHANGED <<call, executed>>
<1>1. /\ pos \in 1 .. Total + 1 /\ Total \in Nat /\ Len(executed) \in Nat
      /\ call.fn = "DetectJtag" => Total = 0
      /\ step \in {"build", "check"} => result = "pending"
    BY TotalFacts DEF RddiInductive, ControlTypeOK, Placed
<1>2. CASE Build
  <2>1. NothingToRepeat
      BY <1>2, BuildFrame
  <2>2. /\ step = "build" /\ call.fn = "RegWriteRepeat" /\ pos > Total /\ result' = "ok"
        /\ UNCHANGED <<call, executed>>
      BY <2>1 DEF NothingToRepeat, Return, buildVars, probeVars
  <2>3. Len(executed) = pos - 1
      BY <2>2 DEF RddiInductive, Built, Made
  <2>4. QED
      BY <1>1, <2>2, <2>3
<1>3. CASE Check
  <2>1. PICK r \in {"ok", "sticky", "internal"} : Return(r)
      BY <1>3 DEF Check, BatchFails, NextBatch, LastBatch, AllReturns, ChunkChecked, IdcodeRead,
                  SwdDetected, SwdNotDetected, ScanFails, DevicesCounted, IdcodesChecked,
                  ChainConfigured, detectVars
  <2>2. result' = r /\ UNCHANGED <<call, executed>>
      BY <2>1 DEF Return, buildVars, probeVars
  <2>3. step = "check"
      BY <1>3 DEF Check, BatchFails, NextBatch, LastBatch, AllReturns, ChunkChecked, IdcodeRead,
                  SwdDetected, SwdNotDetected, ScanFails, DevicesCounted, IdcodesChecked, ChainConfigured
  <2>4. Len(executed) =< pos - 1 /\ (status = "OK" => Len(executed) = pos - 1)
      BY <2>3 DEF RddiInductive, Accepted, Made
  <2>5. ASSUME r = "ok" PROVE Len(executed) = Total
    <3>1. call.fn = "DetectJtag" \/ (status = "OK" /\ pos > Total)
      <4>1. CASE ChunkChecked \/ NextBatch \/ IdcodeRead
          BY <2>1, <2>3, <2>5, <4>1 DEF ChunkChecked, NextBatch, IdcodeRead, Return
      <4>2. CASE AllReturns
        <5>1. pos = Total + 1
            BY <4>2 DEF AllReturns, RddiInductive, Placed
        <5>2. status = "OK"
            BY <2>2, <2>5, <4>2 DEF AllReturns, Answered, Return
        <5>3. QED
            BY <1>1, <5>1, <5>2
      <4>3. CASE BatchFails \/ LastBatch \/ SwdDetected \/ SwdNotDetected
          BY <2>2, <2>5, <4>3 DEF BatchFails, LastBatch, SwdDetected, SwdNotDetected, Answered, Return
      <4>4. CASE ScanFails \/ DevicesCounted \/ IdcodesChecked \/ ChainConfigured
          BY <4>4 DEF ScanFails, DevicesCounted, IdcodesChecked, ChainConfigured
      <4>5. QED
          BY <1>3, <4>1, <4>2, <4>3, <4>4 DEF Check
    <3>2. CASE call.fn = "DetectJtag"
        BY <1>1, <2>4, <3>2
    <3>3. CASE status = "OK" /\ pos > Total
        BY <1>1, <2>4, <3>3
    <3>4. QED
        BY <3>1, <3>2, <3>3
  <2>6. QED
      BY <1>1, <2>2, <2>3, <2>5
<1>4. QED
    BY <1>2, <1>3

\* The probe only adds to what has been made.
LEMMA ProbeMakes ==
    ASSUME RddiInductive, RddiInductive', Probe
    PROVE  /\ Len(executed') \in Len(executed) .. Total
           /\ result = "pending"
           /\ UNCHANGED <<call, result>>
<1>1. PICK k \in 0 .. page.n, s \in ProbeStatus, lead \in {"OK", "ERROR"} : ProbeAnswers(k, s, lead)
    BY DEF Probe
<1> DEFINE made == SubSeq(page.xs, 1, k)
           cfg == IF page.config = 0 THEN <<>> ELSE <<page.config>>
<1>2. /\ step = "probe" /\ step' = "parse" /\ executed' = (executed \o cfg) \o made
      /\ UNCHANGED <<call, pos, result>>
    BY <1>1 DEF ProbeAnswers, buildVars, resultVars
<1>3. page.config \in Nat /\ page.xs \in Seq(Nat) /\ executed \in Seq(Nat) /\ page.n \in 0 .. Len(page.xs)
    BY <1>2 DEF RddiInductive, ControlTypeOK, Sent
<1>4. cfg \in Seq(Nat)
    BY <1>3
<1>5. made \in Seq(Nat)
  <2>1. \A i \in 1 .. k : page.xs[i] \in Nat
      BY <1>3
  <2>2. QED
      BY <1>3, <2>1, SubSeqProperties
<1> HIDE DEF cfg, made
<1>6. Len(executed') >= Len(executed)
  <2>1. executed \o cfg \in Seq(Nat) /\ Len(executed \o cfg) = Len(executed) + Len(cfg)
      BY <1>3, <1>4, ConcatProperties
  <2>2. Len(executed') = Len(executed \o cfg) + Len(made)
      BY <1>2, <1>5, <2>1, ConcatProperties
  <2>3. Len(cfg) \in Nat /\ Len(made) \in Nat /\ Len(executed) \in Nat
      BY <1>3, <1>4, <1>5
  <2>4. QED
      BY <2>1, <2>2, <2>3
<1>7. Len(executed') =< pos - 1
  <2>1. Made' =< pos' - 1
      BY <1>2 DEF RddiInductive, Answers
  <2>2. QED
      BY <1>2, <2>1 DEF Made
<1>8. pos \in 1 .. Total + 1 /\ Total \in Nat /\ Len(executed) \in Nat /\ Len(executed') \in Nat
  <2>1. executed' \in Seq(Nat)
      BY DEF RddiInductive, ControlTypeOK
  <2>2. Len(executed') \in Nat /\ Len(executed) \in Nat
      BY <1>3, <2>1
  <2>3. pos \in 1 .. Total + 1 /\ Total \in Nat
      BY TotalFacts DEF RddiInductive, ControlTypeOK
  <2>4. QED
      BY <2>2, <2>3
<1>9. result = "pending"
    BY <1>2 DEF RddiInductive, Placed
<1>10. QED
    BY <1>2, <1>6, <1>7, <1>8, <1>9

\* Every step is one of a register sequence, or none.
LEMMA RegSequenceStep ==
    ASSUME RddiInductive, RddiInductive', [RddiNext]_rddiVars
    PROVE  [RS!SeqNext]_RS!seqVars
<1> USE DEF RS!SeqNext, RS!seqVars
<1>1. ASSUME UNCHANGED <<call, executed, result>> PROVE UNCHANGED RS!seqVars
    BY <1>1 DEF Total
<1>2. CASE Build \/ Check
  <2>1. CASE result' = result
    <3>1. UNCHANGED <<call, executed>>
        BY <1>2, BuildFrame, CheckFrame
    <3>2. QED
        BY <1>1, <2>1, <3>1
  <2>2. CASE result' # result
    <3>1. /\ result = "pending" /\ result' \in {"ok", "sticky", "internal"}
          /\ result' = "ok" => Len(executed) = Total
          /\ UNCHANGED <<call, executed>>
        BY <1>2, <2>2, SuccessIsWhole
    <3>2. Total' = Total /\ Len(executed)' = Len(executed)
        BY <3>1 DEF Total
    <3>3. CASE result' = "ok"
        BY <3>1, <3>2, <3>3 DEF RS!Succeed
    <3>4. CASE result' # "ok"
        BY <3>1, <3>2, <3>4 DEF RS!Fail, RS!Errors
    <3>5. QED
        BY <3>3, <3>4
  <2>3. QED
      BY <2>1, <2>2
<1>3. CASE Probe
  <2>1. /\ Len(executed') \in Len(executed) .. Total /\ result = "pending"
        /\ UNCHANGED <<call, result>>
      BY <1>3, ProbeMakes
  <2>2. Total' = Total /\ Len(executed) \in Nat /\ Total \in Nat
      BY <2>1, TotalFacts DEF Total, RddiInductive, ControlTypeOK
  <2>3. CASE Len(executed') = Len(executed)
      BY <2>1, <2>2, <2>3
  <2>4. CASE Len(executed') # Len(executed)
    <3>1. Len(executed') \in (Len(executed) + 1) .. Total
        BY <2>1, <2>2, <2>4
    <3>2. QED
        BY <2>1, <2>2, <3>1 DEF RS!Make
  <2>5. QED
      BY <2>3, <2>4
<1>4. CASE Parse
  <2>1. UNCHANGED <<call, executed, result>>
      BY <1>4 DEF Parse, ParsePlain, ParseTransferConfigure, ParseReporting, ParseWriteABORT,
         ParseTransfer, ParseJtagSequence, ParsePins, Parsed, buildVars, resultVars, probeVars
  <2>2. QED
      BY <1>1, <2>1
<1>5. CASE \E r \in Requests : Call(r)
  <2>1. PICK r \in Requests : Call(r)
      BY <1>5
  <2>2. step = "idle" /\ executed' = <<>> /\ result' \in {"pending", "failed"}
      BY <2>1 DEF Call
  <2>3. result # "pending"
      BY <2>2 DEF RddiInductive, Placed
  <2>4. Total' \in Nat
    <3>1. call' \in Requests \cup {NoCall}
        BY DEF RddiInductive, ControlTypeOK
    <3>2. QED
        BY <3>1, CallFacts DEF Total
  <2>5. Len(executed)' = 0
      BY <2>2
  <2>6. QED
      BY <2>2, <2>3, <2>4, <2>5 DEF RS!Ask
<1>6. CASE ConfigurePort \/ UNCHANGED rddiVars
  <2>1. UNCHANGED <<call, executed, result>>
      BY <1>6 DEF ConfigurePort, rddiVars, buildVars, resultVars, probeVars
  <2>2. QED
      BY <1>1, <2>1
<1>7. QED
    BY <1>2, <1>3, <1>4, <1>5, <1>6 DEF RddiNext, Working

\* However a call is cut into requests, and whatever the probe answers, it
\* succeeds only when the target has made all its transfers, each once.
THEOREM RegSequenceImplemented == RddiSpec => ImplementsRegSequence
<1>1. RddiInit => RS!SeqInit
    BY DEF RddiInit, RS!SeqInit, Total, NoCall
<1>2. RddiInductive /\ RddiInductive' /\ [RddiNext]_rddiVars => [RS!SeqNext]_RS!seqVars
    BY RegSequenceStep
<1>3. QED
    BY <1>1, <1>2, RddiInductiveCorrect, PTL DEF RddiSpec, ImplementsRegSequence, RS!SeqSpec
-----------------------------------------------------------------------------
(* The parser's pointer.                                                     *)

\* Every command of the response but the last is one the parser steps over.
ParserInv ==
    step = "parse" =>
        /\ aligned
        /\ \A j \in 1 .. Len(resp) - 1 : resp[j].id \in LeadIds

\* What holds of all of s, and of the one element of t, holds of s \o t \o u
\* without its last element.
LEMMA AllButLast ==
    ASSUME NEW R, NEW G, NEW s \in Seq(R), NEW t \in Seq(R), NEW u \in Seq(R),
           \A j \in 1 .. Len(s) : s[j] \in G,
           \A j \in 1 .. Len(t) : t[j] \in G,
           Len(u) \in {0, 1}
    PROVE  \A j \in 1 .. Len((s \o t) \o u) - 1 : ((s \o t) \o u)[j] \in G
<1>1. Len(s) \in Nat /\ Len(t) \in Nat /\ Len(u) \in Nat
    OBVIOUS
<1>2. s \o t \in Seq(R) /\ Len(s \o t) = Len(s) + Len(t)
    BY ConcatProperties
<1>3. Len((s \o t) \o u) = Len(s \o t) + Len(u)
    BY <1>2, ConcatProperties
<1>4. \A j \in 1 .. Len(s) + Len(t) : (s \o t)[j] = IF j =< Len(s) THEN s[j] ELSE t[j - Len(s)]
    BY ConcatProperties
<1>5. \A j \in 1 .. Len(s \o t) + Len(u) :
          ((s \o t) \o u)[j] = IF j =< Len(s \o t) THEN (s \o t)[j] ELSE u[j - Len(s \o t)]
    BY <1>2, ConcatProperties
<1>6. ASSUME NEW j \in 1 .. Len((s \o t) \o u) - 1 PROVE ((s \o t) \o u)[j] \in G
  <2>1. j \in 1 .. Len(s) + Len(t) /\ j \in 1 .. Len(s \o t) + Len(u) /\ j =< Len(s \o t)
    <3> DEFINE a == Len(s)
               b == Len(t)
               c == Len(u)
    <3>1. a \in Nat /\ b \in Nat /\ c \in {0, 1} /\ j \in 1 .. a + b + c - 1
        BY <1>1, <1>2, <1>3
    <3> HIDE DEF a, b, c
    <3>2. j \in 1 .. a + b /\ j \in 1 .. a + b + c /\ j =< a + b
        BY <3>1
    <3>3. QED
        BY <1>2, <3>2 DEF a, b, c
  <2>2. ((s \o t) \o u)[j] = (s \o t)[j]
      BY <1>5, <2>1
  <2>3. CASE j =< Len(s)
    <3>1. j \in 1 .. Len(s)
        BY <1>1, <2>1, <2>3
    <3>2. QED
        BY <1>4, <2>1, <2>2, <2>3, <3>1
  <2>4. CASE ~(j =< Len(s))
    <3>1. j - Len(s) \in 1 .. Len(t)
        BY <1>1, <2>1, <2>4
    <3>2. QED
        BY <1>4, <2>1, <2>2, <2>4, <3>1
  <2>5. QED
      BY <2>3, <2>4
<1>7. QED
    BY <1>6

LEMMA ParserProbe ==
    ASSUME RddiInductive, Probe
    PROVE  ParserInv'
<1>1. PICK k \in 0 .. page.n, s \in ProbeStatus, lead \in {"OK", "ERROR"} : ProbeAnswers(k, s, lead)
    BY DEF Probe
<1> DEFINE first == [j \in DOMAIN page.lead |-> Response(page.lead[j], lead, 0, <<>>)]
           c == Response("TransferConfigure", "OK", 0, <<>>)
           l == Response(page.id, s, IF page.id \in Counting THEN k ELSE page.count,
                         SubSeq(page.xs, 1, k))
           config == IF page.config = 0 THEN <<>> ELSE <<c>>
           last == IF page.id = "none" THEN <<>> ELSE <<l>>
           G == {first[j] : j \in DOMAIN first} \cup {c}
           R == G \cup {l}
<1>2. resp' = (first \o config) \o last /\ aligned'
    BY <1>1 DEF ProbeAnswers
<1>3. page.lead \in Seq(LeadIds)
    BY DEF RddiInductive, ControlTypeOK
<1>4. ASSUME NEW r \in G PROVE r.id \in LeadIds
  <2>1. CASE r = c
      BY <2>1 DEF Response, LeadIds
  <2>2. CASE r # c
    <3>1. PICK j \in DOMAIN page.lead : r = Response(page.lead[j], lead, 0, <<>>)
        BY <2>2
    <3>2. page.lead[j] \in LeadIds
        BY <1>3
    <3>3. QED
        BY <3>1, <3>2 DEF Response
  <2>3. QED
      BY <2>1, <2>2
<1>5. first \in Seq(G) /\ \A j \in 1 .. Len(first) : first[j] \in G
  <2>1. DOMAIN first = 1 .. Len(page.lead) /\ Len(page.lead) \in Nat
      BY <1>3
  <2>2. \A j \in DOMAIN first : first[j] \in G
      OBVIOUS
  <2> HIDE DEF G
  <2>3. first \in [1 .. Len(page.lead) -> G]
      BY <2>1, <2>2
  <2> HIDE DEF first
  <2>4. QED
      BY <2>1, <2>3
<1>6. c \in G /\ l \in R
    OBVIOUS
<1> HIDE DEF first, c, l, G
<1>7. config \in Seq(G) /\ (\A j \in 1 .. Len(config) : config[j] \in G)
  <2>1. <<>> \in Seq(G)
      BY EmptySeq
  <2>2. <<c>> \in Seq(G) /\ Len(<<c>>) = 1 /\ <<c>>[1] = c
      BY <1>6
  <2>3. CASE page.config = 0
      BY <2>1, <2>3
  <2>4. CASE page.config # 0
    <3>1. config = <<c>>
        BY <2>4
    <3>2. QED
        BY <1>6, <2>2, <3>1
  <2>5. QED
      BY <2>3, <2>4
<1>8. G \subseteq R
    OBVIOUS
<1> HIDE DEF R
<1>9. first \in Seq(R) /\ config \in Seq(R)
    BY <1>5, <1>7, <1>8
<1>10. last \in Seq(R) /\ Len(last) \in {0, 1}
  <2>1. <<>> \in Seq(R) /\ Len(<<>>) = 0
      BY EmptySeq
  <2>2. <<l>> \in Seq(R) /\ Len(<<l>>) = 1
      BY <1>6
  <2>3. last = <<>> \/ last = <<l>>
      OBVIOUS
  <2>4. CASE last = <<>>
      BY <2>1, <2>4, Zenon
  <2>5. CASE last = <<l>>
      BY <2>2, <2>5, Zenon
  <2>6. QED
      BY <2>3, <2>1, <2>4, <2>5
<1> HIDE DEF config, last
<1>11. \A j \in 1 .. Len((first \o config) \o last) - 1 : ((first \o config) \o last)[j] \in G
    BY <1>5, <1>7, <1>9, <1>10, AllButLast
<1>12. \A j \in 1 .. Len(resp') - 1 : resp'[j].id \in LeadIds
    BY <1>2, <1>4, <1>11
<1>13. QED
    BY <1>2, <1>12 DEF ParserInv

LEMMA ParserParse ==
    ASSUME RddiInductive, ParserInv, Parse
    PROVE  ParserInv'
<1>1. step = "parse" /\ resp # <<>> /\ Len(resp) \in Nat \ {0} /\ Head(resp) = resp[1]
  <2>1. step = "parse"
      BY DEF Parse, ParsePlain, ParseTransferConfigure, ParseReporting, ParseWriteABORT,
         ParseTransfer, ParseJtagSequence, ParsePins
  <2>2. resp # <<>> /\ Len(resp) \in Nat
      BY <2>1 DEF RddiInductive, ControlTypeOK, Answers
  <2>3. QED
      BY <2>1, <2>2 DEF RddiInductive, ControlTypeOK
<1>2. CASE Head(resp).id \notin LeadIds
  <2>1. Len(resp) = 1
    <3> SUFFICES ASSUME Len(resp) # 1 PROVE FALSE
        OBVIOUS
    <3>1. 1 \in 1 .. Len(resp) - 1
      <4> DEFINE L == Len(resp)
      <4>1. L \in Nat \ {0} /\ L # 1
          BY <1>1
      <4> HIDE DEF L
      <4>2. 1 \in 1 .. L - 1
          BY <4>1
      <4>3. QED
          BY <4>2 DEF L
    <3>2. resp[1].id \in LeadIds
        BY <1>1, <3>1 DEF ParserInv
    <3>3. QED
        BY <1>1, <1>2, <3>2
  <2>2. step' = "check"
      BY <2>1 DEF Parse, ParsePlain, ParseTransferConfigure, ParseReporting, ParseWriteABORT,
         ParseTransfer, ParseJtagSequence, ParsePins, Parsed
  <2>3. QED
      BY <2>2 DEF ParserInv
<1>3. CASE Head(resp).id \in LeadIds
  <2>1. Parsed(FALSE) /\ UNCHANGED aligned
      BY <1>3 DEF Parse, ParsePlain, ParseTransferConfigure, ParseReporting, ParseWriteABORT,
         ParseTransfer, ParseJtagSequence, ParsePins, LeadIds, Plain, Reporting, Counting
  <2>2. resp' = Tail(resp) /\ (step' = "parse" => Len(resp) # 1)
      BY <2>1 DEF Parsed
  <2>3. /\ Len(Tail(resp)) = Len(resp) - 1
        /\ \A j \in 1 .. Len(resp) - 1 : Tail(resp)[j] = resp[j + 1]
      BY <1>1 DEF RddiInductive, ControlTypeOK
  <2>4. \A j \in 1 .. Len(resp') - 1 : resp'[j].id \in LeadIds
    <3> SUFFICES ASSUME NEW j \in 1 .. Len(resp') - 1 PROVE resp'[j].id \in LeadIds
        OBVIOUS
    <3>1. j + 1 \in 1 .. Len(resp) - 1 /\ j \in 1 .. Len(resp) - 1
        BY <1>1, <2>2, <2>3
    <3>2. QED
        BY <1>1, <2>2, <2>3, <3>1 DEF ParserInv
  <2>5. QED
      BY <1>1, <2>1, <2>4 DEF ParserInv
<1>4. QED
    BY <1>2, <1>3

LEMMA ParserStep ==
    ASSUME RddiInductive, ParserInv, [RddiNext]_rddiVars
    PROVE  ParserInv'
<1>1. CASE Probe
    BY <1>1, ParserProbe
<1>2. CASE Parse
    BY <1>2, ParserParse
<1>3. CASE Build
  <2>1. SendScan => step' # "parse"
      BY ScanSends DEF Send
  <2>2. step' # "parse"
      BY <1>3, <2>1 DEF Build, AddTransfer, SkipRetry, SendBatch, SendAll, SendChunk,
         NothingToRepeat, SendIdcode, Send, Return
  <2>3. QED
      BY <2>2 DEF ParserInv
<1>4. CASE Check
  <2>1. step' # "parse"
      BY <1>4 DEF Check, BatchFails, NextBatch, LastBatch, AllReturns, ChunkChecked, IdcodeRead,
         SwdDetected, SwdNotDetected, ScanFails, DevicesCounted, IdcodesChecked,
         ChainConfigured, Return
  <2>2. QED
      BY <2>1 DEF ParserInv
<1>5. CASE \E r \in Requests : Call(r)
    BY <1>5 DEF Call, ParserInv
<1>6. CASE ConfigurePort \/ UNCHANGED rddiVars
    BY <1>6 DEF ConfigurePort, rddiVars, parseVars, ParserInv
<1>7. QED
    BY <1>1, <1>2, <1>3, <1>4, <1>5, <1>6 DEF RddiNext, Working

\* The parser of the proxy never takes the data of a response for a command, for
\* any call and any answer of the probe.
THEOREM ParserAlignedCorrect == RddiSpec => []ParserAligned
<1>1. RddiInit => ParserInv
    BY DEF RddiInit, ParserInv
<1>2. RddiInductive /\ ParserInv /\ [RddiNext]_rddiVars => ParserInv'
    BY ParserStep
<1>3. ParserInv => ParserAligned
    BY DEF ParserInv, ParserAligned
<1>4. QED
    BY <1>1, <1>2, <1>3, RddiInductiveCorrect, PTL DEF RddiSpec

-----------------------------------------------------------------------------
(* The list of ID codes.                                                     *)

\* The list is empty from the count of the devices to the end of the detection.
ListInv ==
    /\ IdListWhole
    /\ /\ result = "pending" /\ call.fn = "DetectJtag"
       /\ phase \in {2, 3} \/ (phase = 1 /\ step = "build")
       => idcodes = 0

LEMMA ListStep ==
    ASSUME RddiInductive, ListInv, [RddiNext]_rddiVars
    PROVE  ListInv'
<1> USE DEF ListInv, IdListWhole
<1>0. step = "idle" <=> result # "pending"
    BY DEF RddiInductive, Placed
<1>1. CASE Probe \/ Parse
    BY <1>1
    DEF Probe, ProbeAnswers, Parse, ParsePlain, ParseTransferConfigure, ParseReporting,
        ParseWriteABORT, ParseTransfer, ParseJtagSequence, ParsePins, Parsed, buildVars,
        detectVars, resultVars
<1>2. CASE Build
  <2>1. CASE SendScan
    <3>1. /\ step = "build" /\ call.fn = "DetectJtag" /\ phase' = phase + 1 /\ step' = "probe"
          /\ UNCHANGED <<call, result, devices, idcodes>>
        BY <2>1, ScanSends DEF SendScan, Send
    <3>2. phase \in {0, 1, 2}
        BY <3>1 DEF RddiInductive, Placed, ControlTypeOK
    <3>3. QED
        BY <1>0, <3>1, <3>2
  <2>2. CASE NothingToRepeat
      BY <2>2 DEF NothingToRepeat, Return, buildVars
  <2>3. CASE AddTransfer \/ SkipRetry \/ SendBatch \/ SendAll \/ SendChunk \/ SendIdcode
    <3>1. call.fn # "DetectJtag" /\ UNCHANGED <<call, result, devices, idcodes>>
        BY <2>3
        DEF AddTransfer, SkipRetry, SendBatch, SendAll, SendChunk, SendIdcode, Send, Singles,
            Orders, detectVars, resultVars
    <3>2. QED
        BY <3>1
  <2>4. QED
      BY <1>2, <2>1, <2>2, <2>3 DEF Build
<1>3. CASE Check
  <2>1. CASE BatchFails \/ NextBatch \/ LastBatch \/ AllReturns \/ ChunkChecked \/ IdcodeRead
        \/ SwdDetected \/ SwdNotDetected
      BY <2>1
      DEF BatchFails, NextBatch, LastBatch, AllReturns, ChunkChecked, IdcodeRead, SwdDetected,
          SwdNotDetected, Return, StartBatch, buildVars, detectVars, Singles, Orders
  <2>2. CASE ScanFails
      BY <2>2 DEF ScanFails, Return, buildVars
  <2>3. CASE DevicesCounted
      BY <2>3 DEF DevicesCounted, Return, buildVars
  <2>4. CASE IdcodesChecked \/ ChainConfigured
      BY <1>0, <2>4 DEF IdcodesChecked, ChainConfigured, Return, buildVars
  <2>5. QED
      BY <1>3, <2>1, <2>2, <2>3, <2>4 DEF Check
<1>4. CASE \E r \in Requests : Call(r)
    BY <1>4 DEF Call
<1>5. CASE ConfigurePort \/ UNCHANGED rddiVars
    BY <1>5 DEF ConfigurePort, rddiVars, buildVars, detectVars, resultVars
<1>6. QED
    BY <1>1, <1>2, <1>3, <1>4, <1>5 DEF RddiNext, Working

\* After a detection the list of ID codes is that of all its devices, or empty: it
\* never mixes two detections.
THEOREM IdListWholeCorrect == RddiSpec => []IdListWhole
<1>1. RddiInit => ListInv
    BY DEF RddiInit, ListInv, IdListWhole
<1>2. RddiInductive /\ ListInv /\ [RddiNext]_rddiVars => ListInv'
    BY ListStep
<1>3. ListInv => IdListWhole
    BY DEF ListInv
<1>4. QED
    BY <1>1, <1>2, <1>3, RddiInductiveCorrect, PTL DEF RddiSpec

-----------------------------------------------------------------------------
(* Progress.                                                               *)

\* What is left of a call: requests, each of which takes less than 16 steps, and
\* the steps of the one under way.  RegAccessBlock and the functions that send all at once
\* count the transfers behind i; the others have moved i, or the phase, before the request is
\* answered.
Looping == {"RegWriteRepeat", "DetectSwd", "DetectJtag"}
Rounds == (Total + 1 - pos) + (3 - phase) + (IF step # "build" /\ call.fn \in Looping THEN 1 ELSE 0)
Stage == CASE step = "build" -> 15
           [] step = "probe" -> 14
           [] step = "parse" -> 1 + Len(resp)
           [] step = "check" -> 1
Variant == IF step = "idle" THEN 0 ELSE 16 * Rounds + Stage

\* A response has at most eleven commands.
LengthInv ==
    /\ step = "probe" => Len(page.lead) =< 9
    /\ step = "parse" => Len(resp) =< 11

\* The longest of the commands that come first are those that set up the SWD line.
LEMMA LeadLengths ==
    /\ Len(<<>>) =< 9 /\ Len(<<"SWJ_Sequence">>) =< 9
    /\ Len(SwdLead) =< 9 /\ Len(JtagLead) =< 9 /\ Len(ConfigureLead) =< 9
<1>1. ASSUME NEW n \in Nat
      PROVE  /\ [k \in 1 .. n |-> "SWJ_Sequence"] \in Seq(LeadIds)
             /\ Len([k \in 1 .. n |-> "SWJ_Sequence"]) = n
    BY DEF LeadIds, Reporting
<1>2. /\ <<"Disconnect", "Connect", "SWJ_Clock", "TransferConfigure", "SWD_Configure">> \in Seq(LeadIds)
      /\ <<"Disconnect", "Connect", "SWJ_Clock", "TransferConfigure">> \in Seq(LeadIds)
      /\ <<"JTAG_Configure">> \in Seq(LeadIds)
    BY DEF LeadIds, Plain, Reporting
<1>3. /\ Len(<<"Disconnect", "Connect", "SWJ_Clock", "TransferConfigure", "SWD_Configure">>) = 5
      /\ Len(<<"Disconnect", "Connect", "SWJ_Clock", "TransferConfigure">>) = 4
      /\ Len(<<"JTAG_Configure">>) = 1
      /\ Len(<<>>) = 0 /\ Len(<<"SWJ_Sequence">>) = 1
    OBVIOUS
<1>4. Len(SwdLead) = 5 + 4
    BY <1>1, <1>2, <1>3, ConcatProperties DEF SwdLead
<1>5. Len(JtagLead) = 4 + 3
    BY <1>1, <1>2, <1>3, ConcatProperties DEF JtagLead
<1>6. Len(ConfigureLead) = 1 + 3
    BY <1>1, <1>2, <1>3, ConcatProperties DEF ConfigureLead
<1>7. QED
    BY <1>3, <1>4, <1>5, <1>6

\* One response for each command of the request.
LEMMA ResponseLength ==
    ASSUME RddiInductive, Probe
    PROVE  Len(resp') =< Len(page.lead) + 2
<1>1. PICK k \in 0 .. page.n, s \in ProbeStatus, lead \in {"OK", "ERROR"} : ProbeAnswers(k, s, lead)
    BY DEF Probe
<1> DEFINE A == [j \in DOMAIN page.lead |-> Response(page.lead[j], lead, 0, <<>>)]
           c == Response("TransferConfigure", "OK", 0, <<>>)
           l == Response(page.id, s, IF page.id \in Counting THEN k ELSE page.count,
                         SubSeq(page.xs, 1, k))
           B == IF page.config = 0 THEN <<>> ELSE <<c>>
           C == IF page.id = "none" THEN <<>> ELSE <<l>>
           R == {A[j] : j \in DOMAIN page.lead} \cup {c, l}
<1>2. resp' = (A \o B) \o C
    BY <1>1 DEF ProbeAnswers
<1>3. page.lead \in Seq(LeadIds)
    BY DEF RddiInductive, ControlTypeOK
<1>4. A \in Seq(R) /\ Len(A) = Len(page.lead)
  <2>1. DOMAIN page.lead = 1 .. Len(page.lead) /\ Len(page.lead) \in Nat
      BY <1>3
  <2>2. A \in [1 .. Len(page.lead) -> R]
      BY <2>1
  <2> HIDE DEF A, R
  <2>3. QED
      BY <2>1, <2>2
<1>5. c \in R /\ l \in R
    OBVIOUS
<1> HIDE DEF A, c, l, R
<1>6. B \in Seq(R) /\ Len(B) =< 1 /\ C \in Seq(R) /\ Len(C) =< 1
    BY <1>5
<1> HIDE DEF B, C
<1>7. A \o B \in Seq(R) /\ Len(A \o B) = Len(A) + Len(B)
    BY <1>4, <1>6, ConcatProperties
<1>8. Len((A \o B) \o C) = Len(A \o B) + Len(C)
    BY <1>6, <1>7, ConcatProperties
<1>9. Len(A) \in Nat /\ Len(B) \in Nat /\ Len(C) \in Nat
    BY <1>4, <1>6
<1>10. QED
    BY <1>2, <1>4, <1>6, <1>7, <1>8, <1>9

\* The parser goes on only with less than it had.
LEMMA ParserShortens ==
    ASSUME RddiInductive, Parse
    PROVE  /\ step = "parse" /\ step' \in {"parse", "check"}
           /\ step' = "parse" => Len(resp') = Len(resp) - 1
           /\ Len(resp) \in Nat \ {0}
           /\ UNCHANGED <<call, pos, phase, page>>
<1>1. step = "parse" /\ \E leaves \in BOOLEAN : Parsed(leaves)
    BY DEF Parse, ParsePlain, ParseTransferConfigure, ParseReporting, ParseWriteABORT,
       ParseTransfer, ParseJtagSequence, ParsePins
<1>2. PICK leaves \in BOOLEAN : Parsed(leaves)
    BY <1>1
<1>3. /\ step' = IF leaves \/ Len(resp) = 1 THEN "check" ELSE "parse"
      /\ resp' = IF leaves THEN <<>> ELSE Tail(resp)
      /\ UNCHANGED <<call, pos, phase, page>>
    BY <1>2 DEF Parsed, buildVars, detectVars
<1> DEFINE R == [id : Ids \cup LeadIds, status : ProbeStatus \cup {"ERROR"}, n : Nat, made : Seq(Nat)]
<1>4. resp \in Seq(R) /\ resp # <<>>
    BY <1>1 DEF RddiInductive, ControlTypeOK, Answers
<1> HIDE DEF R
<1>5. Len(resp) \in Nat \ {0} /\ Len(Tail(resp)) = Len(resp) - 1
    BY <1>4
<1>6. QED
    BY <1>1, <1>3, <1>5

\* A request puts one of the known lists of commands first.
LEMMA SendLengths ==
    ASSUME Build, RddiInductive
    PROVE  step' \in {"probe", "build", "idle"} /\ (step' = "probe" => Len(page'.lead) =< 9)
<1>1. CASE AddTransfer \/ SkipRetry \/ NothingToRepeat
    BY <1>1 DEF AddTransfer, SkipRetry, NothingToRepeat, Return
<1>2. ASSUME NEW lead, NEW config, NEW id, NEW xs, NEW count,
             Send(lead, config, id, xs, count), Len(lead) =< 9
      PROVE  step' = "probe" /\ Len(page'.lead) =< 9
    BY <1>2 DEF Send
<1>3. CASE SendBatch \/ SendAll \/ SendChunk \/ SendIdcode
    BY <1>2, <1>3, LeadLengths DEF SendBatch, SendAll, SendChunk, SendIdcode
<1>4. CASE SendScan
  <2>1. phase \in {0, 1, 2}
      BY <1>4 DEF SendScan, RddiInductive, ControlTypeOK, Placed
  <2>2. \E lead, count : Send(lead, 0, "JTAG_Sequence", <<>>, count) /\ Len(lead) =< 9
      BY <1>4, <2>1, LeadLengths DEF SendScan
  <2>3. QED
      BY <1>2, <2>2
<1>5. QED
    BY <1>1, <1>3, <1>4 DEF Build

LEMMA LengthStep ==
    ASSUME RddiInductive, LengthInv, [RddiNext]_rddiVars
    PROVE  LengthInv'
<1>1. CASE Build
    BY <1>1, SendLengths DEF LengthInv
<1>2. CASE Probe
  <2>1. step = "probe" /\ step' = "parse"
      BY <1>2 DEF Probe, ProbeAnswers
  <2>2. Len(page.lead) \in Nat
      BY DEF RddiInductive, ControlTypeOK
  <2>3. Len(resp') \in Nat
      BY <1>2, ProbeStep DEF RddiInductive, ControlTypeOK
  <2>4. QED
      BY <1>2, <2>1, <2>2, <2>3, ResponseLength DEF LengthInv
<1>3. CASE Parse
    BY <1>3, ParserShortens DEF LengthInv
<1>4. CASE Check
  <2>1. step' \in {"idle", "build"}
      BY <1>4
      DEF Check, BatchFails, NextBatch, LastBatch, AllReturns, ChunkChecked, IdcodeRead,
          SwdDetected, SwdNotDetected, ScanFails, DevicesCounted, IdcodesChecked,
          ChainConfigured, Return
  <2>2. QED
      BY <2>1 DEF LengthInv
<1>5. CASE \E r \in Requests : Call(r)
    BY <1>5 DEF Call, LengthInv
<1>6. CASE ConfigurePort \/ UNCHANGED rddiVars
    BY <1>6 DEF ConfigurePort, rddiVars, parseVars, LengthInv
<1>7. QED
    BY <1>1, <1>2, <1>3, <1>4, <1>5, <1>6 DEF RddiNext, Working

\* The shape of the measure.
LEMMA VariantShape ==
    ASSUME RddiInductive, LengthInv
    PROVE  /\ Variant \in Nat
           /\ step # "idle" =>
                  Rounds \in Nat /\ Stage \in 1 .. 15 /\ Variant = 16 * Rounds + Stage
<1>1. /\ pos \in 1 .. Total + 1 /\ phase \in 0 .. 3 /\ Total \in Nat
      /\ step \in {"idle", "build", "probe", "parse", "check"}
    BY TotalFacts DEF RddiInductive, ControlTypeOK
<1>2. Rounds \in Nat
    BY <1>1 DEF Rounds
<1>3. ASSUME step = "parse" PROVE Len(resp) \in 1 .. 11
  <2> DEFINE R == [id : Ids \cup LeadIds, status : ProbeStatus \cup {"ERROR"}, n : Nat, made : Seq(Nat)]
             k == Len(resp)
  <2>1. resp \in Seq(R) /\ resp # <<>>
      BY <1>3 DEF RddiInductive, ControlTypeOK, Answers
  <2> HIDE DEF R
  <2>2. k \in Nat /\ k # 0
      BY <2>1, EmptySeq
  <2>3. k =< 11
      BY <1>3 DEF LengthInv
  <2> HIDE DEF k
  <2>4. k \in 1 .. 11
      BY <2>2, <2>3
  <2>5. QED
      BY <2>4 DEF k
<1>4. ASSUME step # "idle" PROVE Stage \in 1 .. 15
  <2>1. CASE step = "parse"
    <3> DEFINE k == Len(resp)
    <3>1. Stage = 1 + k
        BY <2>1 DEF Stage
    <3>2. k \in 1 .. 11
        BY <1>3, <2>1
    <3> HIDE DEF k
    <3>3. QED
        BY <3>1, <3>2
  <2>2. CASE step = "build"
      BY <2>2 DEF Stage
  <2>3. CASE step = "probe"
      BY <2>3 DEF Stage
  <2>4. CASE step = "check"
      BY <2>4 DEF Stage
  <2>5. QED
      BY <1>1, <1>4, <2>1, <2>2, <2>3, <2>4
<1>5. QED
    BY <1>2, <1>4 DEF Variant

\* Two ways down: back to build with fewer rounds to come, or on to a later stage.
LEMMA VariantFalls ==
    ASSUME RddiInductive, LengthInv, step # "idle", call' = call, pos' \in Nat, phase' \in Nat,
           \/ step' = "idle"
           \/ step' = "build" /\ Rounds' =< Rounds - 1
           \/ step' # "idle" /\ Rounds' =< Rounds /\ Stage' \in Nat /\ Stage' < Stage
    PROVE  Variant' < Variant
<1>1. Rounds \in Nat /\ Stage \in 1 .. 15 /\ Variant = 16 * Rounds + Stage
    BY VariantShape
<1>2. CASE step' = "idle"
  <2>1. Variant' = 0
      BY <1>2 DEF Variant
  <2>2. QED
      BY <1>1, <2>1
<1>3. CASE step' # "idle"
  <2>1. Variant' = 16 * Rounds' + Stage'
      BY <1>3 DEF Variant
  <2>2. Total' \in Nat
      BY TotalFacts DEF RddiInductive, Total
  <2>3. Rounds' \in Int
      BY <2>2 DEF Rounds
  <2>4. step' = "build" => Stage' = 15
      BY DEF Stage
  <2> DEFINE a == Rounds
             b == Rounds'
             c == Stage
             d == Stage'
  <2>5. a \in Nat /\ b \in Int /\ c \in 1 .. 15 /\ d \in Nat
      BY <1>1, <1>3, <2>3, <2>4
  <2>6. (b =< a - 1 /\ d = 15) \/ (b =< a /\ d < c)
      BY <1>3, <2>4
  <2> HIDE DEF a, b, c, d
  <2>7. 16 * b + d < 16 * a + c
      BY <2>5, <2>6
  <2>8. QED
      BY <1>1, <2>1, <2>7 DEF a, b, c, d
<1>4. QED
    BY <1>2, <1>3

\* A chunk is not empty.
LEMMA ChunkLength ==
    ASSUME pos \in Nat, Total \in Nat, pos =< Total
    PROVE  Len(Chunk) \in Nat \ {0}
<1> DEFINE n == IF Total - pos + 1 < MaxTransmit THEN Total - pos + 1 ELSE MaxTransmit
<1>1. n \in Nat \ {0}
    BY RddiAssumption DEF RddiAssumption
<1>2. Chunk = [k \in 1 .. n |-> pos + k - 1]
    BY DEF Chunk
<1> HIDE DEF n
<1>3. Len(Chunk) = n
    BY <1>1, <1>2
<1>4. QED
    BY <1>1, <1>3

\* The rounds after a step of a call.
LEMMA RoundsAfter ==
    ASSUME call' = call, pos' \in Nat, phase' \in Nat, Total \in Nat
    PROVE  Rounds' = (Total + 1 - pos') + (3 - phase')
                     + (IF step' # "build" /\ call.fn \in Looping THEN 1 ELSE 0)
<1>1. Total' = Total
    BY DEF Total
<1>2. QED
    BY <1>1 DEF Rounds

LEMMA VariantBuild ==
    ASSUME RddiInductive, LengthInv, Build
    PROVE  Variant' < Variant
<1>1. /\ step = "build" /\ pos \in Nat /\ phase \in Nat /\ Total \in Nat
      /\ pos =< Total + 1 /\ Stage = 15
  <2>1. step = "build"
      BY DEF Build, AddTransfer, SkipRetry, SendBatch, SendAll, SendChunk, NothingToRepeat,
             SendIdcode, SendScan
  <2>2. Total \in Nat
      BY TotalFacts DEF RddiInductive
  <2>3. QED
      BY <2>1, <2>2 DEF RddiInductive, ControlTypeOK, Stage
<1>2. step' = "probe" => Stage' = 14
    BY DEF Stage
<1>3. CASE AddTransfer \/ SkipRetry
  <2>1. pos' = pos + 1 /\ UNCHANGED <<call, phase, step>>
      BY <1>3 DEF AddTransfer, SkipRetry, StartBatch, detectVars
  <2>2. Rounds' = Rounds - 1
      BY <1>1, <2>1, RoundsAfter DEF Rounds
  <2>3. QED
      BY <1>1, <2>1, <2>2, VariantFalls
<1>4. CASE SendBatch
  <2>1. call.fn = "RegAccessBlock" /\ step' = "probe" /\ UNCHANGED <<call, pos, phase>>
      BY <1>4 DEF SendBatch, Send
  <2>2. Rounds' = Rounds
      BY <1>1, <2>1, RoundsAfter DEF Rounds, Looping
  <2>3. QED
      BY <1>1, <1>2, <2>1, <2>2, VariantFalls DEF Rounds
<1>5. CASE SendAll
  <2>1. call.fn \in Singles /\ pos' = Total + 1 /\ step' = "probe" /\ UNCHANGED <<call, phase>>
      BY <1>5 DEF SendAll, Send
  <2>2. call.fn \notin Looping
      BY <2>1 DEF Singles, Orders, Looping
  <2>3. Rounds' =< Rounds
      BY <1>1, <2>1, <2>2, RoundsAfter DEF Rounds
  <2>4. QED
      BY <1>1, <1>2, <2>1, <2>3, VariantFalls
<1>6. CASE SendChunk
  <2>1. step' = "probe" /\ pos =< Total /\ pos' = pos + Len(Chunk) /\ UNCHANGED <<call, phase>>
      BY <1>6 DEF SendChunk, Send
  <2>2. Len(Chunk) \in Nat \ {0}
      BY <1>1, <2>1, ChunkLength
  <2>3. Rounds' =< Rounds
      BY <1>1, <2>1, <2>2, RoundsAfter DEF Rounds
  <2>4. QED
      BY <1>1, <1>2, <2>1, <2>2, <2>3, VariantFalls
<1>7. CASE SendIdcode
  <2>1. step' = "probe" /\ pos' = pos + 1 /\ UNCHANGED <<call, phase>>
      BY <1>7 DEF SendIdcode, Send
  <2>2. Rounds' =< Rounds
      BY <1>1, <2>1, RoundsAfter DEF Rounds
  <2>3. QED
      BY <1>1, <1>2, <2>1, <2>2, VariantFalls
<1>8. CASE SendScan
  <2>1. step' = "probe" /\ phase' = phase + 1 /\ UNCHANGED <<call, pos>>
      BY <1>8, ScanSends DEF SendScan, Send
  <2>2. Rounds' =< Rounds
      BY <1>1, <2>1, RoundsAfter DEF Rounds
  <2>3. QED
      BY <1>1, <1>2, <2>1, <2>2, VariantFalls
<1>9. CASE NothingToRepeat
  <2>1. step' = "idle" /\ UNCHANGED <<call, pos, phase>>
      BY <1>9 DEF NothingToRepeat, Return, buildVars
  <2>2. QED
      BY <1>1, <2>1, VariantFalls
<1>10. QED
    BY <1>3, <1>4, <1>5, <1>6, <1>7, <1>8, <1>9 DEF Build

LEMMA VariantProbe ==
    ASSUME RddiInductive, LengthInv, Probe
    PROVE  Variant' < Variant
<1>1. step = "probe" /\ step' = "parse" /\ UNCHANGED <<call, pos, phase>>
    BY DEF Probe, ProbeAnswers, buildVars, detectVars
<1>2. pos \in Nat /\ phase \in Nat /\ Total \in Nat
  <2>1. Total \in Nat
      BY TotalFacts DEF RddiInductive
  <2>2. QED
      BY <2>1 DEF RddiInductive, ControlTypeOK
<1>3. Rounds' =< Rounds
  <2>1. Rounds' = Rounds
      BY <1>1, <1>2, RoundsAfter DEF Rounds
  <2>2. QED
      BY <1>1, <2>1, VariantShape
<1>4. Stage = 14 /\ Stage' = 1 + Len(resp')
    BY <1>1 DEF Stage
<1>5. Len(resp') \in Nat /\ Len(resp') =< 11
  <2>1. Len(page.lead) \in Nat /\ Len(page.lead) =< 9
      BY <1>1 DEF RddiInductive, ControlTypeOK, LengthInv
  <2>2. Len(resp') \in Nat
      BY ProbeStep DEF RddiInductive, ControlTypeOK
  <2>3. QED
      BY <2>1, <2>2, ResponseLength
<1>6. QED
    BY <1>1, <1>2, <1>3, <1>4, <1>5, VariantFalls

LEMMA VariantParse ==
    ASSUME RddiInductive, LengthInv, Parse
    PROVE  Variant' < Variant
<1>1. /\ step = "parse" /\ step' \in {"parse", "check"}
      /\ step' = "parse" => Len(resp') = Len(resp) - 1
      /\ Len(resp) \in Nat \ {0}
      /\ UNCHANGED <<call, pos, phase>>
    BY ParserShortens
<1>2. pos \in Nat /\ phase \in Nat /\ Total \in Nat
  <2>1. Total \in Nat
      BY TotalFacts DEF RddiInductive
  <2>2. QED
      BY <2>1 DEF RddiInductive, ControlTypeOK
<1>3. Rounds' =< Rounds
  <2>1. Rounds' = Rounds
      BY <1>1, <1>2, RoundsAfter DEF Rounds
  <2>2. QED
      BY <1>1, <2>1, VariantShape
<1>4. /\ Stage = 1 + Len(resp)
      /\ Stage' = IF step' = "parse" THEN 1 + Len(resp') ELSE 1
    BY <1>1 DEF Stage
<1>5. Stage' \in Nat /\ Stage' < Stage
    BY <1>1, <1>4
<1>6. QED
    BY <1>1, <1>2, <1>3, <1>5, VariantFalls

LEMMA VariantCheck ==
    ASSUME RddiInductive, LengthInv, Check
    PROVE  Variant' < Variant
<1>1. step = "check"
    BY DEF Check, BatchFails, NextBatch, LastBatch, AllReturns, ChunkChecked, IdcodeRead,
           SwdDetected, SwdNotDetected, ScanFails, DevicesCounted, IdcodesChecked,
           ChainConfigured
<1>2. pos \in Nat /\ phase \in Nat /\ Total \in Nat
  <2>1. Total \in Nat
      BY TotalFacts DEF RddiInductive
  <2>2. QED
      BY <2>1 DEF RddiInductive, ControlTypeOK
<1>3. CASE NextBatch
  <2>1. /\ pos' = pos + 1 /\ step' = "build" /\ UNCHANGED <<call, phase>>
        /\ call.fn = "RegAccessBlock"
      BY <1>3 DEF NextBatch, StartBatch, detectVars
  <2>2. Rounds' = Rounds - 1
      BY <1>2, <2>1, RoundsAfter DEF Rounds, Looping
  <2>3. QED
      BY <1>1, <1>2, <2>1, <2>2, VariantFalls, VariantShape
<1>4. CASE step' = "build" /\ ~NextBatch
  <2>1. call.fn \in Looping /\ UNCHANGED <<call, pos, phase>>
      BY <1>4
      DEF Check, BatchFails, LastBatch, AllReturns, ChunkChecked, IdcodeRead,
          SwdDetected, SwdNotDetected, ScanFails, DevicesCounted, IdcodesChecked,
          ChainConfigured, Return, buildVars, detectVars, Looping
  <2>2. Rounds' = Rounds - 1
      BY <1>1, <1>2, <1>4, <2>1, RoundsAfter DEF Rounds
  <2>3. QED
      BY <1>1, <1>2, <1>4, <2>1, <2>2, VariantFalls, VariantShape
<1>5. CASE step' # "build"
  <2>1. step' = "idle" /\ UNCHANGED <<call, pos, phase>>
      BY <1>5
      DEF Check, BatchFails, NextBatch, LastBatch, AllReturns, ChunkChecked, IdcodeRead,
          SwdDetected, SwdNotDetected, ScanFails, DevicesCounted, IdcodesChecked,
          ChainConfigured, Return, buildVars, detectVars
  <2>2. QED
      BY <1>1, <1>2, <2>1, VariantFalls
<1>6. QED
    BY <1>3, <1>4, <1>5

\* What a call may do: each step of the library, the probe and the parser leaves less to
\* do, and a call of n transfers begins with at most 16 * (n + 3) + 15.
CallShrinks ==
    /\ Variant \in Nat
    /\ Working => Variant' < Variant
    /\ \A r \in Requests : Call(r) => Variant' =< 16 * (Len(r.regs) + 3) + 15

\* A call takes a number of steps that its length bounds, whatever the probe answers: no
\* loop of the library or of the parser goes round without using up a transfer, a
\* phase or a command of the response.  This is the safety part of CallReturns.
THEOREM CallIsBounded == RddiSpec => [][CallShrinks]_rddiVars
<1>1. RddiInit => LengthInv
    BY DEF RddiInit, LengthInv
<1>2. RddiInductive /\ LengthInv /\ [RddiNext]_rddiVars => LengthInv'
    BY LengthStep
<1>3. RddiInductive /\ LengthInv => Variant \in Nat
    BY VariantShape
<1>4. RddiInductive /\ LengthInv => (Working => Variant' < Variant)
    BY VariantBuild, VariantProbe, VariantParse, VariantCheck DEF Working
<1>5. ASSUME NEW r \in Requests, Call(r) PROVE Variant' =< 16 * (Len(r.regs) + 3) + 15
  <2>1. call' = r /\ pos' = 1 /\ phase' = 0 /\ step' \in {"build", "idle"}
      BY <1>5 DEF Call
  <2>2. Len(r.regs) \in Nat
      BY CallFacts
  <2>3. step' = "build" => Stage' = 15
      BY DEF Stage
  <2>4. step' = "build" => Rounds' = Len(r.regs) + 3
      BY <2>1, <2>2 DEF Rounds, Total
  <2>5. QED
      BY <2>1, <2>2, <2>3, <2>4 DEF Variant
<1>6. RddiInductive /\ LengthInv => CallShrinks
    BY <1>3, <1>4, <1>5 DEF CallShrinks
<1>7. QED
    BY <1>1, <1>2, <1>6, RddiInductiveCorrect, PTL DEF RddiSpec
=============================================================================
