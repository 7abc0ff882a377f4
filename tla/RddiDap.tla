------------------------------ MODULE RddiDap ------------------------------
(***************************************************************************)
(* A call of the RDDI library on its whole way: the library cuts it into   *)
(* requests, the probe executes the commands of each one, the proxy parses *)
(* the response into the consumer page, and the library reads the page.    *)
(*                                                                         *)
(* The transport is taken as perfect here (module ElaphureLink is about    *)
(* it), so the four take turns.  A register transfer is known by its       *)
(* position in the call, and the value read by transfer p is p: 0 stands   *)
(* for what was in an array before.                                        *)
(***************************************************************************)
EXTENDS Integers, Sequences, FiniteSets

CONSTANTS
    Requests,       \* the calls the debugger makes
    CountRange,     \* values of the count byte of DAP_Transfer (256)
    MaxTransmit,    \* max_transmit_one_time, in words
    WordBits,       \* bits of a captured word (32)
    TdoWords        \* words captured to count devices (6)

Kinds == {"read", "write", "match", "mask", "retry"}
Blocks == {"RegAccessBlock"}
Orders == {"Commands", "SwjSequence", "SwjPins"}
Singles == {"ReadReg", "WriteReg", "WriteAbort", "RegReadRepeat"} \cup Orders
Fns == Blocks \cup Singles \cup {"RegWriteRepeat", "DetectSwd", "DetectJtag"}
NoCall == [fn |-> "none", regs |-> <<>>]

ASSUME RddiAssumption ==
    /\ Requests \subseteq [fn : Fns, regs : Seq(Kinds)]
    /\ \A r \in Requests : r.fn = "DetectSwd" => r.regs = <<"read", "read">>
    /\ \A r \in Requests : r.fn \in Orders \cup {"DetectJtag"} => r.regs = <<>>
    /\ \A r \in Requests : r.fn \in {"ReadReg", "RegReadRepeat"} => r.regs \in Seq({"read"})
    /\ \A r \in Requests :
           r.fn \in {"WriteReg", "WriteAbort", "RegWriteRepeat"} => r.regs \in Seq({"write"})
    /\ CountRange \in Nat \ {0}
    /\ MaxTransmit \in Nat \ {0}
    /\ WordBits \in Nat \ {0}
    /\ TdoWords \in Nat \ {0}

VARIABLES
    call,           \* regIDArray, and the function it was given to
    pos,            \* i
    port,           \* debug_port_
    setup,          \* the match retry waiting in dap_transfer_array, or 0
    batch,          \* the transfers in dap_transfer_array
    reads,          \* read_reg_index_array
    out,            \* dataArray
    phase,          \* of a detection of JTAG devices
    devices,        \* *noOfDAPs
    idcodes,        \* idcode_list of the context: how many, all recognised
    result,         \* what the last call returned
    step,           \* whose turn it is
    page,           \* producer_page
    resp,           \* the part of the response that is not parsed yet
    aligned,        \* p points to a command of the response
    status,         \* consumer_page.command_response
    data,           \* consumer_page.data
    executed,       \* history: the transfers the target made in this call
    failed,         \* history: the probe reported an error, or a count did not fit
    tdo,            \* history: the zero bits of each captured word
    known           \* history: every captured IDCODE is in the table

buildVars == <<call, pos, setup, batch, reads>>
detectVars == <<phase, devices, idcodes>>
resultVars == <<out, result>>
parseVars == <<resp, aligned, status, data>>
probeVars == <<executed, failed, tdo, known>>
rddiVars == <<buildVars, detectVars, resultVars, step, page, port, parseVars, probeVars>>

Upto(n) == [k \in 1 .. n |-> k]
Positions == DOMAIN call.regs
IsRead(p) == call.regs[p] = "read"
Total == Len(call.regs)

Ids == {"none", "Transfer", "TransferBlock", "WriteABORT", "ResetTarget", "JTAG_Sequence",
        "SWJ_Sequence", "SWJ_Pins"}
Plain == {"Disconnect", "Connect", "SWJ_Clock", "SWD_Configure", "ResetTarget"}
Reporting == {"SWJ_Sequence", "JTAG_Configure"}
Counting == {"Transfer", "TransferBlock"}
NoPage == [lead |-> <<>>, config |-> 0, id |-> "none", xs |-> <<>>, n |-> 0, count |-> 0]
ProbeStatus == {"OK", "WAIT", "FAULT"}

RddiInit ==
    /\ call = NoCall
    /\ pos = 1 /\ setup = 0 /\ batch = <<>> /\ reads = <<>>
    /\ out = <<>> /\ result = "idle"
    /\ phase = 0 /\ devices = 0 /\ idcodes = 0
    /\ step = "idle"
    /\ page = NoPage /\ port = "SW"
    /\ resp = <<>> /\ aligned = TRUE /\ status = "invalid" /\ data = <<>>
    /\ executed = <<>> /\ failed = FALSE
    /\ tdo = <<>> /\ known = FALSE

-----------------------------------------------------------------------------
(* The library: calls and requests.                                        *)

\* CMSIS_DAP_ConfigureInterface selects the port of later detections.
ConfigurePort ==
    /\ step = "idle"
    /\ port' \in {"SW", "JTAG"}
    /\ UNCHANGED <<buildVars, detectVars, resultVars, step, page, parseVars, probeVars>>

\* is_proxy_ready is tested first, directly or by get_rddi_handle.
Call(r) ==
    /\ step = "idle"
    /\ r.fn = "DetectSwd" => port = "SW"
    /\ r.fn = "DetectJtag" => port = "JTAG"
    /\ call' = r
    /\ pos' = 1 /\ setup' = 0 /\ batch' = <<>> /\ reads' = <<>>
    /\ out' = [p \in DOMAIN r.regs |-> 0]
    /\ phase' = 0 /\ devices' = 0
    /\ data' = [k \in DOMAIN data |-> 0]
    /\ executed' = <<>> /\ failed' = FALSE
    /\ tdo' = <<>> /\ known' = FALSE
    /\ \/ step' = "build" /\ result' = "pending"
       \/ step' = "idle" /\ result' = "failed"
    /\ UNCHANGED <<idcodes, page, port, resp, aligned, status>>

\* produce_and_wait_consumer_response.  DAP_Transfer has a byte for its count.
Send(lead, config, id, xs, count) ==
    /\ page' = [lead |-> lead, config |-> config, id |-> id, xs |-> xs,
                n |-> IF id = "Transfer" THEN Len(xs) % CountRange ELSE Len(xs),
                count |-> count]
    /\ status' = "invalid"
    /\ step' = "probe"
    /\ UNCHANGED <<call, result, out, devices, idcodes, port, resp, aligned, data, probeVars>>

\* What the pages hold is not read again, except the length of the data.
Return(r) ==
    /\ result' = r
    /\ step' = "idle"
    /\ page' = NoPage
    /\ status' = "invalid"
    /\ UNCHANGED <<buildVars, phase, port, resp, aligned, data, probeVars>>

\* DAP_RegAccessBlock: one more transfer for the batch.
AddTransfer ==
    /\ step = "build"
    /\ call.fn = "RegAccessBlock"
    /\ pos =< Total
    /\ call.regs[pos] # "retry"
    /\ batch' = Append(batch, pos)
    /\ reads' = IF IsRead(pos) THEN Append(reads, pos) ELSE reads
    /\ pos' = pos + 1
    /\ UNCHANGED <<call, setup, detectVars, resultVars, step, page, port, parseVars, probeVars>>

\* A match retry with nothing before it.
NothingToSend == setup = 0 /\ batch = <<>>

\* Mutant: the transfers that were sent stay in the array.
MutStartBatch ==
    /\ setup' = pos
    /\ batch' = batch
    /\ reads' = <<>>
    /\ pos' = pos + 1

StartBatch ==
    /\ setup' = pos
    /\ batch' = <<>>
    /\ reads' = <<>>
    /\ pos' = pos + 1

SkipRetry ==
    /\ step = "build"
    /\ call.fn = "RegAccessBlock"
    /\ pos =< Total
    /\ call.regs[pos] = "retry"
    /\ NothingToSend
    /\ StartBatch
    /\ UNCHANGED <<call, detectVars, resultVars, step, page, port, parseVars, probeVars>>

\* The configuration of the match retries, the batch, or both.
SendBatch ==
    /\ step = "build"
    /\ call.fn = "RegAccessBlock"
    /\ IF pos =< Total THEN call.regs[pos] = "retry" /\ ~NothingToSend ELSE TRUE
    /\ Send(<<>>, setup, IF setup # 0 /\ batch = <<>> THEN "none" ELSE "Transfer", batch, Len(batch))
    /\ UNCHANGED <<pos, setup, batch, reads, phase>>

\* The functions that send their transfers at once.
SendAll ==
    /\ step = "build"
    /\ call.fn \in Singles
    /\ batch' = Upto(Total)
    /\ reads' = IF call.fn \in {"ReadReg", "RegReadRepeat"} THEN Upto(Total) ELSE <<>>
    /\ pos' = Total + 1
    /\ Send(<<>>, 0, CASE call.fn \in {"ReadReg", "WriteReg"} -> "Transfer"
                       [] call.fn = "RegReadRepeat" -> "TransferBlock"
                       [] call.fn = "WriteAbort" -> "WriteABORT"
                       [] call.fn = "Commands" -> "ResetTarget"
                       [] call.fn = "SwjSequence" -> "SWJ_Sequence"
                       [] call.fn = "SwjPins" -> "SWJ_Pins", Upto(Total), Total)
    /\ UNCHANGED <<setup, phase>>

\* Mutant: the last chunk is as long as the others.
MutChunk == [k \in 1 .. MaxTransmit |-> pos + k - 1]

\* DAP_RegWriteRepeat: the next words that fit, or none left.
Chunk == LET n == IF Total - pos + 1 < MaxTransmit THEN Total - pos + 1 ELSE MaxTransmit
         IN [k \in 1 .. n |-> pos + k - 1]

SendChunk ==
    /\ step = "build"
    /\ call.fn = "RegWriteRepeat"
    /\ pos =< Total
    /\ batch' = Chunk
    /\ pos' = pos + Len(Chunk)
    /\ Send(<<>>, 0, "TransferBlock", Chunk, Len(Chunk))
    /\ UNCHANGED <<setup, reads, phase>>

NothingToRepeat ==
    /\ step = "build"
    /\ call.fn = "RegWriteRepeat"
    /\ pos > Total
    /\ Return("ok")
    /\ UNCHANGED <<out, devices, idcodes>>

\* Mutant: sticky errors are cleared before the line is set up.
MutSwdLead == <<"WriteABORT", "Disconnect", "Connect", "SWJ_Clock", "TransferConfigure",
                "SWD_Configure">> \o [k \in 1 .. 4 |-> "SWJ_Sequence"]

\* CMSIS_DAP_DetectNumberOfDAPs, SWD: the line is set up and the ID code is
\* read, twice.
SwdLead == <<"Disconnect", "Connect", "SWJ_Clock", "TransferConfigure", "SWD_Configure">>
           \o [k \in 1 .. 4 |-> "SWJ_Sequence"]

SendIdcode ==
    /\ step = "build"
    /\ call.fn = "DetectSwd"
    /\ batch' = <<pos>>
    /\ reads' = <<pos>>
    /\ pos' = pos + 1
    /\ Send(IF pos = 1 THEN SwdLead ELSE <<"SWJ_Sequence">>, 0, "Transfer", <<pos>>, 1)
    /\ UNCHANGED <<setup, phase>>

\* JTAG: the chain in bypass, then the ID codes, then the IR lengths.
JtagLead == <<"Disconnect", "Connect", "SWJ_Clock", "TransferConfigure">>
            \o [k \in 1 .. 3 |-> "SWJ_Sequence"]
ConfigureLead == <<"JTAG_Configure">> \o [k \in 1 .. 3 |-> "SWJ_Sequence"]

SendScan ==
    /\ step = "build"
    /\ call.fn = "DetectJtag"
    /\ phase' = phase + 1
    /\ CASE phase = 0 -> Send(JtagLead, 0, "JTAG_Sequence", <<>>, TdoWords)
         [] phase = 1 -> Send(<<>>, 0, "JTAG_Sequence", <<>>, devices)
         [] phase = 2 -> Send(ConfigureLead, 0, "JTAG_Sequence", <<>>, 0)
    /\ UNCHANGED <<pos, setup, batch, reads>>

-----------------------------------------------------------------------------
(* The probe.                                                              *)

\* The reads among the transfers s, in their order.
ReadsOf(regs, s) ==
    LET r[n \in 0 .. Len(s)] ==
            IF n = 0 THEN <<>>
            ELSE IF regs[s[n]] = "read" THEN Append(r[n - 1], s[n]) ELSE r[n - 1]
    IN r[Len(s)]

\* The data that follow are the values read, or n captured words, which
\* stand for 0.
Response(id, s, n, made) == [id |-> id, status |-> s, n |-> n, made |-> made]
DataOf(r) == IF r.id = "JTAG_Sequence" /\ r.status = "OK" THEN [k \in 1 .. r.n |-> 0]
             ELSE ReadsOf(call.regs, r.made)

\* It executes the first k transfers of the last command.  An error stops it
\* before the next one, or is noticed after the last; commands that come
\* first are executed, whatever they report.
ProbeAnswers(k, s, lead) ==
    LET made == SubSeq(page.xs, 1, k) IN
    /\ step = "probe"
    /\ s = "OK" => k = page.n
    /\ executed' = executed \o (IF page.config = 0 THEN <<>> ELSE <<page.config>>) \o made
    /\ resp' = [j \in DOMAIN page.lead |-> Response(page.lead[j], lead, 0, <<>>)]
               \o (IF page.config = 0 THEN <<>> ELSE <<Response("TransferConfigure", "OK", 0, <<>>)>>)
               \o (IF page.id = "none" THEN <<>>
                   ELSE <<Response(page.id, s, IF page.id \in Counting THEN k ELSE page.count, made)>>)
    /\ failed' = (failed \/ s # "OK" \/ (page.id = "Transfer" /\ page.n # page.count))
    /\ step' = "parse"
    /\ aligned' = TRUE
    /\ UNCHANGED <<buildVars, detectVars, resultVars, page, port, status, data>>

Captures ==
    /\ IF call.fn = "DetectJtag" /\ phase = 1
       THEN tdo' \in [1 .. TdoWords -> SUBSET (0 .. WordBits - 1)] ELSE tdo' = tdo
    /\ IF call.fn = "DetectJtag" /\ phase = 2 THEN known' \in BOOLEAN ELSE known' = known

Probe ==
    /\ \E k \in 0 .. page.n, s \in ProbeStatus, lead \in {"OK", "ERROR"} :
        /\ page.lead = <<>> => lead = "OK"
        /\ page.id \in {"none", "SWJ_Pins"} => s = "OK"
        /\ ProbeAnswers(k, s, lead)
    /\ Captures

-----------------------------------------------------------------------------
(* The proxy: step 3 of do_data_process, one command of the response.      *)

\* Mutant: the next turn of the loop starts at the same command.
MutParsed(leaves) ==
    /\ step' = IF leaves THEN "check" ELSE "parse"
    /\ resp' = IF leaves THEN <<>> ELSE resp
    /\ UNCHANGED <<buildVars, detectVars, resultVars, page, port, probeVars>>

Parsed(leaves) ==
    /\ step' = IF leaves \/ Len(resp) = 1 THEN "check" ELSE "parse"
    /\ resp' = IF leaves THEN <<>> ELSE Tail(resp)
    /\ UNCHANGED <<buildVars, detectVars, resultVars, page, port, probeVars>>

\* No status is taken from these.
ParsePlain ==
    /\ step = "parse"
    /\ Head(resp).id \in Plain
    /\ Parsed(FALSE)
    /\ UNCHANGED <<aligned, status, data>>

\* Mutant: no status is taken from it either.
MutParseTransferConfigure ==
    /\ step = "parse"
    /\ Head(resp).id = "TransferConfigure"
    /\ Parsed(FALSE)
    /\ UNCHANGED <<aligned, status, data>>

ParseTransferConfigure ==
    /\ step = "parse"
    /\ Head(resp).id = "TransferConfigure"
    /\ status' = "OK"
    /\ Parsed(FALSE)
    /\ UNCHANGED <<aligned, data>>

ParseReporting ==
    /\ step = "parse"
    /\ Head(resp).id \in Reporting
    /\ status' = IF Head(resp).status = "OK" THEN "OK" ELSE "ERROR"
    /\ Parsed(FALSE)
    /\ UNCHANGED <<aligned, data>>

\* Mutant: the status of the response is not looked at.
MutParseWriteABORT ==
    /\ step = "parse"
    /\ Head(resp).id = "WriteABORT"
    /\ status' = "OK"
    /\ aligned' = FALSE
    /\ Parsed(FALSE)
    /\ UNCHANGED data

\* The pointer is not moved.
ParseWriteABORT ==
    /\ step = "parse"
    /\ Head(resp).id = "WriteABORT"
    /\ status' = IF Head(resp).status = "OK" THEN "OK" ELSE "FAULT"
    /\ aligned' = FALSE
    /\ Parsed(Head(resp).status # "OK")
    /\ UNCHANGED data

\* Mutant: the count is not compared.
MutParseTransfer ==
    LET r == Head(resp)
        accepted == r.status = "OK" \/ (r.id = "TransferBlock" /\ r.status = "FAULT") IN
    /\ step = "parse"
    /\ r.id \in Counting
    /\ status' = r.status
    /\ data' = IF accepted THEN DataOf(r) ELSE data
    /\ aligned' = (DataOf(r) = <<>>)
    /\ Parsed(~accepted)

\* The count is compared with the one in the producer page.  A block is
\* accepted with a fault as well.  The pointer is not moved past the data.
ParseTransfer ==
    LET r == Head(resp)
        accepted == r.status = "OK" \/ (r.id = "TransferBlock" /\ r.status = "FAULT") IN
    /\ step = "parse"
    /\ r.id \in Counting
    /\ status' = IF r.n # page.count THEN "FAULT" ELSE r.status
    /\ data' = IF r.n = page.count /\ accepted THEN DataOf(r) ELSE data
    /\ aligned' = (DataOf(r) = <<>>)
    /\ Parsed(r.n # page.count \/ ~accepted)

ParseJtagSequence ==
    LET r == Head(resp)
        good == r.status = "OK" /\ Len(DataOf(r)) = page.count IN
    /\ step = "parse"
    /\ r.id = "JTAG_Sequence"
    /\ status' = IF good THEN "OK" ELSE "FAULT"
    /\ data' = IF good THEN DataOf(r) ELSE data
    /\ aligned' = (DataOf(r) = <<>>)
    /\ Parsed(~good)

\* The level of the pins, which has no status.
ParsePins ==
    /\ step = "parse"
    /\ Head(resp).id = "SWJ_Pins"
    /\ status' = "OK"
    /\ data' = <<0>>
    /\ Parsed(FALSE)
    /\ UNCHANGED aligned

Parse ==
    \/ ParsePlain \/ ParseTransferConfigure \/ ParseReporting \/ ParseWriteABORT
    \/ ParseTransfer \/ ParseJtagSequence \/ ParsePins

-----------------------------------------------------------------------------
(* The library: what it makes of the consumer page.                        *)

\* Mutant: the values are put one after the other.
MutStored == [p \in DOMAIN out |-> IF p \in DOMAIN data THEN data[p] ELSE out[p]]

\* dataArray[read_reg_index_array[j]] = data[j], whatever the page holds there.
Value(j) == IF j \in DOMAIN data THEN data[j] ELSE 0
Stored == [p \in DOMAIN out |-> IF \E j \in DOMAIN reads : reads[j] = p
                                THEN Value(CHOOSE j \in DOMAIN reads : reads[j] = p) ELSE out[p]]

LengthChecked == reads # <<>> \/ call.fn \in {"ReadReg", "RegReadRepeat"}
Answered == status = "OK" /\ (LengthChecked => Len(data) = Len(reads))

\* The end of start_request_and_get_response.
BatchFails ==
    /\ step = "check"
    /\ call.fn = "RegAccessBlock"
    /\ ~Answered
    /\ Return(IF status = "FAULT" THEN "sticky" ELSE "internal")
    /\ UNCHANGED <<out, devices, idcodes>>

NextBatch ==
    /\ step = "check"
    /\ call.fn = "RegAccessBlock"
    /\ Answered
    /\ pos =< Total
    /\ out' = Stored
    /\ StartBatch
    /\ step' = "build"
    /\ UNCHANGED <<call, detectVars, result, page, port, parseVars, probeVars>>

LastBatch ==
    /\ step = "check"
    /\ call.fn = "RegAccessBlock"
    /\ Answered
    /\ pos > Total
    /\ out' = Stored
    /\ Return("ok")
    /\ UNCHANGED <<devices, idcodes>>

AllReturns ==
    /\ step = "check"
    /\ call.fn \in Singles
    /\ out' = IF Answered THEN Stored ELSE out
    /\ Return(IF Answered THEN "ok" ELSE "internal")
    /\ UNCHANGED <<devices, idcodes>>

ChunkChecked ==
    /\ step = "check"
    /\ call.fn = "RegWriteRepeat"
    /\ IF status # "OK" THEN Return("internal")
       ELSE /\ step' = "build"
            /\ UNCHANGED <<buildVars, phase, result, page, port, parseVars, probeVars>>
    /\ UNCHANGED <<out, devices, idcodes>>

\* The length of the data is not looked at here.
IdcodeRead ==
    /\ step = "check"
    /\ call.fn = "DetectSwd"
    /\ status = "OK"
    /\ pos =< Total
    /\ out' = Stored
    /\ step' = "build"
    /\ UNCHANGED <<buildVars, detectVars, result, page, port, parseVars, probeVars>>

\* The two ID codes are the same.
SwdDetected ==
    /\ step = "check"
    /\ call.fn = "DetectSwd"
    /\ status = "OK"
    /\ pos > Total
    /\ out' = Stored
    /\ devices' = 1
    /\ idcodes' = 1
    /\ Return("ok")

SwdNotDetected ==
    /\ step = "check"
    /\ call.fn = "DetectSwd"
    /\ status = "OK" => pos > Total
    /\ Return("internal")
    /\ UNCHANGED <<out, devices, idcodes>>

\* get_jtag_scan_chain_devices_num: zero bits are counted, and must be the
\* low ones; the first word takes what does not fill a word.
Bits == {x \in (1 .. TdoWords) \X (0 .. WordBits - 1) : x[2] \in tdo[x[1]]}
Left(count) ==
    LET left[i \in 1 .. TdoWords] ==
            IF i = 1 THEN count
            ELSE LET l == left[i - 1] IN
                 IF l % WordBits = 0 THEN (IF l > 0 THEN l - WordBits ELSE 0) ELSE l - (l % WordBits)
    IN left
ZeroMask(l) == IF l = 0 THEN {} ELSE IF l % WordBits = 0 THEN 0 .. WordBits - 1 ELSE 0 .. (l % WordBits) - 1
\* Mutant: the pattern is not looked at.
MutDevicesNum == Cardinality(Bits)

DevicesNum ==
    LET count == Cardinality(Bits) IN
    IF \A i \in 1 .. TdoWords : tdo[i] = ZeroMask(Left(count)[i]) THEN count ELSE 0

ScanFails ==
    /\ step = "check"
    /\ call.fn = "DetectJtag"
    /\ phase = 1
    /\ status # "OK"
    /\ Return("internal")
    /\ UNCHANGED <<out, devices, idcodes>>

\* Mutant: the list is not cleared.
MutDevicesCounted ==
    /\ step = "check"
    /\ call.fn = "DetectJtag"
    /\ phase = 1
    /\ status = "OK"
    /\ devices' = DevicesNum
    /\ IF DevicesNum = 0
       THEN Return("ok")
       ELSE /\ step' = "build"
            /\ UNCHANGED <<buildVars, phase, result, page, port, parseVars, probeVars>>
    /\ UNCHANGED <<out, idcodes>>

\* An empty chain ends the detection and leaves the list of the last one.
DevicesCounted ==
    /\ step = "check"
    /\ call.fn = "DetectJtag"
    /\ phase = 1
    /\ status = "OK"
    /\ devices' = DevicesNum
    /\ IF DevicesNum = 0
       THEN Return("ok") /\ UNCHANGED idcodes
       ELSE /\ idcodes' = 0
            /\ step' = "build"
            /\ UNCHANGED <<buildVars, phase, result, page, port, parseVars, probeVars>>
    /\ UNCHANGED out

\* An ID code that is not recognised, or any error, ends it with success.
IdcodesChecked ==
    /\ step = "check"
    /\ call.fn = "DetectJtag"
    /\ phase = 2
    /\ IF status = "OK" /\ known
       THEN step' = "build" /\ UNCHANGED <<buildVars, phase, result, page, port, parseVars, probeVars>>
       ELSE Return("ok")
    /\ UNCHANGED <<out, devices, idcodes>>

ChainConfigured ==
    /\ step = "check"
    /\ call.fn = "DetectJtag"
    /\ phase = 3
    /\ idcodes' = IF status = "OK" THEN devices ELSE 0
    /\ Return("ok")
    /\ UNCHANGED <<out, devices>>

-----------------------------------------------------------------------------

Build ==
    \/ AddTransfer \/ SkipRetry \/ SendBatch \/ SendAll \/ SendChunk \/ NothingToRepeat
    \/ SendIdcode \/ SendScan

Check ==
    \/ BatchFails \/ NextBatch \/ LastBatch \/ AllReturns \/ ChunkChecked
    \/ IdcodeRead \/ SwdDetected \/ SwdNotDetected
    \/ ScanFails \/ DevicesCounted \/ IdcodesChecked \/ ChainConfigured

Working == Build \/ Probe \/ Parse \/ Check

RddiNext == Working \/ ConfigurePort \/ \E r \in Requests : Call(r)

RddiSpec == RddiInit /\ [][RddiNext]_rddiVars

\* The probe answers, and the threads of both processes run.
RddiFairSpec == RddiSpec /\ WF_rddiVars(Working)
-----------------------------------------------------------------------------
(* Properties.                                                             *)

Results == {"idle", "pending", "ok", "failed", "sticky", "internal"}
LeadIds == Plain \cup Reporting \cup {"TransferConfigure"}

\* The control of a call, without the values read.
ControlTypeOK ==
    /\ call \in Requests \cup {NoCall}
    /\ pos \in 1 .. Total + 1
    /\ setup \in Nat
    /\ batch \in Seq(Nat)
    /\ reads \in Seq(Nat)
    /\ phase \in 0 .. 3
    /\ devices \in Nat
    /\ result \in Results
    /\ step \in {"idle", "build", "probe", "parse", "check"}
    /\ page \in [lead : Seq(LeadIds), config : Nat, id : Ids, xs : Seq(Nat), n : Nat, count : Nat]
    /\ resp \in Seq([id : Ids \cup LeadIds, status : ProbeStatus \cup {"ERROR"}, n : Nat,
                     made : Seq(Nat)])
    /\ status \in ProbeStatus \cup {"ERROR", "invalid"}
    /\ executed \in Seq(Nat)

RddiTypeOK ==
    /\ ControlTypeOK
    /\ out \in [Positions -> Nat]
    /\ idcodes \in Nat
    /\ aligned \in BOOLEAN
    /\ data \in Seq(Nat)
    /\ failed \in BOOLEAN
    /\ known \in BOOLEAN
    /\ port \in {"SW", "JTAG"}

\* The target makes the transfers of a call in the order of the call, each
\* once and without a gap, however the call is cut at its match retries,
\* its chunks and its errors.
InOrder == executed = Upto(Len(executed))

\* A call that succeeds has put every value where the caller asked for it
\* and touched nothing else; one that fails has put no wrong value anywhere.
ReadsInPlace ==
    \A p \in Positions :
        /\ out[p] \in {0} \cup (IF IsRead(p) THEN {p} ELSE {})
        /\ result = "ok" /\ IsRead(p) => out[p] = p

\* An error means that the probe reported one, or that a batch is longer
\* than its count byte tells.  (A reset is always reported as failed: its
\* response sets no status; a SWD line is also rejected when the two ID codes
\* differ.)
NoFalseError ==
    result \in {"sticky", "internal"} /\ call.fn \notin {"Commands", "DetectSwd"} => failed

\* The proxy never takes data for a command: what it does not step over
\* comes last in every response.
ParserAligned == step = "parse" => aligned

\* A chain of at most one word of devices is counted right, and a noisy line
\* is not taken for one.
ChainCounted ==
    tdo # <<>> /\ (phase > 1 \/ result = "ok") =>
        \A n \in 1 .. WordBits : devices = n <=> Bits = {1} \X (0 .. n - 1)

\* After a detection the caller, who asks for as many ID codes as there are
\* devices, gets all of this detection or none: never some of an earlier one.
IdListWhole ==
    result = "ok" /\ call.fn \in {"DetectSwd", "DetectJtag"} /\ devices > 0 =>
        idcodes \in {0, devices}

\* A call comes to its end, whatever the probe answers: no loop over its
\* transfers, its chunks or the commands of a response goes round for ever.
CallReturns == step # "idle" ~> step = "idle"

\* The inductive invariant, in parts.  The transfers of s are the ones behind
\* position n; a configured match retry is one transfer;
Follow(s, n) == \A j \in 1 .. Len(s) : s[j] = n + j
Own(config) == IF config = 0 THEN 0 ELSE 1
Made == Len(executed)

\* where a call may be in the list of its transfers;
Placed ==
    /\ step = "idle" <=> result # "pending"
    /\ step = "build" /\ call.fn \in Singles => pos = 1
    /\ step = "build" /\ call.fn = "DetectSwd" => pos =< Total
    /\ step = "build" /\ call.fn = "DetectJtag" => phase =< 2
    /\ step \in {"probe", "parse", "check"} /\ call.fn \in Singles => pos = Total + 1

\* what is not made yet waits in the arrays of a block access,
Built == step = "build" =>
    IF call.fn = "RegAccessBlock"
    THEN /\ Made + Own(setup) + Len(batch) = pos - 1
         /\ setup # 0 => setup = Made + 1
         /\ Follow(batch, Made + Own(setup))
    ELSE Made = pos - 1

\* or in the page;
Sent == step = "probe" =>
    /\ Made + Own(page.config) + Len(page.xs) = pos - 1
    /\ page.config # 0 => page.config = Made + 1
    /\ Follow(page.xs, Made + Own(page.config))
    /\ page.n \in 0 .. Len(page.xs)
    /\ page.id \in Counting => page.count = Len(page.xs)
    /\ page.id = "WriteABORT" => page.n = Len(page.xs)
    /\ page.id \notin Counting \cup {"WriteABORT"} => page.xs = <<>>
    /\ page.id = "none" => page.config # 0

\* a response that is short of a transfer will be refused at its end;
Refused(r) ==
    \/ r.id \in Counting /\ r.n # page.count
    \/ r.id = "WriteABORT" /\ r.status # "OK"
Answers == step = "parse" =>
    /\ resp # <<>>
    /\ Made =< pos - 1
    /\ Made = pos - 1 \/ Refused(resp[Len(resp)])

\* and one that was accepted is not short.
Accepted == step = "check" => Made =< pos - 1 /\ (status = "OK" => Made = pos - 1)

RddiInductive ==
    /\ ControlTypeOK
    /\ Follow(executed, 0)
    /\ Placed
    /\ Built
    /\ Sent
    /\ Answers
    /\ Accepted

RS == INSTANCE RegSequence WITH asked <- Total, done <- Len(executed), result <- result

\* The library with its probe and parser implements RegSequence: a call
\* succeeds only when all its transfers have been made.
ImplementsRegSequence == RS!SeqSpec
=============================================================================
