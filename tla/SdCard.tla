------------------------------- MODULE SdCard -------------------------------
(***************************************************************************)
(* NEMU's SD card (nemu/src/device/sdcard.c) under the Linux driver the    *)
(* repository ships for it (nemu/resource/sdcard/nemu.c).  The card has no *)
(* interrupt and no DMA: the driver sends a command by storing to SDARG    *)
(* and SDCMD and then moves the data word by word through SDDATA, from     *)
(* within nemu_send_command()'s caller.  The callbacks of the card are the *)
(* operators Card..., the functions of the driver are the actions.         *)
(*                                                                         *)
(* A block is Words words long, and so is the extended CSD.  The scatter   *)
(* list of a request (sg) can be shorter than its blocks: the driver then  *)
(* breaks the block off with -EINVAL.                                      *)
(***************************************************************************)
EXTENDS Integers, Sequences

CONSTANTS Blocks,       \* blocks the guest reads and writes: 0 .. Blocks - 1
          Words,        \* words of a block, and of the extended CSD
          ZERO, CSD,    \* a word of the fresh image, and one of the extended CSD
          NULL

ASSUME SizeAssumption == Blocks \in Nat \ {0} /\ Words \in Nat \ {0}

VARIABLES
    (* the card *)
    arg,            \* SDARG
    sddata,         \* SDDATA
    addr,           \* addr, in words
    pos,            \* the position in the image file, in words
    write_cmd, read_ext_csd, blkcnt,
    fp,             \* whether the image could be opened
    file, size,     \* the image and its length
    (* the driver *)
    pc,             \* the function that runs next
    next,           \* the argument of nemu_send_command()
    mrq, cmd, data, \* host->mrq, cmd and data: which of them are set
    data_complete, use_sbc,
    block, left,    \* blocks to move, and words of this one
    sg,             \* words left in the scatter list
    buf,            \* words read so far
    error,          \* data->error
    warned,         \* a WARN_ON fired
    (* what the properties compare with *)
    req,            \* the last request
    was,            \* the image when it came
    clean           \* whether the card was out of the extended CSD then

image == <<fp, file, size>>
regs == <<arg, sddata, addr, pos, write_cmd, read_ext_csd, blkcnt>>
host == <<mrq, cmd, data, data_complete, use_sbc>>
pio == <<block, left, sg, buf, error>>
ghost == <<req, was, clean>>
vars == <<image, regs, host, pio, pc, next, warned, ghost>>

Positions == 0 .. Blocks * Words - 1
Word == (1 .. Blocks * Words) \cup {ZERO, CSD}

\* Requests of the MMC core: CMD18 and CMD25 with blocks, CMD8 with the
\* extended CSD, CMD13 with no data.  sbc: there is a CMD23; stop: a CMD12;
\* words: the scatter list; what is written is numbered, so that a word that
\* ends in the wrong place shows.
Lists(n) == {[i \in 1 .. len |-> i] : len \in 0 .. n * Words}
DataRequest ==
    {m \in [op : {"read", "write"}, blk : 0 .. Blocks - 1, n : 1 .. Blocks,
            sbc : BOOLEAN, stop : {TRUE}, words : Lists(Blocks)] :
       m.blk + m.n <= Blocks /\ Len(m.words) <= m.n * Words}
OtherRequest ==
    {[op |-> "csd", blk |-> 0, n |-> 1, sbc |-> FALSE, stop |-> FALSE, words |-> w] : w \in Lists(1)}
    \cup {[op |-> "status", blk |-> 0, n |-> 0, sbc |-> FALSE, stop |-> FALSE, words |-> <<>>]}
Request == DataRequest \cup OtherRequest

ASSUME NullAssumption == NULL \notin {"sbc", "cmd", "stop"} /\ NULL \notin Request
-----------------------------------------------------------------------------
(* The card: sdcard_handle_cmd() and the SDDATA case of sdcard_io_handler() *)

\* prepare_rw()
CardRw(is_write) ==
    /\ pos' = arg' * Words
    /\ addr' = 0
    /\ write_cmd' = is_write
    /\ UNCHANGED <<read_ext_csd, blkcnt>>

\* Mutant: the extended CSD goes on where the last transfer ended.
CardCsd_NoReset ==
    read_ext_csd' = TRUE /\ UNCHANGED <<pos, addr, write_cmd, blkcnt>>

CardCsd ==
    /\ read_ext_csd' = TRUE
    /\ addr' = 0
    /\ UNCHANGED <<pos, write_cmd, blkcnt>>

\* CMD23 keeps the low 16 bits of SDARG.
CountLimit == 65536

CardCmd(op) ==
    \/ op = "read" /\ CardRw(FALSE)
    \/ op = "write" /\ CardRw(TRUE)
    \/ op = "csd" /\ CardCsd
    \/ op = "sbc" /\ blkcnt' = arg' % CountLimit /\ UNCHANGED <<pos, addr, write_cmd, read_ext_csd>>
    \/ op \in {"status", "stop"} /\ UNCHANGED <<pos, addr, write_cmd, read_ext_csd, blkcnt>>

\* The callback of SDDATA; word is what the register holds when it is called.
\* It does not look at whether the guest reads or writes, and fread() at the
\* end of the image, or without one, leaves the register as it was.
CardData(word) ==
    /\ addr' = addr + 1
    /\ read_ext_csd' = (read_ext_csd /\ addr # Words - 1)
    /\ IF ~read_ext_csd /\ fp /\ write_cmd
       THEN /\ file' = [file EXCEPT ![pos] = word]
            /\ size' = IF pos < size THEN size ELSE pos + 1
            /\ pos' = pos + 1
            /\ sddata' = word
       ELSE /\ LET got == ~read_ext_csd /\ fp /\ pos < size
               IN  /\ sddata' = IF read_ext_csd THEN CSD ELSE IF got THEN file[pos] ELSE word
                   /\ pos' = IF got THEN pos + 1 ELSE pos
            /\ UNCHANGED <<file, size>>
    /\ UNCHANGED <<arg, write_cmd, blkcnt, fp>>
-----------------------------------------------------------------------------
(* The driver *)

Init ==
    /\ arg = 0 /\ sddata = ZERO /\ addr = 0 /\ pos = 0 /\ blkcnt = 0
    /\ write_cmd = FALSE /\ read_ext_csd = FALSE
    /\ fp \in BOOLEAN
    /\ size \in {Words, Blocks * Words}
    /\ file = [p \in Positions |-> ZERO]
    /\ pc = "idle" /\ next = "cmd"
    /\ mrq = FALSE /\ cmd = NULL /\ data = FALSE /\ data_complete = FALSE /\ use_sbc = FALSE
    /\ block = 0 /\ left = 0 /\ sg = 0 /\ buf = <<>> /\ error = FALSE /\ warned = FALSE
    /\ req = NULL /\ was = file /\ clean = TRUE

\* CMD23 announces the length of a read; a write is ended by CMD12.
UseSbc(m) == m.sbc /\ m.op = "read"

\* nemu_request(), up to its first nemu_send_command().
NemuRequest(m) ==
    /\ pc = "idle"
    /\ warned' = (warned \/ mrq)
    /\ mrq' = TRUE
    /\ use_sbc' = UseSbc(m)
    /\ next' = IF UseSbc(m) THEN "sbc" ELSE "cmd"
    /\ pc' = "send"
    /\ error' = FALSE /\ buf' = <<>>
    /\ sg' = Len(m.words)
    /\ req' = m /\ was' = file /\ clean' = ~read_ext_csd
    /\ UNCHANGED <<image, regs, cmd, data, data_complete, block, left>>

\* nemu_send_command() and nemu_prepare_data().
SendCommand ==
    /\ pc = "send"
    /\ warned' = (warned \/ cmd # NULL \/ data)
    /\ cmd' = next
    /\ data' = (next = "cmd" /\ req.n > 0)
    /\ data_complete' = (data_complete /\ ~data')
    /\ arg' = CASE next = "sbc" -> req.n [] next = "cmd" -> req.blk [] next = "stop" -> 0
    /\ CardCmd(IF next = "cmd" THEN req.op ELSE next)
    /\ pc' = IF data' THEN "pio" ELSE "finish"
    /\ block' = IF data' THEN req.n ELSE 0
    /\ left' = IF data' THEN Words ELSE 0
    /\ UNCHANGED <<image, sddata, next, mrq, use_sbc, sg, buf, error, ghost>>

\* A word of nemu_transfer_block_pio(): a load of SDDATA calls the card
\* before it reads the register, a store after it has written it.
PioWord ==
    /\ pc = "pio" /\ block > 0 /\ left > 0 /\ sg > 0
    /\ IF req.op = "write"
       THEN CardData(req.words[Len(req.words) - sg + 1]) /\ UNCHANGED buf
       ELSE CardData(sddata) /\ buf' = Append(buf, sddata')
    /\ left' = left - 1
    /\ sg' = sg - 1
    /\ UNCHANGED <<pc, next, host, block, error, warned, ghost>>

\* Mutant: the list running out ends the block without an error.
PioBlockEnd_NoError ==
    /\ pc = "pio" /\ block > 0 /\ (left = 0 \/ sg = 0)
    /\ block' = block - 1
    /\ left' = Words
    /\ UNCHANGED <<image, regs, host, sg, buf, error, pc, next, warned, ghost>>

\* The end of a block, or of the list; the blocks after it are tried as well.
PioBlockEnd ==
    /\ pc = "pio" /\ block > 0 /\ (left = 0 \/ sg = 0)
    /\ error' = (error \/ left > 0)
    /\ block' = block - 1
    /\ left' = Words
    /\ UNCHANGED <<image, regs, host, sg, buf, pc, next, warned, ghost>>

\* Mutant: the data is not marked complete while the command is unfinished.
FinishData_Early ==
    /\ pc = "pio" /\ block = 0
    /\ data_complete' = (cmd = NULL)
    /\ pc' = IF cmd # NULL THEN "finish" ELSE "complete"
    /\ UNCHANGED <<image, regs, mrq, cmd, data, use_sbc, pio, next, warned, ghost>>

\* nemu_finish_data(): while the command is not finished it goes on there.
FinishData ==
    /\ pc = "pio" /\ block = 0
    /\ data_complete' = TRUE
    /\ pc' = IF cmd # NULL THEN "finish" ELSE "complete"
    /\ UNCHANGED <<image, regs, mrq, cmd, data, use_sbc, pio, next, warned, ghost>>

\* nemu_finish_request()
FinishRequest == mrq' = FALSE /\ cmd' = NULL /\ data' = FALSE /\ pc' = "idle" /\ UNCHANGED next

\* Mutant: host->cmd is not cleared after CMD23.
FinishCommand_Keep ==
    /\ pc = "finish"
    /\ \/ cmd = "sbc" /\ next' = "cmd" /\ pc' = "send" /\ UNCHANGED <<mrq, cmd, data>>
       \/ cmd = "stop" /\ FinishRequest
       \/ cmd = "cmd" /\ ~data /\ FinishRequest
       \/ cmd = "cmd" /\ data /\ cmd' = NULL /\ UNCHANGED <<mrq, data, next>>
            /\ pc' = IF data_complete THEN "complete" ELSE "idle"
    /\ UNCHANGED <<image, regs, data_complete, use_sbc, pio, warned, ghost>>

\* nemu_finish_command(): after CMD23 comes the command, after CMD12 nothing;
\* after the command its data, if that is complete.
FinishCommand ==
    /\ pc = "finish"
    /\ \/ cmd = "sbc" /\ cmd' = NULL /\ next' = "cmd" /\ pc' = "send" /\ UNCHANGED <<mrq, data>>
       \/ cmd = "stop" /\ FinishRequest
       \/ cmd = "cmd" /\ ~data /\ FinishRequest
       \/ cmd = "cmd" /\ data /\ cmd' = NULL /\ UNCHANGED <<mrq, data, next>>
            /\ pc' = IF data_complete THEN "complete" ELSE "idle"
    /\ UNCHANGED <<image, regs, data_complete, use_sbc, pio, warned, ghost>>

\* nemu_transfer_complete(): CMD12 ends a transfer that was not announced, or
\* that failed.
TransferComplete ==
    /\ pc = "complete"
    /\ warned' = (warned \/ ~data_complete)
    /\ IF req.stop /\ (error \/ ~use_sbc)
       THEN data' = FALSE /\ next' = "stop" /\ pc' = "send" /\ UNCHANGED <<mrq, cmd>>
       ELSE FinishRequest
    /\ UNCHANGED <<image, regs, data_complete, use_sbc, pio, ghost>>

Driver == SendCommand \/ PioWord \/ PioBlockEnd \/ FinishData \/ FinishCommand \/ TransferComplete
Next == Driver \/ \E m \in Request : NemuRequest(m)

\* The driver runs under its mutex and waits for nobody.
Spec == Init /\ [][Next]_vars /\ WF_vars(Driver)
-----------------------------------------------------------------------------
(* Properties *)

TypeOK ==
    /\ arg \in Nat /\ sddata \in Word /\ addr \in Nat /\ pos \in 0 .. Blocks * Words
    /\ write_cmd \in BOOLEAN /\ read_ext_csd \in BOOLEAN /\ blkcnt \in Nat
    /\ fp \in BOOLEAN /\ file \in [Positions -> Word] /\ size \in 0 .. Blocks * Words
    /\ pc \in {"idle", "send", "pio", "finish", "complete"}
    /\ next \in {"sbc", "cmd", "stop"} /\ cmd \in {"sbc", "cmd", "stop", NULL}
    /\ mrq \in BOOLEAN /\ data \in BOOLEAN /\ data_complete \in BOOLEAN /\ use_sbc \in BOOLEAN
    /\ block \in 0 .. Blocks /\ left \in 0 .. Words /\ sg \in 0 .. Blocks * Words
    /\ buf \in Seq(Word) /\ error \in BOOLEAN /\ warned \in BOOLEAN
    /\ req \in Request \cup {NULL} /\ was \in [Positions -> Word] /\ clean \in BOOLEAN

Done == pc = "idle" /\ req # NULL
First == req.blk * Words

\* A request that was served without an error did what it says: a read
\* returns the blocks of the image, as far as the image has them, a write
\* changes those blocks and no other, the extended CSD comes from the card.
\* Reading the extended CSD is a mode of the card that only its last word
\* ends: the request must have found the card out of it, and a request that
\* moves data and succeeds always leaves the card out of it.
Transferred ==
    /\ Done /\ req.n > 0 /\ ~error => ~read_ext_csd
    /\ Done /\ fp /\ clean /\ ~error =>
         CASE req.op = "read" ->
                /\ file = was
                /\ Len(buf) = req.n * Words
                /\ \A i \in 1 .. Len(buf) : First + i - 1 < size => buf[i] = file[First + i - 1]
           [] req.op = "write" ->
                file = [p \in Positions |-> IF p - First \in 0 .. req.n * Words - 1
                                             THEN req.words[p - First + 1] ELSE was[p]]
           [] req.op = "csd" -> file = was /\ buf = [i \in 1 .. Words |-> CSD]
           [] req.op = "status" -> file = was

\* None of the driver's WARN_ONs: a command, its data and the request are
\* each taken back before the next one is set.
NoWarning == ~warned

\* Every request is answered, by mmc_request_done() in nemu_finish_request().
Answered == mrq ~> ~mrq
=============================================================================
