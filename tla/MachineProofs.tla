--------------------------- MODULE MachineProofs ---------------------------
(***************************************************************************)
(* The machine around a processor: the SD card under its driver, the two   *)
(* keyboards, and thread-os on the processors of the native AM.            *)
(*                                                                         *)
(* The SD card, for every number of blocks and words.  The invariant has   *)
(* three parts: the types; what the driver has set and taken back where it *)
(* is (Control); and what the words moved so far have done to the card,    *)
(* the image and the buffer (Transfer).                                    *)
(*                                                                         *)
(* Keyboard implements KeyFifo for every length of the ring and every set  *)
(* of keys.  First comes the ring alone: what a store into the free place, *)
(* a step of key_r and a step of key_f do to the sequence of keys it       *)
(* holds.  Then the mutex: one of the two threads is at the ring at a      *)
(* time, so that what the guest has read is still the oldest key when it   *)
(* moves key_f.                                                            *)
(*                                                                         *)
(* ThreadOs for every number of threads and of processors.  The invariant  *)
(* is about stacks: a thread is only ever on the stack of one processor,   *)
(* its home, and while a handler looks for another thread the context it   *)
(* saved is the place of the one it interrupted.  Mutual exclusion and the *)
(* refinement of SpinThreads follow from it, one step at a time.           *)
(***************************************************************************)
EXTENDS SdCard, Keyboard, ThreadOs, TLAPS

-----------------------------------------------------------------------------
(* The inductive invariant *)

\* What the driver holds at each point.  The data of a command are complete
\* before nemu_finish_command() looks.
Control ==
    /\ ~warned
    /\ pc = "idle" => ~mrq /\ cmd = NULL /\ ~data
    /\ pc # "idle" => mrq /\ req \in Request
    /\ pc = "send" => cmd = NULL /\ ~data
    /\ pc = "pio" => cmd = "cmd" /\ next = "cmd" /\ data /\ req.n > 0
    /\ pc = "finish" =>
         /\ cmd = next
         /\ data <=> cmd = "cmd" /\ req.n > 0
         /\ data => data_complete
    /\ pc = "complete" => data_complete /\ cmd = NULL /\ data /\ req.n > 0
    /\ use_sbc => req \in Request /\ req.op = "read"

\* The request is made, and its command not sent yet.
Before ==
    \/ pc = "send" /\ next \in {"sbc", "cmd"}
    \/ pc = "finish" /\ cmd = "sbc"

\* Words of the list that were moved, and the words that are asked for.
Moved == Len(req.words) - sg
Asked == req.n * Words

\* The image after a write of the words moved so far.
Written ==
    [p \in Positions |->
       IF p - First \in 0 .. Moved - 1 THEN req.words[p - First + 1] ELSE was[p]]

\* The card is still in the extended CSD: the request is one for it, or found
\* it there.
InCsd == (req.op = "csd" \/ ~clean) /\ Moved < Words

\* What the words moved have done, if the request found the card in order.
Effect ==
    CASE req.op = "read" ->
           /\ ~write_cmd /\ file = was /\ Len(buf) = Moved
           /\ First + Moved <= size => pos = First + Moved
           /\ First + Moved > size => pos >= size
           /\ \A i \in 1 .. Moved : First + i - 1 < size => buf[i] = file[First + i - 1]
      [] req.op = "write" -> write_cmd /\ pos = First + Moved /\ file = Written
      [] req.op = "csd" -> file = was /\ buf = [i \in 1 .. Moved |-> CSD]

Unsent ==
    /\ sg = Len(req.words) /\ buf = <<>> /\ ~error /\ file = was
    /\ clean = ~read_ext_csd

Sent ==
    /\ sg \in 0 .. Len(req.words)
    /\ addr = Moved
    /\ read_ext_csd = InCsd
    /\ req.op \in {"read", "write"} => pos <= First + Moved
    /\ fp /\ clean => Effect
    /\ ~error =>
         Moved = IF pc = "pio" THEN (req.n - block) * Words + (Words - left) ELSE Asked

\* A request without data does not touch the image.
Status == file = was

Transfer ==
    /\ pc = "pio" => block <= req.n /\ (block = 0 => left = Words)
    /\ req # NULL => IF Before THEN Unsent ELSE IF req.n > 0 THEN Sent ELSE Status

Inv == TypeOK /\ Control /\ Transfer

-----------------------------------------------------------------------------
(* Requests and words *)

LEMMA Multiples ==
  ASSUME NEW a \in Nat, NEW b \in Nat
  PROVE  /\ a * Words \in Nat /\ (a + b) * Words = a * Words + b * Words
         /\ a <= b => a * Words <= b * Words
         /\ a > 0 => a * Words >= Words
<1> USE SizeAssumption
<1>1. ASSUME NEW c \in Nat PROVE c * Words \in Nat
  OBVIOUS
<1>2. (a + b) * Words = a * Words + b * Words
  OBVIOUS
<1>3. ASSUME a <= b PROVE a * Words <= b * Words
  <2>1. (b - a) * Words = b * Words - a * Words
    OBVIOUS
  <2>2. b - a \in Nat
    BY <1>3
  <2>3. (b - a) * Words >= 0
    BY <1>1, <2>2
  <2> QED BY <1>1, <2>1, <2>3
<1>4. ASSUME a > 0 PROVE a * Words >= Words
  <2>1. (a - 1) * Words = a * Words - Words
    OBVIOUS
  <2>2. a - 1 \in Nat
    BY <1>4
  <2>3. (a - 1) * Words >= 0
    BY <1>1, <2>2
  <2> QED BY <1>1, <2>1, <2>3
<1> QED BY <1>1, <1>2, <1>3, <1>4

LEMMA ListShape ==
  ASSUME NEW n \in Nat, NEW w \in Lists(n)
  PROVE  Len(w) \in 0 .. n * Words /\ \A i \in 1 .. Len(w) : w[i] = i
<1>1. PICK len \in 0 .. n * Words : w = [i \in 1 .. len |-> i]
  BY DEF Lists
<1>2. len \in Nat
  BY Multiples
<1>3. Len(w) = len
  BY <1>1, <1>2
<1> QED BY <1>1, <1>2, <1>3

LEMMA RequestShape ==
  ASSUME NEW m \in Request
  PROVE  /\ m.op \in {"read", "write", "csd", "status"}
         /\ m.n \in 0 .. Blocks /\ m.blk \in 0 .. Blocks - 1
         /\ m.sbc \in BOOLEAN /\ m.stop \in BOOLEAN
         /\ m.op \in {"read", "write"} => m.n > 0 /\ m.blk + m.n <= Blocks
         /\ m.op = "csd" => m.n = 1
         /\ m.op = "status" <=> m.n = 0
         /\ Len(m.words) \in 0 .. m.n * Words
         /\ \A i \in 1 .. Len(m.words) : m.words[i] = i
<1>1. CASE m \in DataRequest
  <2>1. /\ m.op \in {"read", "write"} /\ m.blk \in 0 .. Blocks - 1 /\ m.n \in 1 .. Blocks
        /\ m.sbc \in BOOLEAN /\ m.stop \in {TRUE} /\ m.words \in Lists(Blocks)
        /\ m.blk + m.n <= Blocks /\ Len(m.words) <= m.n * Words
    BY <1>1 DEF DataRequest
  <2>2. Len(m.words) \in 0 .. Blocks * Words /\ \A i \in 1 .. Len(m.words) : m.words[i] = i
    BY <2>1, ListShape, SizeAssumption
  <2>3. m.n * Words \in Nat /\ Blocks * Words \in Nat
    BY <2>1, Multiples, SizeAssumption
  <2>4. Len(m.words) \in 0 .. m.n * Words
    BY <2>1, <2>2, <2>3
  <2>5. m.n > 0 /\ m.n # 0 /\ m.n \in 0 .. Blocks
    BY <2>1, SizeAssumption
  <2> QED BY <2>1, <2>2, <2>4, <2>5
<1>2. CASE m \in OtherRequest
  <2>1. ASSUME NEW w \in Lists(1),
               m = [op |-> "csd", blk |-> 0, n |-> 1, sbc |-> FALSE, stop |-> FALSE, words |-> w]
        PROVE  /\ m.op = "csd" /\ m.blk = 0 /\ m.n = 1 /\ m.sbc = FALSE /\ m.stop = FALSE
               /\ Len(m.words) \in 0 .. m.n * Words
               /\ \A i \in 1 .. Len(m.words) : m.words[i] = i
    BY <2>1, ListShape
  <2>2. ASSUME m = [op |-> "status", blk |-> 0, n |-> 0, sbc |-> FALSE, stop |-> FALSE, words |-> <<>>]
        PROVE  /\ m.op = "status" /\ m.blk = 0 /\ m.n = 0 /\ m.sbc = FALSE /\ m.stop = FALSE
               /\ Len(m.words) = 0
    BY <2>2
  <2>3. CASE m.op = "csd"
    <3>1. /\ m.blk = 0 /\ m.n = 1 /\ m.sbc = FALSE /\ m.stop = FALSE
          /\ Len(m.words) \in 0 .. m.n * Words
          /\ \A i \in 1 .. Len(m.words) : m.words[i] = i
      BY <1>2, <2>1, <2>2, <2>3 DEF OtherRequest
    <3>2. m.n \in 0 .. Blocks /\ m.blk \in 0 .. Blocks - 1
      BY <3>1, SizeAssumption
    <3>3. m.sbc \in BOOLEAN /\ m.stop \in BOOLEAN
      BY <3>1
    <3>4. m.op \in {"read", "write", "csd", "status"}
      BY <2>3
    <3>5. /\ m.op \in {"read", "write"} => m.n > 0 /\ m.blk + m.n <= Blocks
          /\ m.op = "csd" => m.n = 1
          /\ m.op = "status" <=> m.n = 0
      BY <2>3, <3>1
    <3> QED BY <3>1, <3>2, <3>3, <3>4, <3>5
  <2>4. CASE m.op = "status"
    <3>1. /\ m.blk = 0 /\ m.n = 0 /\ m.sbc = FALSE /\ m.stop = FALSE /\ Len(m.words) = 0
      BY <1>2, <2>1, <2>2, <2>4 DEF OtherRequest
    <3>2. 0 * Words = 0
      BY SizeAssumption
    <3>3. Len(m.words) \in 0 .. m.n * Words
      BY <3>1, <3>2
    <3>4. 0 \in 0 .. Blocks /\ 0 \in 0 .. Blocks - 1
      BY SizeAssumption
    <3>5. \A i \in 1 .. Len(m.words) : m.words[i] = i
      BY <3>1
    <3> QED BY <2>4, <3>1, <3>3, <3>4, <3>5
  <2> QED BY <1>2, <2>1, <2>2, <2>3, <2>4 DEF OtherRequest
<1> QED BY <1>1, <1>2 DEF Request

LEMMA ListFits ==
  ASSUME NEW m \in Request
  PROVE  Len(m.words) \in 0 .. Blocks * Words
<1>1. m.n \in 0 .. Blocks /\ Len(m.words) \in 0 .. m.n * Words
  BY RequestShape
<1>2. m.n \in Nat /\ Blocks \in Nat /\ m.n <= Blocks
  BY <1>1, SizeAssumption
<1>3. m.n * Words \in Nat /\ m.n * Words <= Blocks * Words /\ Blocks * Words \in Nat
  BY <1>2, Multiples
<1> QED BY <1>1, <1>3

\* Where the words of a request are in the image.
LEMMA InImage ==
  ASSUME NEW m \in Request, m.op \in {"read", "write"}
  PROVE  /\ m.blk * Words \in Nat /\ m.n * Words \in Nat
         /\ m.blk * Words + m.n * Words <= Blocks * Words
<1>1. m.blk \in Nat /\ m.n \in Nat /\ Blocks \in Nat /\ m.blk + m.n <= Blocks
  BY RequestShape, SizeAssumption
<1>2. m.blk + m.n \in Nat
  BY <1>1
<1> QED BY <1>1, <1>2, Multiples

-----------------------------------------------------------------------------
\* A step that moves no data and does not send the command keeps what the
\* request has done so far.
LEMMA TransferKept ==
  ASSUME Transfer, pc # "pio", pc' # "pio", Before' <=> Before,
         UNCHANGED <<fp, file, size, addr, pos, write_cmd, read_ext_csd>>,
         UNCHANGED <<sg, buf, error, req, was, clean>>
  PROVE  Transfer'
<1>1. First' = First /\ Moved' = Moved /\ Asked' = Asked /\ Written' = Written
  BY DEF First, Moved, Asked, Written
<1>2. (InCsd' = InCsd) /\ (Effect' <=> Effect)
  BY <1>1 DEF InCsd, Effect
<1>3. (Unsent' <=> Unsent) /\ (Status' <=> Status)
  BY DEF Unsent, Status
<1>4. Sent => Sent'
  BY <1>1, <1>2 DEF Sent
<1> QED BY <1>3, <1>4 DEF Transfer

-----------------------------------------------------------------------------
(* The start, and a request *)

LEMMA InitInv == Init => Inv
<1> SUFFICES ASSUME Init PROVE Inv
  OBVIOUS
<1> USE SizeAssumption
<1>1. Blocks * Words \in Nat /\ Words <= Blocks * Words
  BY Multiples
<1>2. file \in [Positions -> Word] /\ sddata \in Word
  BY DEF Init, Word
<1>3. TypeOK
  <2>1. /\ arg \in Nat /\ addr \in Nat /\ blkcnt \in Nat /\ pos \in 0 .. Blocks * Words
        /\ size \in 0 .. Blocks * Words /\ sg \in 0 .. Blocks * Words
        /\ block \in 0 .. Blocks /\ left \in 0 .. Words
    BY <1>1 DEF Init
  <2>2. /\ write_cmd \in BOOLEAN /\ read_ext_csd \in BOOLEAN /\ fp \in BOOLEAN
        /\ mrq \in BOOLEAN /\ data \in BOOLEAN /\ data_complete \in BOOLEAN
        /\ use_sbc \in BOOLEAN /\ error \in BOOLEAN /\ warned \in BOOLEAN /\ clean \in BOOLEAN
    BY DEF Init
  <2>3. /\ pc = "idle" /\ next = "cmd" /\ cmd = NULL /\ req = NULL
        /\ buf \in Seq(Word) /\ was \in [Positions -> Word]
    BY <1>2 DEF Init
  <2> QED BY <1>2, <2>1, <2>2, <2>3 DEF TypeOK
<1>4. Control /\ Transfer
  BY DEF Init, Control, Transfer
<1> QED BY <1>3, <1>4 DEF Inv

LEMMA NemuRequestInv ==
  ASSUME Inv, NEW m \in Request, NemuRequest(m)
  PROVE  Inv'
<1> USE SizeAssumption
<1>1. TypeOK /\ pc = "idle" /\ ~mrq /\ cmd = NULL /\ ~data /\ ~warned
  BY DEF NemuRequest, Inv, Control
<1>2. /\ UNCHANGED <<arg, sddata, addr, pos, write_cmd, read_ext_csd, blkcnt>>
      /\ UNCHANGED <<fp, file, size, cmd, data, data_complete, block, left>>
      /\ pc' = "send" /\ mrq' = TRUE /\ error' = FALSE /\ buf' = <<>>
      /\ sg' = Len(m.words) /\ req' = m /\ was' = file
  BY DEF NemuRequest, image, regs
<1>3. Len(m.words) \in 0 .. Blocks * Words
  BY ListFits
<1>4. /\ warned' = FALSE
      /\ use_sbc' \in BOOLEAN /\ (use_sbc' => m.op = "read")
      /\ next' \in {"sbc", "cmd"}
      /\ clean' \in BOOLEAN /\ clean' = ~read_ext_csd
  <2>1. warned' = FALSE
    BY <1>1 DEF NemuRequest, TypeOK
  <2>2. m.sbc \in BOOLEAN
    BY RequestShape
  <2>3. use_sbc' \in BOOLEAN /\ (use_sbc' => m.op = "read")
    BY <2>2 DEF NemuRequest, UseSbc
  <2>4. next' \in {"sbc", "cmd"}
    BY DEF NemuRequest
  <2>5. clean' \in BOOLEAN /\ clean' = ~read_ext_csd
    BY DEF NemuRequest
  <2> QED BY <2>1, <2>3, <2>4, <2>5
<1>5. buf' \in Seq(Word)
  BY <1>2
<1>6. TypeOK'
  BY <1>1, <1>2, <1>3, <1>4, <1>5 DEF TypeOK
<1>7. Control'
  BY <1>1, <1>2, <1>4 DEF Control
<1>8. Before' /\ Unsent'
  BY <1>1, <1>2, <1>4 DEF Before, Unsent
<1>9. Transfer'
  BY <1>2, <1>8 DEF Transfer
<1> QED BY <1>6, <1>7, <1>9 DEF Inv

-----------------------------------------------------------------------------
(* A command *)

LEMMA CountNat == ASSUME NEW a \in Nat PROVE a % CountLimit \in Nat
<1>1. CountLimit \in Nat /\ CountLimit > 0
  BY SMT DEF CountLimit
<1> QED BY <1>1

LEMMA CardCmdType ==
  ASSUME TypeOK, arg' \in Nat, arg' * Words \in 0 .. Blocks * Words,
         NEW op, CardCmd(op)
  PROVE  /\ pos' \in 0 .. Blocks * Words /\ addr' \in Nat /\ blkcnt' \in Nat
         /\ write_cmd' \in BOOLEAN /\ read_ext_csd' \in BOOLEAN
<1>1. /\ pos \in 0 .. Blocks * Words /\ addr \in Nat /\ blkcnt \in Nat
      /\ write_cmd \in BOOLEAN /\ read_ext_csd \in BOOLEAN
  BY DEF TypeOK
<1>2. CASE op = "read" /\ CardRw(FALSE)
  BY <1>1, <1>2 DEF CardRw
<1>3. CASE op = "write" /\ CardRw(TRUE)
  BY <1>1, <1>3 DEF CardRw
<1>4. CASE op = "csd" /\ CardCsd
  BY <1>1, <1>4 DEF CardCsd
<1>5. CASE op = "sbc" /\ blkcnt' = arg' % CountLimit /\ UNCHANGED <<pos, addr, write_cmd, read_ext_csd>>
  BY <1>1, <1>5, CountNat
<1>6. CASE op \in {"status", "stop"} /\ UNCHANGED <<pos, addr, write_cmd, read_ext_csd, blkcnt>>
  BY <1>1, <1>6
<1> QED BY <1>2, <1>3, <1>4, <1>5, <1>6 DEF CardCmd

\* The command that announces the blocks, and the one that ends a transfer.
LEMMA SendOtherInv ==
  ASSUME Inv, SendCommand, next \in {"sbc", "stop"}
  PROVE  Inv'
<1> USE SizeAssumption
<1>1. /\ UNCHANGED <<fp, file, size, sddata, next, mrq, use_sbc, sg, buf, error, req, was, clean>>
      /\ pc = "send" /\ cmd' = next
      /\ arg' = CASE next = "sbc" -> req.n [] next = "cmd" -> req.blk [] next = "stop" -> 0
      /\ warned' = (warned \/ cmd # NULL \/ data)
      /\ CardCmd(next)
  BY DEF SendCommand, image, ghost
<1>2. data' = FALSE /\ pc' = "finish" /\ block' = 0 /\ left' = 0
  BY DEF SendCommand
<1>3. /\ UNCHANGED <<pos, addr, write_cmd, read_ext_csd>>
      /\ next = "stop" => UNCHANGED blkcnt
      /\ next = "sbc" => blkcnt' = arg' % CountLimit
  BY <1>1 DEF CardCmd
<1>4. /\ TypeOK /\ Control /\ Transfer
      /\ ~warned /\ mrq /\ req \in Request /\ cmd = NULL /\ ~data
  BY <1>1 DEF Inv, Control
<1>5. arg' \in Nat
  BY <1>1, <1>4, RequestShape
<1>6. blkcnt' \in Nat
  BY <1>3, <1>4, <1>5, CountNat DEF TypeOK
<1>7. data_complete' \in BOOLEAN
  BY DEF SendCommand
<1>8. TypeOK'
  <2>1. UNCHANGED <<fp, file, size, sddata, pos, addr, write_cmd, read_ext_csd>>
    BY <1>1, <1>3
  <2>2. UNCHANGED <<next, mrq, use_sbc, sg, buf, error, req, was, clean>>
    BY <1>1
  <2>3. warned' = FALSE /\ cmd' = next
    BY <1>1, <1>4
  <2>4. block' \in 0 .. Blocks /\ left' \in 0 .. Words
    BY <1>2
  <2> QED BY <1>2, <1>4, <1>5, <1>6, <1>7, <2>1, <2>2, <2>3, <2>4 DEF TypeOK
<1>9. Control'
  BY <1>1, <1>2, <1>4 DEF Control
<1>10. Before' <=> Before
  BY <1>1, <1>2 DEF Before
<1>11. Transfer'
  BY <1>1, <1>2, <1>3, <1>4, <1>10, TransferKept
<1> QED BY <1>8, <1>9, <1>11 DEF Inv

\* The command of the request: nothing is moved yet.
LEMMA SendCmdInv ==
  ASSUME Inv, SendCommand, next = "cmd"
  PROVE  Inv'
<1> USE SizeAssumption
<1>1. /\ UNCHANGED <<image, sddata, next, mrq, use_sbc, sg, buf, error, ghost>>
      /\ pc = "send" /\ cmd' = "cmd" /\ arg' = req.blk /\ CardCmd(req.op)
      /\ warned' = (warned \/ cmd # NULL \/ data)
  BY DEF SendCommand
<1>2. /\ TypeOK /\ Control /\ req \in Request /\ cmd = NULL /\ ~data
      /\ sg = Len(req.words) /\ buf = <<>> /\ ~error /\ file = was /\ clean = ~read_ext_csd
  <2>1. TypeOK /\ Control /\ Transfer
    BY DEF Inv
  <2>2. req \in Request /\ cmd = NULL /\ ~data
    BY <1>1, <2>1 DEF Control
  <2>3. Before
    BY <1>1 DEF Before
  <2>4. req # NULL
    BY <2>2, NullAssumption
  <2> QED BY <2>1, <2>2, <2>3, <2>4 DEF Transfer, Unsent
<1>3. /\ req.n \in 0 .. Blocks /\ req.blk \in 0 .. Blocks - 1
      /\ req.op \in {"read", "write", "csd", "status"}
      /\ req.op = "status" <=> req.n = 0
      /\ Len(req.words) \in 0 .. req.n * Words
  BY <1>2, RequestShape
<1>4. req.blk * Words \in 0 .. Blocks * Words /\ 0 * Words = 0
  BY <1>3, Multiples
<1>5. UNCHANGED <<fp, file, size, req, was, clean>>
  BY <1>1 DEF image, ghost
<1>6. /\ data' \in BOOLEAN /\ (data' <=> req.n > 0)
      /\ data_complete' \in BOOLEAN
      /\ pc' = (IF req.n > 0 THEN "pio" ELSE "finish")
      /\ block' = (IF req.n > 0 THEN req.n ELSE 0) /\ left' = (IF req.n > 0 THEN Words ELSE 0)
  <2>1. data' \in BOOLEAN /\ (data' <=> req.n > 0)
    BY DEF SendCommand
  <2>2. data_complete' \in BOOLEAN
    BY DEF SendCommand
  <2> QED BY <2>1, <2>2 DEF SendCommand
<1>7. TypeOK'
  <2>1. /\ pos' \in 0 .. Blocks * Words /\ addr' \in Nat /\ blkcnt' \in Nat
        /\ write_cmd' \in BOOLEAN /\ read_ext_csd' \in BOOLEAN
    BY <1>1, <1>2, <1>3, <1>4, CardCmdType
  <2>2. /\ UNCHANGED <<fp, file, size, sddata>>
        /\ UNCHANGED <<next, mrq, use_sbc, sg, buf, error, req, was, clean>>
    BY <1>1, <1>5
  <2>3. warned' = FALSE /\ cmd' = "cmd" /\ arg' \in Nat
    <3>1. warned' = FALSE
      BY <1>1, <1>2 DEF Control
    <3>2. arg' = req.blk /\ req.blk \in Nat
      BY <1>1, <1>3
    <3> QED BY <1>1, <3>1, <3>2
  <2>4. /\ block' \in 0 .. Blocks /\ left' \in 0 .. Words /\ pc' \in {"pio", "finish"}
        /\ data' \in BOOLEAN /\ data_complete' \in BOOLEAN
    <3>1. CASE req.n > 0
      BY <1>3, <1>6, <3>1
    <3>2. CASE ~(req.n > 0)
      BY <1>6, <3>2
    <3> QED BY <3>1, <3>2
  <2> QED BY <1>2, <2>1, <2>2, <2>3, <2>4 DEF TypeOK
<1>8. Control'
  BY <1>1, <1>2, <1>3, <1>5, <1>6 DEF Control
<1>9. ~Before' /\ (pc' = "pio" => block' <= req'.n /\ block' # 0)
  BY <1>1, <1>3, <1>5, <1>6 DEF Before
<1>10. CASE req.n > 0
  <2>1. Moved' = 0 /\ First' = First /\ First = req.blk * Words /\ First \in Nat
    BY <1>1, <1>2, <1>3, <1>4, <1>5 DEF Moved, First
  <2>2. addr' = 0
    BY <1>1, <1>3, <1>10 DEF CardCmd, CardRw, CardCsd
  <2>3. read_ext_csd' \in BOOLEAN /\ (read_ext_csd' <=> req.op = "csd" \/ ~clean)
    <3>1. read_ext_csd \in BOOLEAN /\ clean \in BOOLEAN
      BY <1>2 DEF TypeOK
    <3>2. read_ext_csd' = (read_ext_csd \/ req.op = "csd")
      BY <1>1, <1>3, <1>10, <3>1 DEF CardCmd, CardRw, CardCsd
    <3> QED BY <1>2, <3>1, <3>2
  <2>4. read_ext_csd' = InCsd'
    <3>1. InCsd' <=> (req.op = "csd" \/ ~clean)
      BY <1>5, <2>1 DEF InCsd
    <3>2. InCsd' \in BOOLEAN
      BY DEF InCsd
    <3> QED BY <2>3, <3>1, <3>2
  <2>5. ASSUME req.op = "read" PROVE pos' = First /\ ~write_cmd' /\ Effect'
    <3>1. pos' = First /\ ~write_cmd'
      BY <1>1, <2>1, <2>5 DEF CardCmd, CardRw
    <3>2. Len(buf') = 0
      BY <1>1, <1>2
    <3> QED BY <1>1, <1>2, <1>5, <2>1, <2>5, <3>1, <3>2 DEF Effect, TypeOK
  <2>6. ASSUME req.op = "write" PROVE pos' = First /\ Effect'
    <3>1. pos' = First /\ write_cmd'
      BY <1>1, <2>1, <2>6 DEF CardCmd, CardRw
    <3>2. \A p \in Positions : ~(p - First \in 0 .. 0 - 1)
      BY <2>1, Multiples DEF Positions
    <3>3. was = [p \in Positions |-> was[p]]
      BY <1>2 DEF TypeOK
    <3>4. Written' = was
      BY <1>5, <2>1, <3>2, <3>3 DEF Written
    <3> QED BY <1>1, <1>2, <1>5, <2>1, <2>6, <3>1, <3>4 DEF Effect
  <2>7. ASSUME req.op = "csd" PROVE Effect'
    <3>1. buf' = [i \in 1 .. 0 |-> CSD]
      BY <1>1, <1>2
    <3> QED BY <1>1, <1>2, <1>5, <2>1, <2>7, <3>1 DEF Effect
  <2>8. Effect' /\ (req.op \in {"read", "write"} => pos' <= First' + Moved')
    BY <1>3, <1>10, <2>1, <2>5, <2>6, <2>7
  <2>9. Moved' = (req'.n - block') * Words + (Words - left')
    BY <1>3, <1>4, <1>5, <1>6, <1>10, <2>1
  <2>10. Sent'
    BY <1>1, <1>2, <1>3, <1>5, <1>6, <1>10, <2>1, <2>2, <2>4, <2>8, <2>9 DEF Sent
  <2> QED BY <1>5, <1>6, <1>7, <1>8, <1>9, <1>10, <2>10 DEF Inv, Transfer
<1>11. CASE ~(req.n > 0)
  BY <1>2, <1>5, <1>6, <1>7, <1>8, <1>9, <1>11 DEF Inv, Transfer, Status
<1> QED BY <1>10, <1>11

-----------------------------------------------------------------------------
(* A word: what the callback of SDDATA does, by the mode of the card *)

LEMMA CardDataCommon ==
  ASSUME NEW word, CardData(word)
  PROVE  /\ addr' = addr + 1
         /\ read_ext_csd' = (read_ext_csd /\ addr # Words - 1)
         /\ arg' = arg /\ write_cmd' = write_cmd /\ blkcnt' = blkcnt /\ fp' = fp
BY DEF CardData

LEMMA CardDataCsd ==
  ASSUME NEW word, CardData(word), read_ext_csd
  PROVE  sddata' = CSD /\ pos' = pos /\ file' = file /\ size' = size
BY DEF CardData

LEMMA CardDataWrite ==
  ASSUME NEW word, CardData(word), ~read_ext_csd, fp /\ write_cmd
  PROVE  /\ file' = [file EXCEPT ![pos] = word]
         /\ size' = IF pos < size THEN size ELSE pos + 1
         /\ sddata' = word /\ pos' = pos + 1
BY DEF CardData

LEMMA CardDataRead ==
  ASSUME NEW word, CardData(word), ~read_ext_csd, ~(fp /\ write_cmd)
  PROVE  /\ file' = file /\ size' = size
         /\ fp /\ pos < size => sddata' = file[pos] /\ pos' = pos + 1
         /\ ~(fp /\ pos < size) => sddata' = word /\ pos' = pos
BY DEF CardData

\* The driver in the middle of the data: where the list, the block and the
\* image stand.
LEMMA InPio ==
  ASSUME Inv, pc = "pio"
  PROVE  /\ TypeOK /\ Control /\ Sent
         /\ req \in Request /\ req # NULL /\ req.n \in Nat /\ req.n > 0 /\ block <= req.n
         /\ req.op \in {"read", "write", "csd"}
         /\ mrq /\ ~warned /\ cmd = "cmd" /\ data
         /\ Moved \in Nat /\ First \in Nat /\ Asked \in Nat
         /\ Words <= Asked /\ sg + Moved <= Asked
         /\ req.op \in {"read", "write"} => First + Asked <= Blocks * Words
<1>1. /\ TypeOK /\ Control /\ Transfer
      /\ req \in Request /\ req.n > 0 /\ mrq /\ ~warned /\ cmd = "cmd" /\ data
  BY DEF Inv, Control
<1>2. req # NULL /\ ~Before
  BY <1>1, NullAssumption DEF Before
<1>3. Sent /\ block <= req.n
  BY <1>1, <1>2 DEF Transfer
<1>4. /\ req.n \in 0 .. Blocks /\ req.blk \in 0 .. Blocks - 1
      /\ req.op \in {"read", "write", "csd"}
      /\ Len(req.words) \in 0 .. req.n * Words
  BY <1>1, RequestShape
<1>5. req.n \in Nat /\ req.blk \in Nat
  BY <1>4, SizeAssumption
<1>6. Asked \in Nat /\ First \in Nat /\ Words <= Asked
  BY <1>1, <1>5, Multiples, SizeAssumption DEF Asked, First
<1>7. sg \in 0 .. Len(req.words)
  BY <1>3 DEF Sent
<1>8. Moved \in Nat /\ sg + Moved <= Asked
  BY <1>4, <1>6, <1>7 DEF Moved, Asked
<1>9. req.op \in {"read", "write"} => First + Asked <= Blocks * Words
  BY <1>1, InImage DEF First, Asked
<1> QED BY <1>1, <1>2, <1>3, <1>4, <1>5, <1>6, <1>8, <1>9

\* The card after a word: its counter is that of the driver, the position
\* stays inside the image.
LEMMA PioWordCard ==
  ASSUME Inv, pc = "pio", sg > 0, Moved' = Moved + 1, req' = req, clean' = clean,
         NEW word \in Word, CardData(word)
  PROVE  /\ addr' = Moved' /\ read_ext_csd' = InCsd'
         /\ pos' \in 0 .. Blocks * Words /\ size' \in 0 .. Blocks * Words
         /\ file' \in [Positions -> Word] /\ sddata' \in Word
         /\ req.op \in {"read", "write"} => pos' <= First + Moved'
<1> USE SizeAssumption
<1>1. /\ TypeOK /\ Sent /\ Moved \in Nat /\ First \in Nat /\ Asked \in Nat
      /\ req \in Request /\ req.op \in {"read", "write", "csd"}
      /\ sg + Moved <= Asked
      /\ req.op \in {"read", "write"} => First + Asked <= Blocks * Words
  BY InPio
<1>2. /\ addr = Moved /\ read_ext_csd = InCsd
      /\ req.op \in {"read", "write"} => pos <= First + Moved
  BY <1>1 DEF Sent
<1>3. addr' = Moved'
  BY <1>2, CardDataCommon
<1>4. read_ext_csd' = InCsd'
  <2>1. Moved < Words /\ Moved # Words - 1 <=> Moved + 1 < Words
    BY <1>1
  <2>2. read_ext_csd' = (InCsd /\ Moved # Words - 1)
    BY <1>2, CardDataCommon
  <2> QED BY <2>1, <2>2 DEF InCsd
<1>5. /\ pos \in 0 .. Blocks * Words /\ size \in 0 .. Blocks * Words
      /\ file \in [Positions -> Word] /\ sg \in 0 .. Blocks * Words
  BY <1>1 DEF TypeOK
<1>6. CASE read_ext_csd
  BY <1>1, <1>2, <1>3, <1>4, <1>5, <1>6, CardDataCsd DEF Word
<1>7. CASE ~read_ext_csd
  <2>1. Blocks * Words \in Nat
    BY Multiples
  <2>2. req.op # "csd"
    <3>1. ASSUME req.op = "csd" PROVE FALSE
      <4>1. ~(Moved < Words)
        BY <1>2, <1>7, <3>1 DEF InCsd
      <4>2. req.n = 1
        BY <1>1, <3>1, RequestShape
      <4>3. Asked = Words
        BY <4>2 DEF Asked
      <4> QED BY <1>1, <1>5, <2>1, <4>1, <4>3
    <3> QED BY <3>1
  <2>3. First + Moved + 1 <= Blocks * Words /\ pos <= First + Moved
    BY <1>1, <1>2, <1>5, <2>1, <2>2
  <2>4. pos \in Positions /\ pos + 1 \in 0 .. Blocks * Words
    BY <1>1, <1>5, <2>1, <2>3 DEF Positions
  <2>5. CASE fp /\ write_cmd
    <3>1. /\ file' = [file EXCEPT ![pos] = word] /\ sddata' = word /\ pos' = pos + 1
          /\ size' = IF pos < size THEN size ELSE pos + 1
      BY <1>7, <2>5, CardDataWrite
    <3>2. file' \in [Positions -> Word]
      BY <1>5, <3>1
    <3>3. size' \in 0 .. Blocks * Words
      BY <1>5, <2>4, <3>1
    <3>4. pos' <= First + Moved'
      BY <1>1, <1>5, <2>1, <2>3, <3>1
    <3> QED BY <1>3, <1>4, <2>4, <3>1, <3>2, <3>3, <3>4
  <2>6. CASE ~(fp /\ write_cmd)
    <3>1. /\ file' = file /\ size' = size
          /\ fp /\ pos < size => sddata' = file[pos] /\ pos' = pos + 1
          /\ ~(fp /\ pos < size) => sddata' = word /\ pos' = pos
      BY <1>7, <2>6, CardDataRead
    <3>2. file[pos] \in Word
      BY <1>5, <2>4
    <3>3. sddata' \in Word /\ (pos' = pos \/ pos' = pos + 1)
      BY <3>1, <3>2
    <3>4. pos' <= First + Moved'
      BY <1>1, <1>5, <2>1, <2>3, <3>3
    <3> QED BY <1>3, <1>4, <1>5, <2>4, <3>1, <3>3, <3>4
  <2> QED BY <2>5, <2>6
<1> QED BY <1>6, <1>7

\* What a word does to the buffer and the image, if the request found the card
\* in order.
LEMMA PioWordRead ==
  ASSUME Inv, PioWord, Moved' = Moved + 1, req' = req, fp, clean, req.op = "read"
  PROVE  Effect'
<1>1. /\ pc = "pio" /\ sg > 0 /\ CardData(sddata) /\ buf' = Append(buf, sddata') /\ was' = was
  BY DEF PioWord, ghost
<1>2. TypeOK /\ Sent /\ Moved \in Nat /\ First \in Nat
  BY <1>1, InPio
<1>3. /\ ~write_cmd /\ file = was /\ Len(buf) = Moved
      /\ First + Moved <= size => pos = First + Moved
      /\ First + Moved > size => pos >= size
      /\ \A i \in 1 .. Moved : First + i - 1 < size => buf[i] = file[First + i - 1]
  BY <1>2 DEF Sent, Effect
<1>4. ~read_ext_csd
  BY <1>2 DEF Sent, InCsd
<1>5. /\ write_cmd' = write_cmd /\ file' = file /\ size' = size
      /\ pos < size => sddata' = file[pos] /\ pos' = pos + 1
      /\ ~(pos < size) => pos' = pos
  BY <1>1, <1>3, <1>4, CardDataCommon, CardDataRead
<1>6. size \in Nat /\ pos \in Nat /\ buf \in Seq(Word)
  BY <1>2, Multiples, SizeAssumption DEF TypeOK
<1>7. /\ Len(buf') = Moved + 1 /\ buf'[Moved + 1] = sddata'
      /\ \A i \in 1 .. Moved : buf'[i] = buf[i]
  BY <1>1, <1>2, <1>3, <1>6
<1>8. First' = First
  BY DEF First
<1>9. /\ First + (Moved + 1) <= size => pos' = First + (Moved + 1)
      /\ First + (Moved + 1) > size => pos' >= size
      /\ First + (Moved + 1) - 1 < size => sddata' = file[First + (Moved + 1) - 1]
  <2>1. CASE First + Moved < size
    <3>1. pos = First + Moved /\ pos < size
      BY <1>2, <1>3, <1>6, <2>1
    <3>2. First + (Moved + 1) - 1 = pos
      BY <1>2, <3>1
    <3> QED BY <1>2, <1>5, <1>6, <2>1, <3>1, <3>2
  <2>2. CASE ~(First + Moved < size)
    <3>1. pos >= size
      BY <1>2, <1>3, <1>6, <2>2
    <3> QED BY <1>2, <1>5, <1>6, <2>2, <3>1
  <2> QED BY <2>1, <2>2
<1>10. ASSUME NEW i \in 1 .. Moved + 1, First + i - 1 < size
       PROVE  buf'[i] = file[First + i - 1]
  <2>1. CASE i = Moved + 1
    BY <1>7, <1>9, <1>10, <2>1
  <2>2. CASE i # Moved + 1
    <3>1. i \in 1 .. Moved
      BY <1>2, <2>2
    <3> QED BY <1>3, <1>7, <1>10, <3>1
  <2> QED BY <2>1, <2>2
<1> QED BY <1>1, <1>3, <1>5, <1>7, <1>8, <1>9, <1>10 DEF Effect

LEMMA PioWordWrite ==
  ASSUME Inv, PioWord, Moved' = Moved + 1, req' = req, fp, clean, req.op = "write"
  PROVE  Effect'
<1> DEFINE word == req.words[Len(req.words) - sg + 1]
<1>1. /\ pc = "pio" /\ sg > 0 /\ CardData(word) /\ was' = was
  BY DEF PioWord, ghost
<1>2. TypeOK /\ Sent /\ Moved \in Nat /\ First \in Nat /\ Asked \in Nat
      /\ sg + Moved <= Asked /\ First + Asked <= Blocks * Words
  BY <1>1, InPio
<1>3. write_cmd /\ pos = First + Moved /\ file = Written
  BY <1>2 DEF Sent, Effect
<1>4. ~read_ext_csd
  BY <1>2 DEF Sent, InCsd
<1>5. /\ write_cmd' = write_cmd /\ file' = [file EXCEPT ![pos] = word] /\ pos' = pos + 1
  BY <1>1, <1>3, <1>4, CardDataCommon, CardDataWrite
<1>6. word = req.words[Moved + 1]
  BY DEF Moved
<1>7. First' = First
  BY DEF First
<1>8. pos' = First' + Moved'
  BY <1>2, <1>3, <1>5, <1>7
<1>9. Written' = [p \in Positions |->
                    IF p - First \in 0 .. Moved' - 1 THEN req.words[p - First + 1] ELSE was[p]]
  BY <1>1, <1>7 DEF Written
<1>10. ASSUME NEW p \in Positions
       PROVE  file'[p] = IF p - First \in 0 .. Moved' - 1 THEN req.words[p - First + 1] ELSE was[p]
  <2>1. p \in Int
    BY SizeAssumption, Multiples DEF Positions
  <2>2. file[p] = IF p - First \in 0 .. Moved - 1 THEN req.words[p - First + 1] ELSE was[p]
    BY <1>3 DEF Written
  <2>3. file'[p] = IF p = pos THEN word ELSE file[p]
    BY <1>2, <1>5 DEF TypeOK
  <2>4. CASE p = pos
    <3>1. p - First = Moved
      BY <1>2, <1>3, <2>1, <2>4
    <3> QED BY <1>2, <1>6, <2>3, <2>4, <3>1
  <2>5. CASE p # pos
    <3>1. p - First \in 0 .. Moved' - 1 <=> p - First \in 0 .. Moved - 1
      BY <1>2, <1>3, <2>1, <2>5
    <3> QED BY <2>2, <2>3, <2>5, <3>1
  <2> QED BY <2>4, <2>5
<1>11. file' = [p \in Positions |-> file'[p]]
  BY <1>2, <1>5 DEF TypeOK
<1>12. file' = Written'
  BY <1>9, <1>10, <1>11
<1> QED BY <1>3, <1>5, <1>8, <1>12 DEF Effect

LEMMA PioWordCsd ==
  ASSUME Inv, PioWord, Moved' = Moved + 1, req' = req, fp, clean, req.op = "csd"
  PROVE  Effect'
<1>1. /\ pc = "pio" /\ sg > 0 /\ CardData(sddata) /\ buf' = Append(buf, sddata') /\ was' = was
  BY DEF PioWord, ghost
<1>2. TypeOK /\ Sent /\ Moved \in Nat /\ Asked \in Nat /\ sg + Moved <= Asked /\ req \in Request
  BY <1>1, InPio
<1>3. file = was /\ buf = [i \in 1 .. Moved |-> CSD]
  BY <1>2 DEF Sent, Effect
<1>4. Asked = Words
  BY <1>2, RequestShape, SizeAssumption DEF Asked
<1>5. sg \in Nat
  BY <1>2, Multiples, SizeAssumption DEF TypeOK
<1>6. read_ext_csd
  <2>1. Moved < Words
    BY <1>1, <1>2, <1>4, <1>5, SizeAssumption
  <2>2. InCsd
    BY <2>1 DEF InCsd
  <2> QED BY <1>2, <2>2 DEF Sent
<1>7. file' = file /\ sddata' = CSD
  BY <1>1, <1>6, CardDataCsd
<1>8. buf' = [i \in 1 .. Moved + 1 |-> CSD]
  BY <1>1, <1>2, <1>3, <1>7
<1> QED BY <1>1, <1>3, <1>7, <1>8 DEF Effect

LEMMA PioWordInv ==
  ASSUME Inv, PioWord
  PROVE  Inv'
<1> USE SizeAssumption
<1>1. /\ pc = "pio" /\ block > 0 /\ left > 0 /\ sg > 0
      /\ left' = left - 1 /\ sg' = sg - 1
      /\ pc' = pc /\ next' = next /\ block' = block /\ error' = error /\ warned' = warned
      /\ mrq' = mrq /\ cmd' = cmd /\ data' = data
      /\ data_complete' = data_complete /\ use_sbc' = use_sbc
      /\ req' = req /\ was' = was /\ clean' = clean
  BY DEF PioWord, host, ghost
<1>2. /\ TypeOK /\ Control /\ Sent
      /\ req \in Request /\ req # NULL /\ req.n \in Nat /\ req.n > 0 /\ block <= req.n
      /\ req.op \in {"read", "write", "csd"}
      /\ Moved \in Nat /\ Asked \in Nat /\ sg + Moved <= Asked
  BY <1>1, InPio
<1>3. sg \in Nat /\ left \in 0 .. Words /\ block \in 0 .. Blocks /\ sg \in 0 .. Blocks * Words
  BY <1>2, Multiples DEF TypeOK
<1>4. sg \in 0 .. Len(req.words) /\ Len(req.words) \in Nat
  BY <1>2, RequestShape, Multiples DEF Sent
<1>5. Moved' = Moved + 1 /\ Asked' = Asked /\ First' = First
  BY <1>1, <1>4 DEF Moved, Asked, First
<1> DEFINE word == IF req.op = "write" THEN req.words[Len(req.words) - sg + 1] ELSE sddata
<1>6. CardData(word) /\ buf' = IF req.op = "write" THEN buf ELSE Append(buf, sddata')
  BY DEF PioWord
<1>7. word \in Word
  <2>1. CASE req.op = "write"
    <3>1. Moved + 1 \in 1 .. Len(req.words)
      BY <1>1, <1>2, <1>4 DEF Moved
    <3>2. word = Moved + 1
      <4>1. word = req.words[Moved + 1]
        BY <2>1 DEF Moved
      <4>2. \A i \in 1 .. Len(req.words) : req.words[i] = i
        BY <1>2, RequestShape
      <4> QED BY <3>1, <4>1, <4>2
    <3>3. Len(req.words) \in 0 .. Blocks * Words
      BY <1>2, ListFits
    <3>4. Blocks * Words \in Nat
      BY Multiples
    <3> QED BY <1>4, <3>1, <3>2, <3>3, <3>4 DEF Word
  <2>2. CASE req.op # "write"
    BY <1>2, <2>2 DEF TypeOK
  <2> QED BY <2>1, <2>2
<1> HIDE DEF word
<1>8. /\ addr' = Moved' /\ read_ext_csd' = InCsd'
      /\ pos' \in 0 .. Blocks * Words /\ size' \in 0 .. Blocks * Words
      /\ file' \in [Positions -> Word] /\ sddata' \in Word
      /\ req.op \in {"read", "write"} => pos' <= First + Moved'
  BY <1>1, <1>5, <1>6, <1>7, PioWordCard
<1>9. arg' = arg /\ write_cmd' = write_cmd /\ blkcnt' = blkcnt /\ fp' = fp
  BY <1>6, CardDataCommon
<1>10. TypeOK'
  <2>1. buf' \in Seq(Word)
    BY <1>2, <1>6, <1>8 DEF TypeOK
  <2>2. addr' \in Nat /\ read_ext_csd' \in BOOLEAN
    BY <1>2, <1>5, <1>8 DEF InCsd
  <2>3. left' \in 0 .. Words /\ sg' \in 0 .. Blocks * Words
    BY <1>1, <1>3
  <2> QED BY <1>1, <1>2, <1>8, <1>9, <2>1, <2>2, <2>3 DEF TypeOK
<1>11. Control'
  BY <1>1, <1>2 DEF Control
<1>12. fp' /\ clean' => Effect'
  BY <1>1, <1>2, <1>5, <1>9, PioWordRead, PioWordWrite, PioWordCsd
<1>13. ~error' => Moved' = (req'.n - block') * Words + (Words - left')
  <2>1. (req.n - block) * Words \in Nat
    BY <1>2, <1>3, Multiples
  <2>2. ~error => Moved = (req.n - block) * Words + (Words - left)
    BY <1>1, <1>2 DEF Sent
  <2> QED BY <1>1, <1>2, <1>3, <1>5, <2>1, <2>2
<1>14. sg' \in 0 .. Len(req'.words)
  BY <1>1, <1>4
<1>15. Sent'
  BY <1>1, <1>5, <1>8, <1>12, <1>13, <1>14 DEF Sent
<1>16. Transfer'
  BY <1>1, <1>2, <1>3, <1>15 DEF Transfer, Before
<1> QED BY <1>10, <1>11, <1>16 DEF Inv

-----------------------------------------------------------------------------
(* The end of a block, of the data and of the request *)

\* A block that was broken off is an error; otherwise its words are counted.
LEMMA PioBlockEndInv ==
  ASSUME Inv, PioBlockEnd
  PROVE  Inv'
<1> USE SizeAssumption
<1>1. /\ pc = "pio" /\ block > 0 /\ (left = 0 \/ sg = 0)
      /\ error' = (error \/ left > 0) /\ block' = block - 1 /\ left' = Words
      /\ UNCHANGED <<fp, file, size, arg, sddata, addr, pos, write_cmd, read_ext_csd, blkcnt>>
      /\ UNCHANGED <<mrq, cmd, data, data_complete, use_sbc, sg, buf, pc, next, warned>>
      /\ UNCHANGED <<req, was, clean>>
  BY DEF PioBlockEnd, image, regs, host, ghost
<1>2. /\ TypeOK /\ Control /\ Sent
      /\ req \in Request /\ req # NULL /\ req.n \in Nat /\ block <= req.n
      /\ Moved \in Nat
  BY <1>1, InPio
<1>3. block \in 0 .. Blocks /\ left \in 0 .. Words
  BY <1>2 DEF TypeOK
<1>4. error' \in BOOLEAN /\ (~error' => ~error /\ left = 0)
  <2>1. error \in BOOLEAN
    BY <1>2 DEF TypeOK
  <2>2. error' \in BOOLEAN /\ (~error' => ~error /\ ~(left > 0))
    BY <1>1, <2>1
  <2> QED BY <1>3, <2>2
<1>5. TypeOK'
  BY <1>1, <1>2, <1>3, <1>4 DEF TypeOK
<1>6. Control'
  BY <1>1, <1>2 DEF Control
<1>7. First' = First /\ Moved' = Moved /\ Asked' = Asked /\ Written' = Written
  BY <1>1 DEF First, Moved, Asked, Written
<1>8. (InCsd' = InCsd) /\ (Effect' <=> Effect)
  BY <1>1, <1>7 DEF InCsd, Effect
<1>9. ~error' => Moved' = (req'.n - block') * Words + (Words - left')
  <2>1. req.n - block \in Nat
    BY <1>2, <1>3
  <2>2. (req.n - block + 1) * Words = (req.n - block) * Words + 1 * Words
    BY <2>1, Multiples
  <2>3. req.n - block + 1 = req.n - (block - 1)
    BY <1>2, <1>3
  <2>4. ~error => Moved = (req.n - block) * Words + (Words - left)
    BY <1>1, <1>2 DEF Sent
  <2>5. (req.n - block) * Words \in Nat /\ 1 * Words = Words
    BY <2>1, Multiples
  <2> QED BY <1>1, <1>2, <1>4, <1>7, <2>2, <2>3, <2>4, <2>5
<1>10. Sent'
  BY <1>1, <1>2, <1>7, <1>8, <1>9 DEF Sent
<1>11. Transfer'
  BY <1>1, <1>2, <1>3, <1>10 DEF Transfer, Before
<1> QED BY <1>5, <1>6, <1>11 DEF Inv

\* After the last block all the words that were asked for have been moved, if
\* none was broken off.
LEMMA FinishDataInv ==
  ASSUME Inv, FinishData
  PROVE  Inv'
<1> USE SizeAssumption
<1>1. /\ pc = "pio" /\ block = 0 /\ data_complete' = TRUE
      /\ pc' = IF cmd # NULL THEN "finish" ELSE "complete"
      /\ UNCHANGED <<fp, file, size, arg, sddata, addr, pos, write_cmd, read_ext_csd, blkcnt>>
      /\ UNCHANGED <<mrq, cmd, data, use_sbc, block, left, sg, buf, error, next, warned>>
      /\ UNCHANGED <<req, was, clean>>
  BY DEF FinishData, image, regs, pio, ghost
<1>2. /\ TypeOK /\ Control /\ Transfer /\ Sent
      /\ req \in Request /\ req # NULL /\ req.n \in Nat /\ req.n > 0
      /\ cmd = "cmd" /\ Moved \in Nat
  BY <1>1, InPio DEF Inv
<1>3. pc' = "finish"
  BY <1>1, <1>2, NullAssumption
<1>4. TypeOK'
  BY <1>1, <1>2, <1>3 DEF TypeOK
<1>5. cmd = next
  BY <1>1, <1>2 DEF Control
<1>6. Control'
  BY <1>1, <1>2, <1>3, <1>5 DEF Control
<1>7. First' = First /\ Moved' = Moved /\ Asked' = Asked /\ Written' = Written
  BY <1>1 DEF First, Moved, Asked, Written
<1>8. (InCsd' = InCsd) /\ (Effect' <=> Effect)
  BY <1>1, <1>7 DEF InCsd, Effect
<1>9. ~error => Moved = Asked
  <2>1. left = Words
    BY <1>1, <1>2 DEF Transfer
  <2>2. ~error => Moved = (req.n - 0) * Words + (Words - Words)
    BY <1>1, <1>2, <2>1 DEF Sent
  <2> QED BY <1>2, <2>2, Multiples DEF Asked
<1>10. Sent'
  BY <1>1, <1>2, <1>3, <1>7, <1>8, <1>9 DEF Sent
<1>11. Transfer'
  BY <1>1, <1>2, <1>3, <1>10 DEF Transfer, Before
<1> QED BY <1>4, <1>6, <1>11 DEF Inv

LEMMA FinishCommandInv ==
  ASSUME Inv, FinishCommand
  PROVE  Inv'
<1> USE SizeAssumption
<1>1. /\ pc = "finish"
      /\ UNCHANGED <<fp, file, size, arg, sddata, addr, pos, write_cmd, read_ext_csd, blkcnt>>
      /\ UNCHANGED <<data_complete, use_sbc, block, left, sg, buf, error, warned, req, was, clean>>
  BY DEF FinishCommand, image, regs, pio, ghost
<1>2. /\ TypeOK /\ Control /\ Transfer /\ req \in Request /\ mrq /\ ~warned
      /\ cmd = next /\ (data <=> cmd = "cmd" /\ req.n > 0) /\ (data => data_complete)
  BY <1>1 DEF Inv, Control
<1>3. /\ mrq' \in BOOLEAN /\ data' \in BOOLEAN /\ cmd' = NULL
      /\ next' \in {"sbc", "cmd", "stop"} /\ pc' \in {"send", "idle", "complete"}
      /\ pc' = "send" <=> cmd = "sbc"
      /\ pc' = "send" => mrq' /\ ~data' /\ next' = "cmd"
      /\ pc' = "idle" => ~mrq' /\ ~data'
      /\ pc' = "complete" => mrq' /\ data' /\ data_complete /\ req.n > 0
  <2>1. CASE cmd = "sbc" /\ cmd' = NULL /\ next' = "cmd" /\ pc' = "send" /\ UNCHANGED <<mrq, data>>
    <3>1. mrq \in BOOLEAN /\ data \in BOOLEAN
      BY <1>2 DEF TypeOK
    <3> QED BY <1>2, <2>1, <3>1
  <2>2. CASE cmd = "stop" /\ FinishRequest
    BY <1>2, <2>2 DEF FinishRequest
  <2>3. CASE cmd = "cmd" /\ ~data /\ FinishRequest
    BY <1>2, <2>3 DEF FinishRequest
  <2>4. CASE /\ cmd = "cmd" /\ data /\ cmd' = NULL /\ UNCHANGED <<mrq, data, next>>
             /\ pc' = IF data_complete THEN "complete" ELSE "idle"
    BY <1>2, <2>4
  <2> QED BY <2>1, <2>2, <2>3, <2>4 DEF FinishCommand
<1>4. TypeOK'
  BY <1>1, <1>2, <1>3 DEF TypeOK
<1>5. Control'
  BY <1>1, <1>2, <1>3 DEF Control
<1>6. Before' <=> Before
  BY <1>1, <1>3 DEF Before
<1>7. Transfer'
  BY <1>1, <1>2, <1>3, <1>6, TransferKept
<1> QED BY <1>4, <1>5, <1>7 DEF Inv

LEMMA TransferCompleteInv ==
  ASSUME Inv, TransferComplete
  PROVE  Inv'
<1> USE SizeAssumption
<1>1. /\ pc = "complete" /\ warned' = (warned \/ ~data_complete)
      /\ UNCHANGED <<fp, file, size, arg, sddata, addr, pos, write_cmd, read_ext_csd, blkcnt>>
      /\ UNCHANGED <<data_complete, use_sbc, block, left, sg, buf, error, req, was, clean>>
  BY DEF TransferComplete, image, regs, pio, ghost
<1>2. /\ TypeOK /\ Control /\ Transfer /\ req \in Request /\ mrq /\ ~warned
      /\ data_complete /\ cmd = NULL
  BY <1>1 DEF Inv, Control
<1>3. /\ mrq' \in BOOLEAN /\ data' = FALSE /\ cmd' = NULL /\ warned' = FALSE
      /\ next' \in {"sbc", "cmd", "stop"} /\ pc' \in {"send", "idle"}
      /\ pc' = "send" => mrq' /\ next' = "stop"
      /\ pc' = "idle" => ~mrq'
  <2>1. warned' = FALSE
    BY <1>1, <1>2
  <2>2. next \in {"sbc", "cmd", "stop"} /\ mrq \in BOOLEAN
    BY <1>2 DEF TypeOK
  <2>3. CASE req.stop /\ (error \/ ~use_sbc)
    BY <1>2, <2>1, <2>2, <2>3 DEF TransferComplete
  <2>4. CASE ~(req.stop /\ (error \/ ~use_sbc))
    BY <1>2, <2>1, <2>2, <2>4 DEF TransferComplete, FinishRequest
  <2> QED BY <2>3, <2>4
<1>4. TypeOK'
  BY <1>1, <1>2, <1>3 DEF TypeOK
<1>5. Control'
  BY <1>1, <1>2, <1>3 DEF Control
<1>6. Before' <=> Before
  BY <1>1, <1>3 DEF Before
<1>7. Transfer'
  BY <1>1, <1>2, <1>3, <1>6, TransferKept
<1> QED BY <1>4, <1>5, <1>7 DEF Inv

LEMMA StutterInv ==
  ASSUME Inv, UNCHANGED vars
  PROVE  Inv'
<1>1. /\ UNCHANGED <<fp, file, size, arg, sddata, addr, pos, write_cmd, read_ext_csd, blkcnt>>
      /\ UNCHANGED <<mrq, cmd, data, data_complete, use_sbc, block, left, sg, buf, error>>
      /\ UNCHANGED <<pc, next, warned, req, was, clean>>
  BY DEF vars, image, regs, host, pio, ghost
<1>2. TypeOK'
  BY <1>1 DEF Inv, TypeOK
<1>3. Control'
  BY <1>1 DEF Inv, Control
<1>4. First' = First /\ Moved' = Moved /\ Asked' = Asked /\ Written' = Written
  BY <1>1 DEF First, Moved, Asked, Written
<1>5. (InCsd' = InCsd) /\ (Effect' <=> Effect) /\ (Unsent' <=> Unsent) /\ (Status' <=> Status)
  BY <1>1, <1>4 DEF InCsd, Effect, Unsent, Status
<1>6. Sent => Sent'
  BY <1>1, <1>4, <1>5 DEF Sent
<1>7. Transfer'
  BY <1>1, <1>5, <1>6 DEF Inv, Transfer, Before
<1> QED BY <1>2, <1>3, <1>7 DEF Inv

LEMMA NextInv == Inv /\ [Next]_vars => Inv'
<1> SUFFICES ASSUME Inv, [Next]_vars PROVE Inv'
  OBVIOUS
<1>1. CASE SendCommand
  <2>1. next \in {"sbc", "cmd", "stop"}
    BY DEF Inv, TypeOK
  <2> QED BY <1>1, <2>1, SendOtherInv, SendCmdInv
<1>2. CASE PioWord
  BY <1>2, PioWordInv
<1>3. CASE PioBlockEnd
  BY <1>3, PioBlockEndInv
<1>4. CASE FinishData
  BY <1>4, FinishDataInv
<1>5. CASE FinishCommand
  BY <1>5, FinishCommandInv
<1>6. CASE TransferComplete
  BY <1>6, TransferCompleteInv
<1>7. CASE \E m \in Request : NemuRequest(m)
  BY <1>7, NemuRequestInv
<1>8. CASE UNCHANGED vars
  BY <1>8, StutterInv
<1> QED BY <1>1, <1>2, <1>3, <1>4, <1>5, <1>6, <1>7, <1>8 DEF Next, Driver

-----------------------------------------------------------------------------
(* The theorems *)

LEMMA SpecInv == Spec => []Inv
BY InitInv, NextInv, PTL DEF Spec

\* What the invariant says of a request that is done.
LEMMA InvTransferred == Inv => Transferred
<1> SUFFICES ASSUME Inv, Done PROVE
      /\ req.n > 0 /\ ~error => ~read_ext_csd
      /\ fp /\ clean /\ ~error =>
           CASE req.op = "read" ->
                  /\ file = was
                  /\ Len(buf) = req.n * Words
                  /\ \A i \in 1 .. Len(buf) : First + i - 1 < size => buf[i] = file[First + i - 1]
             [] req.op = "write" ->
                  file = [p \in Positions |-> IF p - First \in 0 .. req.n * Words - 1
                                               THEN req.words[p - First + 1] ELSE was[p]]
             [] req.op = "csd" -> file = was /\ buf = [i \in 1 .. Words |-> CSD]
             [] req.op = "status" -> file = was
  BY DEF Transferred
<1> USE SizeAssumption
<1>1. /\ TypeOK /\ Transfer /\ ~Before /\ pc = "idle" /\ req # NULL /\ req \in Request
  BY DEF Inv, TypeOK, Done, Before
<1>2. /\ req.op \in {"read", "write", "csd", "status"} /\ req.n \in 0 .. Blocks
      /\ req.op = "csd" => req.n = 1
      /\ req.op = "status" <=> req.n = 0
  BY <1>1, RequestShape
<1>3. CASE req.n > 0
  <2>1. Sent
    BY <1>1, <1>3 DEF Transfer
  <2>2. Asked \in Nat /\ Words <= Asked
    BY <1>2, <1>3, Multiples DEF Asked
  <2>3. ~error => Moved = Asked
    BY <1>1, <2>1 DEF Sent
  <2>4. ~error => ~read_ext_csd
    <3>1. ~error => ~(Moved < Words)
      BY <2>2, <2>3
    <3> QED BY <2>1, <3>1 DEF Sent, InCsd
  <2>5. ASSUME fp, clean, ~error, req.op = "read"
        PROVE  /\ file = was /\ Len(buf) = req.n * Words
               /\ \A i \in 1 .. Len(buf) : First + i - 1 < size => buf[i] = file[First + i - 1]
    BY <2>1, <2>3, <2>5 DEF Sent, Effect, Asked
  <2>6. ASSUME fp, clean, ~error, req.op = "write"
        PROVE  file = [p \in Positions |-> IF p - First \in 0 .. req.n * Words - 1
                                            THEN req.words[p - First + 1] ELSE was[p]]
    <3>1. file = Written
      BY <2>1, <2>6 DEF Sent, Effect
    <3>2. Moved = req.n * Words
      BY <2>3, <2>6 DEF Asked
    <3> QED BY <3>1, <3>2 DEF Written
  <2>7. ASSUME fp, clean, ~error, req.op = "csd"
        PROVE  file = was /\ buf = [i \in 1 .. Words |-> CSD]
    <3>1. file = was /\ buf = [i \in 1 .. Moved |-> CSD]
      BY <2>1, <2>7 DEF Sent, Effect
    <3>2. Moved = Words
      BY <1>2, <2>3, <2>7 DEF Asked
    <3> QED BY <3>1, <3>2
  <2>8. req.op # "status"
    BY <1>2, <1>3
  <2> QED BY <1>2, <1>3, <2>4, <2>5, <2>6, <2>7, <2>8
<1>4. CASE ~(req.n > 0)
  <2>1. file = was
    BY <1>1, <1>4 DEF Transfer, Status
  <2>2. req.op = "status"
    BY <1>2, <1>4
  <2> QED BY <1>4, <2>1, <2>2
<1> QED BY <1>3, <1>4

\* The state of card and driver stays in its types: the position never leaves
\* the image.
THEOREM SdCard_Type == Spec => []TypeOK
<1>1. Inv => TypeOK
  BY DEF Inv
<1> QED BY SpecInv, <1>1, PTL

\* The driver's WARN_ONs never fire, for any number of blocks.
THEOREM SdCard_NoWarning == Spec => []NoWarning
<1>1. Inv => NoWarning
  BY DEF Inv, Control, NoWarning
<1> QED BY SpecInv, <1>1, PTL

\* A request that found the card in order and was served without an error did
\* what it says, for every size of the image and of a block.
THEOREM SdCard_Transferred == Spec => []Transferred
BY SpecInv, InvTransferred, PTL

-----------------------------------------------------------------------------
(* The keyboards: the ring *)


USE LenAssumption, KeysAssumption

\* The ring's terms for any state of its three variables.
UsedOf(f, r) == IF f <= r THEN r - f ELSE r + KeyQueueLen - f
SlotOf(f, i) == IF f + i - 1 < KeyQueueLen THEN f + i - 1 ELSE f + i - 1 - KeyQueueLen
RingOf(q, f, r) == [i \in 1 .. UsedOf(f, r) |-> q[SlotOf(f, i)]]

Queues == [Slots -> Keys \cup {NONE}]

LEMMA RingIs ==
  /\ Ring = RingOf(key_queue, key_f, key_r)
  /\ Ring' = RingOf(key_queue', key_f', key_r')
BY DEF Ring, RingOf, Used, UsedOf, Slot, SlotOf

\* The code's remainder is a wrap.
LEMMA Wrap ==
  ASSUME NEW a \in Slots
  PROVE  /\ (a + 1) % KeyQueueLen = IF a + 1 = KeyQueueLen THEN 0 ELSE a + 1
         /\ (a + 1) % KeyQueueLen \in Slots
<1>1. CASE a + 1 = KeyQueueLen
  BY <1>1 DEF Slots
<1>2. CASE a + 1 # KeyQueueLen
  <2>1. a + 1 \in 0 .. KeyQueueLen - 1
    BY <1>2 DEF Slots
  <2>2. (a + 1) % KeyQueueLen = a + 1
    BY <2>1
  <2> QED
    BY <2>1, <2>2, <1>2 DEF Slots
<1> QED
  BY <1>1, <1>2

\* The places of the ring's keys, and that the free place is none of them.
LEMMA SlotType ==
  ASSUME NEW f \in Slots, NEW r \in Slots, NEW i \in 1 .. UsedOf(f, r)
  PROVE  SlotOf(f, i) \in Slots /\ SlotOf(f, i) # r
BY DEF Slots, UsedOf, SlotOf

LEMMA UsedType ==
  ASSUME NEW f \in Slots, NEW r \in Slots
  PROVE  UsedOf(f, r) \in 0 .. KeyQueueLen - 1
BY DEF Slots, UsedOf

LEMMA RingType ==
  ASSUME NEW q \in Queues, NEW f \in Slots, NEW r \in Slots
  PROVE  /\ RingOf(q, f, r) \in Seq(Keys \cup {NONE})
         /\ Len(RingOf(q, f, r)) = UsedOf(f, r)
<1>1. UsedOf(f, r) \in Nat
  BY UsedType
<1>2. RingOf(q, f, r) \in [1 .. UsedOf(f, r) -> Keys \cup {NONE}]
  BY SlotType DEF RingOf, Queues
<1> QED
  BY <1>1, <1>2

\* Storing into the free place changes no key of the ring.
LEMMA StoreKeeps ==
  ASSUME NEW q \in Queues, NEW f \in Slots, NEW r \in Slots, NEW x
  PROVE  RingOf([q EXCEPT ![r] = x], f, r) = RingOf(q, f, r)
BY SlotType DEF RingOf, Queues

\* Moving key_r appends the key of the place it leaves, or, if that was the
\* last place, empties the ring.
LEMMA PushRing ==
  ASSUME NEW q \in Queues, NEW f \in Slots, NEW r \in Slots, NEW s, s = (r + 1) % KeyQueueLen
  PROVE  /\ s \in Slots
         /\ s # f => /\ UsedOf(f, r) < KeyQueueLen - 1
                     /\ RingOf(q, f, s) = Append(RingOf(q, f, r), q[r])
         /\ s = f => /\ UsedOf(f, r) = KeyQueueLen - 1
                     /\ RingOf(q, f, s) = <<>>
<1>1. s \in Slots /\ s = IF r + 1 = KeyQueueLen THEN 0 ELSE r + 1
  BY Wrap
<1>2. ASSUME s = f
      PROVE  UsedOf(f, r) = KeyQueueLen - 1 /\ RingOf(q, f, s) = <<>>
  <2>1. UsedOf(f, r) = KeyQueueLen - 1 /\ UsedOf(f, s) = 0
    BY <1>1, <1>2 DEF UsedOf, Slots
  <2>2. RingOf(q, f, s) \in Seq(Keys \cup {NONE}) /\ Len(RingOf(q, f, s)) = 0
    BY <2>1, <1>1, RingType
  <2> QED
    BY <2>1, <2>2
<1>3. ASSUME s # f
      PROVE  UsedOf(f, r) < KeyQueueLen - 1 /\ RingOf(q, f, s) = Append(RingOf(q, f, r), q[r])
  <2>1. UsedOf(f, s) = UsedOf(f, r) + 1 /\ UsedOf(f, r) \in Nat /\ UsedOf(f, r) < KeyQueueLen - 1
    BY <1>1, <1>3 DEF UsedOf, Slots
  <2>2. SlotOf(f, UsedOf(f, r) + 1) = r
    BY <1>1, <1>3 DEF UsedOf, SlotOf, Slots
  <2>3. RingOf(q, f, r) \in Seq(Keys \cup {NONE}) /\ Len(RingOf(q, f, r)) = UsedOf(f, r)
    BY RingType
  <2>4. Append(RingOf(q, f, r), q[r])
          = [i \in 1 .. UsedOf(f, r) + 1 |-> IF i = UsedOf(f, r) + 1 THEN q[r] ELSE RingOf(q, f, r)[i]]
    BY <2>1, <2>3
  <2>5. \A i \in 1 .. UsedOf(f, r) : RingOf(q, f, r)[i] = q[SlotOf(f, i)]
    BY DEF RingOf
  <2>6. \A i \in 1 .. UsedOf(f, r) + 1 :
           q[SlotOf(f, i)] = IF i = UsedOf(f, r) + 1 THEN q[r] ELSE RingOf(q, f, r)[i]
    BY <2>1, <2>2, <2>5
  <2>7. RingOf(q, f, s) = [i \in 1 .. UsedOf(f, r) + 1 |-> q[SlotOf(f, i)]]
    BY <2>1 DEF RingOf
  <2>8. RingOf(q, f, s) = Append(RingOf(q, f, r), q[r])
    BY <2>4, <2>6, <2>7
  <2> QED
    BY <2>1, <2>8
<1> QED
  BY <1>1, <1>2, <1>3

\* Moving key_f takes the oldest key away.
LEMMA PopRing ==
  ASSUME NEW q \in Queues, NEW f \in Slots, NEW r \in Slots, f # r,
         NEW g, g = (f + 1) % KeyQueueLen
  PROVE  /\ g \in Slots
         /\ UsedOf(f, r) > 0
         /\ RingOf(q, f, r) = <<q[f]>> \o RingOf(q, g, r)
         /\ RingOf(q, g, r) = Tail(RingOf(q, f, r))
<1>1. g \in Slots /\ g = IF f + 1 = KeyQueueLen THEN 0 ELSE f + 1
  BY Wrap
<1>2. UsedOf(f, r) \in Nat /\ UsedOf(f, r) > 0 /\ UsedOf(g, r) = UsedOf(f, r) - 1
  BY <1>1 DEF UsedOf, Slots
<1>3. /\ RingOf(q, f, r) \in Seq(Keys \cup {NONE}) /\ Len(RingOf(q, f, r)) = UsedOf(f, r)
      /\ RingOf(q, g, r) \in Seq(Keys \cup {NONE}) /\ Len(RingOf(q, g, r)) = UsedOf(g, r)
  BY <1>1, RingType
<1>4. SlotOf(f, 1) = f
  BY DEF SlotOf, Slots
<1>5. \A i \in 1 .. UsedOf(g, r) : SlotOf(g, i) = SlotOf(f, i + 1)
  BY <1>1, <1>2 DEF SlotOf, UsedOf, Slots
<1>6. RingOf(q, f, r)[1] = q[f]
  BY <1>2, <1>4 DEF RingOf
<1>7. \A i \in 1 .. UsedOf(g, r) : RingOf(q, g, r)[i] = RingOf(q, f, r)[i + 1]
  BY <1>2, <1>5 DEF RingOf
<1>8. RingOf(q, g, r) = Tail(RingOf(q, f, r))
  BY <1>2, <1>3, <1>7
<1>9. RingOf(q, f, r) = <<q[f]>> \o RingOf(q, g, r)
  BY <1>2, <1>3, <1>6, <1>7, <1>8
<1> QED
  BY <1>1, <1>2, <1>8, <1>9
-----------------------------------------------------------------------------
(* The mutex *)

Places ==
    /\ kind \in {"nemu", "am"}
    /\ key_queue \in Queues /\ key_f \in Slots /\ key_r \in Slots
    /\ alive \in BOOLEAN
    /\ lock \in {"free", "event", "guest"}
    /\ ev \in {"wait", "lock", "store", "advance", "unlock"}
    /\ gu \in {"idle", "test", "advance", "unlock"}
    /\ code \in Keys \cup {NONE} /\ k \in Keys \cup {NONE}

\* NEMU has one thread and no mutex; the AM has no assertion.
OneThread == kind = "nemu" => ev = "wait" /\ gu = "idle"
NoAssert == kind = "am" => alive

\* Who is past the mutex holds it.
Held ==
    /\ ev \in {"store", "advance", "unlock"} <=> lock = "event"
    /\ gu \in {"test", "advance", "unlock"} <=> lock = "guest"

\* What the two threads know of the ring between their steps.
Pressed == ev # "wait" => code \in Keys
Stored == ev = "advance" => key_queue[key_r] = code
Oldest == gu = "advance" => key_f # key_r /\ k = key_queue[key_f]

Nothing == gu = "unlock" /\ k = NONE => key_f = key_r

\* A place in use holds a key.
InUse == Ring \in Seq(Keys)

RingInv == Places /\ OneThread /\ NoAssert /\ Held /\ Pressed /\ Stored /\ Oldest /\ Nothing /\ InUse

LEMMA AppendKeys ==
  ASSUME NEW s \in Seq(Keys), NEW key \in Keys
  PROVE  Append(s, key) \in Seq(Keys) /\ <<>> \in Seq(Keys)
OBVIOUS

LEMMA RingInit == KeyboardInit => RingInv
<1> SUFFICES ASSUME KeyboardInit PROVE RingInv
  OBVIOUS
<1>1. 0 \in Slots /\ key_queue \in Queues
  BY DEF KeyboardInit, Slots, Queues
<1>2. Ring = <<>>
  BY DEF KeyboardInit, Ring, Used
<1> QED
  BY <1>1, <1>2 DEF KeyboardInit, RingInv, Places, OneThread, NoAssert, Held, Pressed, Stored, Oldest, Nothing, InUse

\* A key that goes into the ring and the step of key_r, in one step (NEMU) or
\* in two (the AM).
LEMMA KeyEnqueueInv ==
  ASSUME RingInv, NEW key \in Keys, KeyEnqueue(key)
  PROVE  RingInv'
<1>1. key_queue' \in Queues /\ key_f' \in Slots /\ key_r' \in Slots /\ key_queue'[key_r] = key
  BY Wrap DEF RingInv, Places, KeyEnqueue, Queues
<1>2. RingOf(key_queue', key_f, key_r) = RingOf(key_queue, key_f, key_r)
  BY StoreKeeps DEF RingInv, Places, KeyEnqueue
<1>3. Ring' = Append(Ring, key) \/ Ring' = <<>>
  <2>1. key_f' = key_f /\ key_r' = (key_r + 1) % KeyQueueLen /\ key_f \in Slots /\ key_r \in Slots
    BY DEF RingInv, Places, KeyEnqueue
  <2>2. \/ RingOf(key_queue', key_f, key_r') = Append(RingOf(key_queue', key_f, key_r), key_queue'[key_r])
        \/ RingOf(key_queue', key_f, key_r') = <<>>
    BY <1>1, <2>1, PushRing
  <2> QED
    BY <1>1, <1>2, <2>1, <2>2, RingIs
<1>4. InUse'
  BY <1>3, AppendKeys DEF RingInv, InUse
<1> QED
  BY <1>1, <1>4 DEF KeyEnqueue, RingInv, Places, OneThread, NoAssert, Held, Pressed, Stored, Oldest, Nothing

LEMMA EventStoreInv ==
  ASSUME RingInv, EventStore
  PROVE  RingInv' /\ Ring' = Ring
<1>1. key_queue' \in Queues /\ key_queue'[key_r] = code
  BY DEF RingInv, Places, EventStore, Queues
<1>2. Ring' = Ring
  BY StoreKeeps, RingIs DEF RingInv, Places, EventStore
<1>3. gu \notin {"advance", "unlock"}
  BY DEF RingInv, Held, EventStore
<1> QED
  BY <1>1, <1>2, <1>3 DEF EventStore, RingInv, Places, OneThread, NoAssert, Held, Pressed, Stored, Oldest, Nothing, InUse

LEMMA EventAdvanceInv ==
  ASSUME RingInv, EventAdvance
  PROVE  RingInv'
<1>1. key_r' \in Slots /\ key_r' = (key_r + 1) % KeyQueueLen
  BY Wrap DEF RingInv, Places, EventAdvance
<1>2. Ring' = Append(Ring, code) \/ Ring' = <<>>
  <2>1. /\ key_f' = key_f /\ key_queue' = key_queue /\ key_queue[key_r] = code
        /\ key_queue \in Queues /\ key_f \in Slots /\ key_r \in Slots
    BY DEF RingInv, Places, Stored, EventAdvance
  <2>2. \/ RingOf(key_queue, key_f, key_r') = Append(RingOf(key_queue, key_f, key_r), key_queue[key_r])
        \/ RingOf(key_queue, key_f, key_r') = <<>>
    BY <1>1, <2>1, PushRing
  <2> QED
    BY <2>1, <2>2, RingIs
<1>3. code \in Keys
  BY DEF RingInv, Pressed, EventAdvance
<1>4. gu \notin {"advance", "unlock"}
  BY DEF RingInv, Held, EventAdvance
<1>5. InUse'
  BY <1>2, <1>3, AppendKeys DEF RingInv, InUse
<1> QED
  BY <1>1, <1>4, <1>5 DEF EventAdvance, RingInv, Places, OneThread, NoAssert, Held, Pressed, Stored, Oldest, Nothing

\* The oldest key is a key, and what is behind it is the ring without it.
LEMMA OldestKey ==
  ASSUME RingInv, key_f # key_r, NEW g, g = (key_f + 1) % KeyQueueLen
  PROVE  /\ g \in Slots
         /\ key_queue[key_f] \in Keys
         /\ Ring = <<key_queue[key_f]>> \o RingOf(key_queue, g, key_r)
         /\ RingOf(key_queue, g, key_r) = Tail(Ring)
         /\ RingOf(key_queue, g, key_r) \in Seq(Keys)
         /\ Ring # <<>> /\ Head(Ring) = key_queue[key_f]
<1> DEFINE R == RingOf(key_queue, g, key_r)
<1>1. key_queue \in Queues /\ key_f \in Slots /\ key_r \in Slots
  BY DEF RingInv, Places
<1>2. g \in Slots /\ Ring = <<key_queue[key_f]>> \o R /\ R = Tail(Ring)
  BY <1>1, PopRing, RingIs, SMTT(30)
<1>3. R \in Seq(Keys \cup {NONE})
  BY <1>1, <1>2, RingType
<1>4. key_queue[key_f] \in Keys \cup {NONE}
  BY <1>1 DEF Queues
<1> HIDE DEF R
<1>5. Ring \in Seq(Keys)
  BY DEF RingInv, InUse
<1>6. Ring # <<>> /\ Head(Ring) = key_queue[key_f] /\ Len(Ring) > 0 /\ Ring[1] = key_queue[key_f]
  BY <1>2, <1>3, <1>4
<1>7. Tail(Ring) \in Seq(Keys)
  BY <1>5, <1>6
<1>8. key_queue[key_f] \in Keys
  BY <1>5, <1>6
<1> QED
  BY <1>2, <1>6, <1>7, <1>8 DEF R

LEMMA GuestTestInv ==
  ASSUME RingInv, GuestTest
  PROVE  RingInv' /\ Ring' = Ring
<1>1. Ring' = Ring
  BY DEF GuestTest, Ring, Used, Slot
<1>2. key_f # key_r => key_queue[key_f] \in Keys
  BY OldestKey
<1> QED
  BY <1>1, <1>2 DEF GuestTest, RingInv, Places, OneThread, NoAssert, Held, Pressed, Stored, Oldest, Nothing, InUse

LEMMA GuestAdvanceInv ==
  ASSUME RingInv, GuestAdvance
  PROVE  RingInv' /\ k # NONE /\ Ring = <<k>> \o Ring'
<1>1. key_f # key_r /\ k = key_queue[key_f] /\ key_f' = (key_f + 1) % KeyQueueLen
  BY DEF RingInv, Oldest, GuestAdvance
<1>2. Ring' = RingOf(key_queue, key_f', key_r)
  BY RingIs DEF GuestAdvance
<1>3. InUse' /\ k \in Keys /\ key_f' \in Slots /\ Ring = <<k>> \o Ring'
  BY <1>1, <1>2, OldestKey DEF InUse
<1>4. ev \notin {"store", "advance", "unlock"}
  BY DEF RingInv, Held, GuestAdvance
<1> QED
  BY <1>3, <1>4 DEF GuestAdvance, RingInv, Places, OneThread, NoAssert, Held, Pressed, Stored, Oldest, Nothing

LEMMA KeyDequeueInv ==
  ASSUME RingInv, KeyDequeue
  PROVE  /\ RingInv'
         /\ key_f = key_r => Ring' = Ring /\ kbd' = NONE
         /\ key_f # key_r => Ring # <<>> /\ Ring' = Tail(Ring) /\ kbd' = Head(Ring)
<1>1. CASE key_f = key_r
  <2>1. Ring' = Ring
    BY <1>1 DEF KeyDequeue, Ring, Used, Slot
  <2> QED
    BY <1>1, <2>1 DEF KeyDequeue, RingInv, Places, OneThread, NoAssert, Held, Pressed, Stored, Oldest, Nothing, InUse
<1>2. CASE key_f # key_r
  <2>1. key_f' = (key_f + 1) % KeyQueueLen /\ Ring' = RingOf(key_queue, key_f', key_r)
    BY <1>2, RingIs DEF KeyDequeue
  <2>2. /\ InUse' /\ key_f' \in Slots
        /\ Ring # <<>> /\ Ring' = Tail(Ring) /\ Head(Ring) = key_queue[key_f]
    BY <1>2, <2>1, OldestKey DEF InUse
  <2> QED
    BY <1>2, <2>2 DEF KeyDequeue, RingInv, Places, OneThread, NoAssert, Held, Pressed, Stored, Oldest, Nothing
<1> QED
  BY <1>1, <1>2

\* The steps that only move a thread leave the ring alone.
LEMMA RingMove ==
  ASSUME RingInv, \/ EventLock \/ EventUnlock \/ GuestLock \/ GuestUnlock
              \/ \E key \in Keys : Wait(key)
  PROVE  RingInv' /\ Ring' = Ring
<1>1. Ring' = Ring
  BY DEF Ring, Used, Slot, EventLock, EventUnlock, GuestLock, GuestUnlock, Wait
<1>2. CASE EventLock \/ EventUnlock
  BY <1>1, <1>2
     DEF EventLock, EventUnlock, RingInv, Places, OneThread, NoAssert, Held, Pressed, Stored, Oldest, Nothing, InUse
<1>3. CASE GuestLock \/ GuestUnlock
  BY <1>1, <1>3
     DEF GuestLock, GuestUnlock, RingInv, Places, OneThread, NoAssert, Held, Pressed, Stored, Oldest, Nothing, InUse
<1>4. ASSUME NEW key \in Keys, Wait(key)
      PROVE  RingInv'
  BY <1>1, <1>4 DEF Wait, RingInv, Places, OneThread, NoAssert, Held, Pressed, Stored, Oldest, Nothing, InUse
<1> QED
  BY <1>1, <1>2, <1>3, <1>4

LEMMA RingStep == RingInv /\ [KeyboardNext]_keyboard => RingInv'
<1> SUFFICES ASSUME RingInv, [KeyboardNext]_keyboard PROVE RingInv'
  OBVIOUS
<1>1. CASE UNCHANGED keyboard
  BY <1>1 DEF keyboard, RingInv, Places, OneThread, NoAssert, Held, Pressed, Stored, Oldest, Nothing, InUse, Ring, Used, Slot
<1>2. CASE Event
  BY <1>2, EventStoreInv, EventAdvanceInv, RingMove DEF Event
<1>3. CASE Guest
  BY <1>3, GuestTestInv, GuestAdvanceInv, KeyDequeueInv, RingMove DEF Guest
<1>4. ASSUME NEW key \in Keys, KeyEnqueue(key) \/ Wait(key)
      PROVE  RingInv'
  BY <1>4, KeyEnqueueInv, RingMove
<1> QED
  BY <1>1, <1>2, <1>3, <1>4 DEF KeyboardNext
-----------------------------------------------------------------------------
(* The refinement *)

\* A step that leaves the ring, what the guest has and what the guest has
\* read but not yet got alone is a stutter of the promise.
LEMMA Stutter ==
  ASSUME Ring' = Ring, UNCHANGED <<kind, kbd, alive>>,
         \/ gu # "unlock" /\ (gu' = "unlock" => k' = NONE)
         \/ UNCHANGED <<gu, k>>
  PROVE  UNCHANGED <<kind, Waiting, kbd, alive>>
BY DEF Waiting

LEMMA FullRing ==
  ASSUME RingInv
  PROVE  Len(Ring) = UsedOf(key_f, key_r) /\ Ring \in Seq(Keys)
BY RingType, RingIs DEF RingInv, Places, InUse

\* The step of key_r is where a key joins those that wait.
LEMMA KeyEnqueueMaps ==
  ASSUME RingInv, NEW key \in Keys, KeyEnqueue(key)
  PROVE  Fifo!Press(key)
<1>1. /\ key_queue' \in Queues /\ key_queue'[key_r] = key
      /\ key_f' = key_f /\ key_r' = (key_r + 1) % KeyQueueLen
      /\ key_f \in Slots /\ key_r \in Slots
  BY DEF RingInv, Places, KeyEnqueue, Queues
<1>2. RingOf(key_queue', key_f, key_r) = Ring
  BY StoreKeeps, RingIs DEF RingInv, Places, KeyEnqueue
<1>3. /\ key_r' # key_f => Len(Ring) < KeyQueueLen - 1 /\ Ring' = Append(Ring, key)
      /\ key_r' = key_f => Len(Ring) = KeyQueueLen - 1 /\ Ring' = <<>>
  BY <1>1, <1>2, PushRing, RingIs, FullRing
<1>4. gu = "idle" /\ gu' = "idle" /\ kind = "nemu"
  BY DEF RingInv, OneThread, KeyEnqueue
<1>5. Waiting = Ring /\ Waiting' = Ring'
  BY <1>4 DEF Waiting
<1>6. Waiting' = IF Len(Waiting) < KeyQueueLen - 1 THEN Append(Waiting, key) ELSE <<>>
  BY <1>3, <1>5
<1>7. key_r' # key_f <=> Len(Waiting) < KeyQueueLen - 1
  BY <1>3, <1>5
<1>8. alive /\ alive' = (key_r' # key_f) /\ UNCHANGED <<kind, kbd>>
  BY DEF KeyEnqueue
<1>9. alive' = IF Len(Waiting) < KeyQueueLen - 1 THEN TRUE ELSE kind = "am"
  BY <1>4, <1>7, <1>8, Zenon
<1> QED
  BY <1>6, <1>8, <1>9, Zenon DEF Fifo!Press

LEMMA EventAdvanceMaps ==
  ASSUME RingInv, EventAdvance
  PROVE  code \in Keys /\ Fifo!Press(code)
<1>1. /\ key_queue' = key_queue /\ key_queue[key_r] = code
      /\ key_f' = key_f /\ key_r' = (key_r + 1) % KeyQueueLen
      /\ key_queue \in Queues /\ key_f \in Slots /\ key_r \in Slots
  BY DEF RingInv, Places, Stored, EventAdvance
<1>2. /\ key_r' # key_f => Len(Ring) < KeyQueueLen - 1 /\ Ring' = Append(Ring, code)
      /\ key_r' = key_f => Len(Ring) = KeyQueueLen - 1 /\ Ring' = <<>>
  BY <1>1, PushRing, RingIs, FullRing
<1>3. gu # "unlock" /\ gu' = gu /\ kind = "am" /\ alive /\ code \in Keys
  BY DEF RingInv, Places, Held, OneThread, NoAssert, Pressed, EventAdvance
<1>4. Waiting = Ring /\ Waiting' = Ring'
  BY <1>3 DEF Waiting
<1>5. Waiting' = IF Len(Waiting) < KeyQueueLen - 1 THEN Append(Waiting, code) ELSE <<>>
  BY <1>2, <1>4
<1>6. alive = TRUE /\ alive' = TRUE /\ (kind = "am") = TRUE /\ UNCHANGED <<kind, kbd>>
  <2>1. alive \in BOOLEAN /\ alive' = alive /\ UNCHANGED <<kind, kbd>>
    BY DEF RingInv, Places, EventAdvance
  <2> QED
    BY <1>3, <2>1, Zenon
<1> QED
  BY <1>3, <1>5, <1>6, Zenon DEF Fifo!Press

LEMMA KeyDequeueMaps ==
  ASSUME RingInv, KeyDequeue
  PROVE  Fifo!Poll
<1>1. /\ key_f = key_r => Ring' = Ring /\ kbd' = NONE
      /\ key_f # key_r => Ring # <<>> /\ Ring' = Tail(Ring) /\ kbd' = Head(Ring)
  BY KeyDequeueInv
<1>2. key_f = key_r => Ring = <<>>
  BY FullRing DEF UsedOf, RingInv, Places, Slots
<1>3. Waiting = Ring /\ Waiting' = Ring'
  BY DEF Waiting, RingInv, OneThread, KeyDequeue
<1> QED
  BY <1>1, <1>2, <1>3 DEF Fifo!Poll, KeyDequeue

\* Giving up the mutex is where the guest gets what it has read.
LEMMA GuestUnlockMaps ==
  ASSUME RingInv, GuestUnlock
  PROVE  Fifo!Poll
<1>1. Ring' = Ring /\ Ring \in Seq(Keys) /\ Waiting' = Ring /\ alive
  BY RingMove, FullRing DEF GuestUnlock, Waiting, RingInv, OneThread, NoAssert, Places
<1>2. CASE k = NONE
  <2>1. Ring = <<>>
    BY <1>2, FullRing DEF UsedOf, RingInv, Places, Slots, Nothing, GuestUnlock
  <2> QED
    BY <1>1, <1>2, <2>1 DEF Fifo!Poll, GuestUnlock, Waiting
<1>3. CASE k # NONE
  <2>1. Waiting = <<k>> \o Ring /\ k \in Keys
    BY <1>3 DEF Waiting, GuestUnlock, RingInv, Places
  <2>2. Waiting # <<>> /\ Head(Waiting) = k /\ Tail(Waiting) = Ring
    BY <1>1, <2>1
  <2> QED
    BY <1>1, <2>2 DEF Fifo!Poll, GuestUnlock
<1> QED
  BY <1>2, <1>3

LEMMA GuestAdvanceMaps ==
  ASSUME RingInv, GuestAdvance
  PROVE  UNCHANGED <<kind, Waiting, kbd, alive>>
BY GuestAdvanceInv DEF GuestAdvance, Waiting

LEMMA StepMaps == RingInv /\ [KeyboardNext]_keyboard => [Fifo!Next]_<<kind, Waiting, kbd, alive>>
<1> SUFFICES ASSUME RingInv, [KeyboardNext]_keyboard PROVE [Fifo!Next]_<<kind, Waiting, kbd, alive>>
  OBVIOUS
<1>1. CASE UNCHANGED keyboard
  BY <1>1 DEF keyboard, Waiting, Ring, Used, Slot
<1>2. CASE EventLock \/ EventUnlock \/ GuestLock \/ \E key \in Keys : Wait(key)
  BY <1>2, RingMove, Stutter DEF EventLock, EventUnlock, GuestLock, Wait
<1>3. CASE EventStore
  BY <1>3, EventStoreInv, Stutter DEF EventStore
<1>4. CASE GuestTest
  BY <1>4, GuestTestInv, Stutter DEF GuestTest
<1>5. CASE GuestAdvance
  BY <1>5, GuestAdvanceMaps
<1>6. CASE EventAdvance
  BY <1>6, EventAdvanceMaps DEF Fifo!Next
<1>7. CASE KeyDequeue \/ GuestUnlock
  BY <1>7, KeyDequeueMaps, GuestUnlockMaps DEF Fifo!Next
<1>8. CASE \E key \in Keys : KeyEnqueue(key)
  BY <1>8, KeyEnqueueMaps DEF Fifo!Next
<1> QED
  BY <1>1, <1>2, <1>3, <1>4, <1>5, <1>6, <1>7, <1>8 DEF KeyboardNext, Event, Guest

\* Both keyboards of the repository, the one of NEMU between two guest
\* instructions and the native AM's with its two threads and their mutex,
\* hand out the keys in the order they were pressed, each one once, for every
\* length of the ring.
THEOREM Keyboard_Refinement == KeyboardSpec => FifoSpec
<1>1. KeyboardInit => Fifo!Init
  BY DEF KeyboardInit, Fifo!Init, Waiting, Ring, Used
<1> QED
  BY <1>1, RingInit, RingStep, StepMaps, PTL DEF KeyboardSpec, FifoSpec, Fifo!Spec

-----------------------------------------------------------------------------
(* thread-os: stacks *)

USE NTaskAssumption, MaxCpuAssumption, BootAssumption

\* What holds of one processor: it has chosen no thread yet and runs on its
\* boot stack, or a handler has, or it runs the one it has chosen.
Owner(c) ==
    /\ mode[c] = "off" => currents[c] = NoTask
    /\ mode[c] \in {"pick", "restore"} => currents[c] \in Task
    /\ mode[c] \in {"restore", "user"} /\ currents[c] \in Task => Home(currents[c]) = c
    /\ currents[c] = NoTask => run[c].of = BOOT
    /\ mode[c] \in {"user", "save"} /\ currents[c] \in Task => run[c].of = currents[c]

\* The context a handler works on lies on a stack of this processor.
Stack(c) ==
    /\ run[c].of \in Task => Home(run[c].of) = c /\ run[c].pc \in TaskPlaces
    /\ run[c].of = BOOT => run[c].pc \in BootPlaces
    /\ mode[c] \in {"pick", "restore"} /\ run[c].of \in Task => context[run[c].of].pc = run[c].pc

\* A thread's context lies on its own stack, inside func().
Saved == \A t \in Task : context[t].of = t /\ context[t].pc \in TaskPlaces

Pinned == (\A c \in Cpu : Owner(c) /\ Stack(c)) /\ Saved

IndInv == ThreadOsTypeOK /\ Pinned

\* The processor of a thread is a processor.
LEMMA HomeType == ASSUME ThreadOsTypeOK, NEW t \in Task PROVE Home(t) \in Cpu
<1>1. ncpu \in Nat \ {0} /\ ncpu <= MaxCpu
  BY DEF ThreadOsTypeOK
<1>2. t % ncpu \in 0 .. ncpu - 1
  BY <1>1 DEF Task
<1> QED
  BY <1>1, <1>2 DEF Home, Cpu

\* The ring stays in the array of threads.
LEMMA NextTaskType == ASSUME NEW t \in Task PROVE NextTask(t) \in Task
BY DEF Task, NextTask

\* A processor has not chosen a thread when main() starts.
LEMMA InitIndInv == ThreadOsInit => IndInv
<1> SUFFICES ASSUME ThreadOsInit PROVE IndInv
  OBVIOUS
<1>1. ThreadOsTypeOK
  <2>1. ncpu \in 1 .. MaxCpu /\ sent \in 0 .. ncpu - 1 /\ pipe \in 0 .. sent
    BY DEF ThreadOsInit
  <2>2. run \in [Cpu -> Contexts] /\ context \in [Task -> Contexts]
    BY DEF ThreadOsInit, Contexts, BootPlaces, TaskPlaces
  <2> QED
    BY <2>1, <2>2 DEF ThreadOsInit, ThreadOsTypeOK
<1>2. Pinned
  BY DEF ThreadOsInit, Pinned, Owner, Stack, Saved, BootPlaces, TaskPlaces
<1> QED
  BY <1>1, <1>2 DEF IndInv

\* A step of the program on one processor moves along its own stack.
LEMMA StepPinned ==
  ASSUME IndInv, NEW c \in Cpu, NEW from, NEW to,
         Step(c, from, to), UNCHANGED <<ncpu, mode, currents, context>>,
         \/ from \in BootPlaces /\ to \in BootPlaces
         \/ from \in TaskPlaces /\ to \in TaskPlaces
  PROVE  /\ run' \in [Cpu -> Contexts] /\ ran' \in [Cpu -> BOOLEAN]
         /\ Pinned'
<1>1. mode[c] = "user" /\ run[c].pc = from /\ run' = [run EXCEPT ![c].pc = to]
      /\ ran' = [ran EXCEPT ![c] = TRUE]
  BY DEF Step, At
<1>2. run \in [Cpu -> Contexts] /\ ran \in [Cpu -> BOOLEAN]
  BY DEF IndInv, ThreadOsTypeOK
<1>3. run' \in [Cpu -> Contexts] /\ ran' \in [Cpu -> BOOLEAN]
  BY <1>1, <1>2 DEF Contexts
<1>4. \A d \in Cpu : run'[d].of = run[d].of /\ (d # c => run'[d] = run[d])
  BY <1>1, <1>2 DEF Contexts
<1>5. run'[c].pc = to
  BY <1>1, <1>2 DEF Contexts
<1>6. BootPlaces \cap TaskPlaces = {}
  BY DEF BootPlaces, TaskPlaces
<1>7. ASSUME NEW d \in Cpu PROVE Owner(d)' /\ Stack(d)'
  <2>1. Owner(d) /\ Stack(d)
    BY DEF IndInv, Pinned
  <2>2. Owner(d)'
    BY <2>1, <1>4 DEF Owner, Home
  <2>3. Stack(d)'
    <3>1. run[d].of \in Task \cup {BOOT}
      BY <1>2 DEF Contexts
    <3>2. CASE d # c
      BY <3>2, <2>1, <1>4 DEF Stack, Home
    <3>3. CASE d = c
      BY <3>3, <3>1, <2>1, <1>1, <1>4, <1>5, <1>6 DEF Stack, Home
    <3> QED
      BY <3>2, <3>3
  <2> QED
    BY <2>2, <2>3
<1> QED
  BY <1>3, <1>7 DEF IndInv, Pinned, Saved

\* A processor that has left the boot code does not come back to it, and one
\* inside func() is not in the boot code.
LEMMA OnTask ==
  ASSUME IndInv, NEW c \in Cpu, run[c].pc \in TaskPlaces
  PROVE  run[c].of \in Task /\ Home(run[c].of) = c
<1>1. run[c].of \in Task \cup {BOOT} /\ Stack(c)
  BY DEF IndInv, ThreadOsTypeOK, Contexts, Pinned
<1> QED
  BY <1>1 DEF Stack, BootPlaces, TaskPlaces

\* main() forks the processors, lets them go and enters the last of its code.
LEMMA BootStep ==
  ASSUME IndInv, NEW c \in Cpu, MpEntry(c)
  PROVE  IndInv'
<1>1. CASE c = 0 /\ Fork
  <2>1. CASE Step(0, "fork", "write") /\ UNCHANGED mode
    <3>1. UNCHANGED <<ncpu, mode, currents, context, locked, pend, sent, pipe>>
      BY <1>1, <2>1 DEF Fork
    <3>2. run' \in [Cpu -> Contexts] /\ ran' \in [Cpu -> BOOLEAN] /\ Pinned'
      BY <1>1, <2>1, <3>1, StepPinned DEF BootPlaces
    <3> QED
      BY <3>1, <3>2 DEF IndInv, ThreadOsTypeOK
  <2>2. CASE \E d \in 1 .. ncpu - 1 :
               mode[d] = "off" /\ mode' = [mode EXCEPT ![d] = "user"] /\ UNCHANGED <<run, ran>>
    <3> PICK d \in 1 .. ncpu - 1 :
               mode[d] = "off" /\ mode' = [mode EXCEPT ![d] = "user"] /\ UNCHANGED <<run, ran>>
      BY <2>2
    <3>1. UNCHANGED <<ncpu, currents, context, locked, pend, sent, pipe>>
      BY <1>1 DEF Fork
    <3>2. ThreadOsTypeOK'
      BY <3>1 DEF IndInv, ThreadOsTypeOK
    <3>3. d \in Cpu
      BY DEF IndInv, ThreadOsTypeOK, Cpu
    <3>4. currents[d] = NoTask
      BY <3>3 DEF IndInv, Pinned, Owner
    <3>5. ASSUME NEW e \in Cpu PROVE Owner(e)' /\ Stack(e)'
      <4>1. Owner(e) /\ Stack(e)
        BY DEF IndInv, Pinned
      <4>2. mode'[e] = IF e = d THEN "user" ELSE mode[e]
        BY DEF IndInv, ThreadOsTypeOK
      <4> QED
        BY <3>1, <3>4, <4>1, <4>2 DEF Owner, Stack, Home
    <3> QED
      BY <3>1, <3>2, <3>5 DEF IndInv, Pinned, Saved
  <2> QED
    BY <1>1, <2>1, <2>2 DEF Fork
<1>2. CASE c = 0 /\ Write
  <2>1. UNCHANGED <<ncpu, mode, currents, context, locked, pend>>
    BY <1>2 DEF Write
  <2>2. CASE Step(0, "write", "iset") /\ UNCHANGED <<sent, pipe>>
    <3>1. run' \in [Cpu -> Contexts] /\ ran' \in [Cpu -> BOOLEAN] /\ Pinned'
      BY <1>2, <2>1, <2>2, StepPinned DEF BootPlaces
    <3> QED
      BY <2>1, <2>2, <3>1 DEF IndInv, ThreadOsTypeOK
  <2>3. CASE sent < ncpu - 1 /\ sent' = sent + 1 /\ pipe' = pipe + 1 /\ UNCHANGED <<run, ran>>
    <3>1. ThreadOsTypeOK'
      BY <2>1, <2>3 DEF IndInv, ThreadOsTypeOK
    <3>2. Pinned'
      BY <2>1, <2>3 DEF IndInv, Pinned, Owner, Stack, Saved, Home
    <3> QED
      BY <3>1, <3>2 DEF IndInv
  <2> QED
    BY <1>2, <2>2, <2>3 DEF Write
<1>3. CASE Read(c)
  <2>1. /\ Step(c, "read", "iset") /\ pipe > 0 /\ pipe' = pipe - 1
        /\ UNCHANGED <<ncpu, mode, currents, context, locked, pend, sent>>
    BY <1>3 DEF Read
  <2>2. run' \in [Cpu -> Contexts] /\ ran' \in [Cpu -> BOOLEAN] /\ Pinned'
    BY <2>1, StepPinned DEF BootPlaces
  <2> QED
    BY <2>1, <2>2 DEF IndInv, ThreadOsTypeOK
<1>4. CASE Iset(c)
  <2>1. /\ mode[c] = "user" /\ run[c].pc = "iset"
        /\ run' = [run EXCEPT ![c].pc = "yield", ![c].sti = TRUE]
        /\ ran' = [ran EXCEPT ![c] = TRUE]
        /\ UNCHANGED <<ncpu, mode, currents, context, locked, pend, sent, pipe>>
    BY <1>4 DEF Iset, At
  <2>2. ThreadOsTypeOK'
    <3>1. run \in [Cpu -> Contexts] /\ ran \in [Cpu -> BOOLEAN]
      BY DEF IndInv, ThreadOsTypeOK
    <3>2. run' \in [Cpu -> Contexts] /\ ran' \in [Cpu -> BOOLEAN]
      BY <2>1, <3>1 DEF Contexts, BootPlaces
    <3> QED
      BY <2>1, <3>2 DEF IndInv, ThreadOsTypeOK
  <2>3. \A d \in Cpu : run'[d].of = run[d].of /\ run'[d].pc = IF d = c THEN "yield" ELSE run[d].pc
    BY <2>1 DEF IndInv, ThreadOsTypeOK, Contexts
  <2>4. ASSUME NEW d \in Cpu PROVE Owner(d)' /\ Stack(d)'
    <3>1. Owner(d) /\ Stack(d)
      BY DEF IndInv, Pinned
    <3>2. Owner(d)'
      BY <2>1, <2>3, <3>1 DEF Owner, Home
    <3>3. Stack(d)'
      BY <2>1, <2>3, <3>1 DEF Stack, Home, BootPlaces, TaskPlaces
    <3> QED
      BY <3>2, <3>3
  <2> QED
    BY <2>1, <2>2, <2>4 DEF IndInv, Pinned, Saved
<1>5. CASE Yield(c)
  <2>1. /\ Step(c, "yield", "raise")
        /\ UNCHANGED <<ncpu, mode, currents, context, locked, pend, sent, pipe>>
    BY <1>5 DEF Yield
  <2>2. run' \in [Cpu -> Contexts] /\ ran' \in [Cpu -> BOOLEAN] /\ Pinned'
    BY <2>1, StepPinned DEF BootPlaces
  <2> QED
    BY <2>1, <2>2 DEF IndInv, ThreadOsTypeOK
<1>6. CASE Raise(c)
  <2>1. /\ mode[c] = "user" /\ mode' = [mode EXCEPT ![c] = "save"]
        /\ UNCHANGED <<ncpu, run, currents, context, locked, pend, ran, sent, pipe>>
    BY <1>6 DEF Raise, At
  <2>2. ThreadOsTypeOK'
    BY <2>1 DEF IndInv, ThreadOsTypeOK
  <2>3. \A d \in Cpu : mode'[d] = IF d = c THEN "save" ELSE mode[d]
    BY <2>1 DEF IndInv, ThreadOsTypeOK
  <2>4. Pinned'
    BY <2>1, <2>3 DEF IndInv, Pinned, Owner, Stack, Saved, Home
  <2> QED
    BY <2>2, <2>4 DEF IndInv
<1> QED
  BY <1>1, <1>2, <1>3, <1>4, <1>5, <1>6 DEF MpEntry

\* The handler saves to, picks and restores a thread of its own processor.
LEMMA HandlerStep ==
  ASSUME IndInv, NEW c \in Cpu, Handler(c)
  PROVE  IndInv'
<1>1. CASE Deliver(c)
  <2>1. /\ mode[c] = "user" /\ pend' = [pend EXCEPT ![c] = FALSE]
        /\ mode' = IF run[c].pc \in Unsafe THEN mode ELSE [mode EXCEPT ![c] = "save"]
        /\ UNCHANGED <<ncpu, run, currents, context, locked, ran, sent, pipe>>
    BY <1>1 DEF Deliver
  <2>2. ThreadOsTypeOK'
    BY <2>1 DEF IndInv, ThreadOsTypeOK
  <2>3. \A d \in Cpu : mode'[d] = mode[d] \/ (mode[d] = "user" /\ mode'[d] = "save")
    BY <2>1 DEF IndInv, ThreadOsTypeOK
  <2>4. Pinned'
    BY <2>1, <2>3 DEF IndInv, Pinned, Owner, Stack, Saved, Home
  <2> QED
    BY <2>2, <2>4 DEF IndInv
<1>2. CASE Save(c)
  <2>1. /\ mode[c] = "save" /\ mode' = [mode EXCEPT ![c] = "pick"]
        /\ UNCHANGED <<ncpu, run, locked, pend, ran, sent, pipe>>
    BY <1>2 DEF Save
  <2>2. \A d \in Cpu : mode'[d] = IF d = c THEN "pick" ELSE mode[d]
    BY <2>1 DEF IndInv, ThreadOsTypeOK
  <2>3. Owner(c) /\ Stack(c) /\ currents[c] \in Task \cup {NoTask}
    BY DEF IndInv, Pinned, ThreadOsTypeOK
  <2>4. CASE currents[c] = NoTask
    <3>1. currents' = [currents EXCEPT ![c] = 0] /\ UNCHANGED context
      BY <1>2, <2>4 DEF Save
    <3>2. 0 \in Task
      BY DEF Task
    <3>3. ThreadOsTypeOK'
      BY <2>1, <3>1, <3>2 DEF IndInv, ThreadOsTypeOK
    <3>4. \A d \in Cpu : currents'[d] = IF d = c THEN 0 ELSE currents[d]
      BY <3>1 DEF IndInv, ThreadOsTypeOK
    <3>5. run[c].of = BOOT
      BY <2>3, <2>4 DEF Owner
    <3>6. Pinned'
      BY <2>1, <2>2, <3>1, <3>2, <3>4, <3>5 DEF IndInv, Pinned, Owner, Stack, Saved, Home
    <3> QED
      BY <3>3, <3>6 DEF IndInv
  <2>5. CASE currents[c] \in Task
    <3>1. context' = [context EXCEPT ![currents[c]] = run[c]] /\ UNCHANGED currents
      BY <1>2, <2>5 DEF Save
    <3>2. run[c].of = currents[c]
      BY <2>1, <2>3, <2>5 DEF Owner
    <3>3. run[c] \in Contexts /\ run[c].pc \in TaskPlaces /\ Home(currents[c]) = c
      BY <2>3, <2>5, <3>2 DEF IndInv, ThreadOsTypeOK, Stack
    <3>4. ThreadOsTypeOK'
      BY <2>1, <2>5, <3>1, <3>3 DEF IndInv, ThreadOsTypeOK
    <3>5. \A t \in Task : context'[t] = IF t = currents[c] THEN run[c] ELSE context[t]
      BY <3>1, <2>5 DEF IndInv, ThreadOsTypeOK
    <3>6. ASSUME NEW d \in Cpu PROVE Owner(d)' /\ Stack(d)'
      <4>1. Owner(d) /\ Stack(d)
        BY DEF IndInv, Pinned
      <4>2. Owner(d)'
        BY <2>1, <2>2, <2>5, <3>1, <3>2, <4>1 DEF Owner, Home
      <4>3. Stack(d)'
        <5>1. CASE d = c
          BY <5>1, <2>1, <2>2, <2>5, <3>2, <3>5, <4>1 DEF Stack, Home
        <5>2. CASE d # c
          BY <5>2, <2>1, <2>2, <3>3, <3>5, <4>1 DEF Stack, Home
        <5> QED
          BY <5>1, <5>2
      <4> QED
        BY <4>2, <4>3
    <3>7. Saved'
      BY <3>2, <3>3, <3>5 DEF IndInv, Pinned, Saved
    <3> QED
      BY <3>4, <3>6, <3>7 DEF IndInv, Pinned
  <2> QED
    BY <2>3, <2>4, <2>5
<1>3. CASE Pick(c)
  <2> DEFINE t == NextTask(currents[c])
  <2>1. /\ mode[c] = "pick" /\ currents' = [currents EXCEPT ![c] = t]
        /\ mode' = IF Home(t) = c THEN [mode EXCEPT ![c] = "restore"] ELSE mode
        /\ UNCHANGED <<ncpu, run, context, locked, pend, ran, sent, pipe>>
    BY <1>3 DEF Pick
  <2>2. t \in Task
    BY <2>1, NextTaskType DEF IndInv, Pinned, Owner
  <2> HIDE DEF t
  <2>3. ThreadOsTypeOK'
    BY <2>1, <2>2 DEF IndInv, ThreadOsTypeOK
  <2>4. \A d \in Cpu : currents'[d] = IF d = c THEN t ELSE currents[d]
    BY <2>1 DEF IndInv, ThreadOsTypeOK
  <2>5. \A d \in Cpu : \/ mode'[d] = mode[d]
                       \/ d = c /\ Home(t) = c /\ mode'[d] = "restore"
    BY <2>1 DEF IndInv, ThreadOsTypeOK
  <2>6. Pinned'
    <3>1. ASSUME NEW d \in Cpu PROVE Owner(d)' /\ Stack(d)'
      <4>1. Owner(d) /\ Stack(d)
        BY DEF IndInv, Pinned
      <4>2. Owner(d)'
        BY <2>1, <2>2, <2>4, <2>5, <4>1 DEF Owner, Home
      <4>3. Stack(d)'
        BY <2>1, <2>5, <4>1 DEF Stack, Home
      <4> QED
        BY <4>2, <4>3
    <3> QED
      BY <2>1, <3>1 DEF IndInv, Pinned, Saved
  <2> QED
    BY <2>3, <2>6 DEF IndInv
<1>4. CASE Restore(c)
  <2> DEFINE t == currents[c]
  <2>1. /\ mode[c] = "restore" /\ mode' = [mode EXCEPT ![c] = "user"]
        /\ run' = [run EXCEPT ![c] = context[t]]
        /\ UNCHANGED <<ncpu, currents, context, locked, pend, ran, sent, pipe>>
    BY <1>4 DEF Restore
  <2>2. t \in Task /\ Home(t) = c
    BY <2>1 DEF IndInv, Pinned, Owner
  <2>3. context[t] \in Contexts /\ context[t].of = t /\ context[t].pc \in TaskPlaces
    BY <2>2 DEF IndInv, Pinned, Saved, ThreadOsTypeOK
  <2>4. ThreadOsTypeOK'
    BY <2>1, <2>3 DEF IndInv, ThreadOsTypeOK
  <2>5. \A d \in Cpu : /\ run'[d] = IF d = c THEN context[t] ELSE run[d]
                       /\ mode'[d] = IF d = c THEN "user" ELSE mode[d]
    BY <2>1 DEF IndInv, ThreadOsTypeOK
  <2>6. ASSUME NEW d \in Cpu PROVE Owner(d)' /\ Stack(d)'
    <3>1. Owner(d) /\ Stack(d)
      BY DEF IndInv, Pinned
    <3>2. CASE d = c
      BY <3>2, <2>1, <2>2, <2>3, <2>5 DEF Owner, Stack, Home
    <3>3. CASE d # c
      BY <3>3, <2>1, <2>5, <3>1 DEF Owner, Stack, Home
    <3> QED
      BY <3>2, <3>3
  <2> QED
    BY <2>1, <2>4, <2>6 DEF IndInv, Pinned, Saved
<1> QED
  BY <1>1, <1>2, <1>3, <1>4 DEF Handler

\* A step of func() stays in func(), on the thread's own processor.
LEMMA FuncStep ==
  ASSUME IndInv, NEW c \in Cpu, Func(c)
  PROVE  IndInv'
<1>1. PICK from \in TaskPlaces, to \in TaskPlaces : Step(c, from, to)
  BY DEF Func, Lock, Call, Printf, Unlock, Delay, TaskPlaces
<1>2. UNCHANGED <<ncpu, mode, currents, context, pend, sent, pipe>> /\ locked' \in {locked, 0, 1}
  BY DEF Func, Lock, Call, Printf, Unlock, Delay
<1>3. run' \in [Cpu -> Contexts] /\ ran' \in [Cpu -> BOOLEAN] /\ Pinned'
  BY <1>1, <1>2, StepPinned
<1> QED
  BY <1>2, <1>3 DEF IndInv, ThreadOsTypeOK

\* The timer expires whatever the processor does.
LEMMA ExpireStep ==
  ASSUME IndInv, NEW c \in Cpu, Expire(c)
  PROVE  IndInv'
<1>1. ThreadOsTypeOK'
  BY DEF Expire, IndInv, ThreadOsTypeOK
<1>2. Pinned'
  BY DEF Expire, IndInv, Pinned, Owner, Stack, Saved, Home
<1> QED
  BY <1>1, <1>2 DEF IndInv

LEMMA NextIndInv == IndInv /\ [ThreadOsNext]_thread_os => IndInv'
<1> SUFFICES ASSUME IndInv, [ThreadOsNext]_thread_os PROVE IndInv'
  OBVIOUS
<1>1. CASE ThreadOsNext
  BY <1>1, BootStep, HandlerStep, FuncStep, ExpireStep DEF ThreadOsNext
<1>2. CASE UNCHANGED thread_os
  BY <1>2 DEF thread_os, IndInv, ThreadOsTypeOK, Pinned, Owner, Stack, Saved, Home
<1> QED
  BY <1>1, <1>2

LEMMA Invariance == ThreadOsSpec => []IndInv
BY InitIndInv, NextIndInv, PTL DEF ThreadOsSpec

\* Every variable of thread-os and of its processors keeps its type, for
\* every number of threads and of processors.
THEOREM ThreadOs_TypeCorrect == ThreadOsSpec => []ThreadOsTypeOK
<1>1. IndInv => ThreadOsTypeOK
  BY DEF IndInv
<1> QED
  BY <1>1, Invariance, PTL

\* No two processors are ever on one thread's stack, because the test of
\* on_interrupt() gives each thread one processor.
THEOREM ThreadOs_StacksApart == ThreadOsSpec => []OwnStack
<1>1. IndInv => OwnStack
  <2> SUFFICES ASSUME IndInv PROVE OwnStack
    OBVIOUS
  <2>1. ASSUME NEW c \in Cpu, NEW d \in Cpu, c # d, run[c].of # BOOT
        PROVE  run[c].of # run[d].of
    <3>1. run[c].of \in Task
      BY <2>1 DEF IndInv, ThreadOsTypeOK, Contexts
    <3> QED
      BY <2>1, <3>1 DEF IndInv, Pinned, Stack
  <2> QED
    BY <2>1 DEF OwnStack, IndInv, Pinned, Saved
<1> QED
  BY <1>1, Invariance, PTL
-----------------------------------------------------------------------------
(* The place of every thread, through handlers and context switches *)

\* A thread has a place in func().
LEMMA PlaceType == ASSUME IndInv, NEW t \in Task PROVE Place(t) \in TaskPlaces
<1>1. Home(t) \in Cpu
  BY HomeType DEF IndInv
<1> QED
  BY <1>1 DEF IndInv, Pinned, Stack, Saved, Place

\* A step of func() on processor c moves the thread c runs.
LEMMA StepMoves ==
  ASSUME IndInv, NEW c \in Cpu, NEW from \in TaskPlaces, NEW to \in TaskPlaces,
         Step(c, from, to), UNCHANGED <<ncpu, context>>
  PROVE  \E t \in Task :
           /\ Place(t) = from
           /\ \A u \in Task : Place(u)' = IF u = t THEN to ELSE Place(u)
<1>1. mode[c] = "user" /\ run[c].pc = from /\ run' = [run EXCEPT ![c].pc = to]
  BY DEF Step, At
<1> DEFINE t == run[c].of
<1>2. t \in Task /\ Home(t) = c
  BY <1>1, OnTask
<1>3. Place(t) = from
  BY <1>1, <1>2 DEF Place
<1>4. ASSUME NEW u \in Task PROVE Place(u)' = IF u = t THEN to ELSE Place(u)
  <2>1. Home(u)' = Home(u) /\ Home(u) \in Cpu
    BY HomeType DEF Home, IndInv
  <2>2. \A d \in Cpu : /\ run'[d].of = run[d].of
                       /\ run'[d].pc = IF d = c THEN to ELSE run[d].pc
    BY <1>1 DEF IndInv, ThreadOsTypeOK, Contexts
  <2>3. CASE u = t
    BY <2>1, <2>2, <2>3, <1>2 DEF Place
  <2>4. CASE u # t
    BY <2>1, <2>2, <2>4, <1>2 DEF Place
  <2> QED
    BY <2>3, <2>4
<1> QED
  BY <1>2, <1>3, <1>4

\* Nothing else moves a thread: not the timer, not the handler, not the boot.
LEMMA OthersKeep ==
  ASSUME IndInv, NEW c \in Cpu, MpEntry(c) \/ Handler(c) \/ Expire(c)
  PROVE  /\ \A t \in Task : Place(t)' = Place(t)
         /\ locked' = locked
<1>1. ncpu' = ncpu /\ locked' = locked
  BY DEF MpEntry, Fork, Write, Read, Iset, Yield, Raise, Handler, Deliver, Save, Pick, Restore, Expire
<1>2. ASSUME NEW t \in Task PROVE Home(t)' = Home(t) /\ Home(t) \in Cpu
  BY <1>1, HomeType DEF Home, IndInv
<1>3. CASE Save(c)
  <2>1. mode[c] = "save" /\ run' = run
    BY <1>3 DEF Save
  <2>2. CASE currents[c] = NoTask
    BY <1>2, <1>3, <2>1, <2>2, <1>1 DEF Save, Place
  <2>3. CASE currents[c] # NoTask
    <3>1. currents[c] \in Task /\ run[c].of = currents[c] /\ Home(currents[c]) = c
      BY <2>1, <2>3 DEF IndInv, ThreadOsTypeOK, Pinned, Owner, Stack
    <3>2. context' = [context EXCEPT ![currents[c]] = run[c]]
      BY <1>3, <2>3 DEF Save
    <3>3. \A t \in Task : t # currents[c] => context'[t] = context[t]
      BY <3>2, <3>1 DEF IndInv, ThreadOsTypeOK
    <3> QED
      BY <1>1, <1>2, <2>1, <3>1, <3>3 DEF Place
  <2> QED
    BY <2>2, <2>3
<1>4. CASE Restore(c)
  <2>1. mode[c] = "restore" /\ run' = [run EXCEPT ![c] = context[currents[c]]] /\ context' = context
    BY <1>4 DEF Restore
  <2>2. currents[c] \in Task /\ Home(currents[c]) = c /\ context[currents[c]].of = currents[c]
    BY <2>1 DEF IndInv, Pinned, Owner, Saved
  <2>3. \A d \in Cpu : run'[d] = IF d = c THEN context[currents[c]] ELSE run[d]
    BY <2>1 DEF IndInv, ThreadOsTypeOK
  <2>4. run[c].of \in Task => context[run[c].of].pc = run[c].pc
    BY <2>1 DEF IndInv, Pinned, Stack
  <2>5. ASSUME NEW t \in Task PROVE Place(t)' = Place(t)
    <3>1. CASE Home(t) # c
      BY <3>1, <1>2, <2>1, <2>3 DEF Place
    <3>2. CASE Home(t) = c
      BY <3>2, <1>2, <2>1, <2>2, <2>3, <2>4 DEF Place
    <3> QED
      BY <3>1, <3>2
  <2> QED
    BY <1>1, <2>5
<1>5. CASE MpEntry(c)
  <2>1. context' = context
    BY <1>5 DEF MpEntry, Fork, Write, Read, Iset, Yield, Raise
  <2>2. CASE run' = run
    BY <1>1, <1>2, <2>1, <2>2 DEF Place
  <2>3. CASE run' # run
    <3>1. /\ run[c].pc \in BootPlaces
          /\ \A d \in Cpu : run'[d].of = run[d].of /\ (d # c => run'[d] = run[d])
      BY <1>5, <2>3 DEF MpEntry, Fork, Write, Read, Iset, Yield, Raise, Step, At,
                       BootPlaces, IndInv, ThreadOsTypeOK, Contexts
    <3>2. run[c].of \notin Task
      BY <3>1 DEF IndInv, Pinned, Stack, BootPlaces, TaskPlaces
    <3> QED
      BY <1>1, <1>2, <2>1, <3>1, <3>2 DEF Place
  <2> QED
    BY <2>2, <2>3
<1>6. CASE Deliver(c) \/ Pick(c) \/ Expire(c)
  BY <1>1, <1>2, <1>6 DEF Deliver, Pick, Expire, Place
<1> QED
  BY <1>3, <1>4, <1>5, <1>6 DEF Handler
-----------------------------------------------------------------------------
(* The lock *)

LockInv == IndInv /\ MutualExclusion

LEMMA LockInit == ThreadOsInit => LockInv
<1> SUFFICES ASSUME ThreadOsInit PROVE LockInv
  OBVIOUS
<1>1. IndInv
  BY InitIndInv
<1>2. \A t \in Task : Home(t) \in Cpu
  BY <1>1, HomeType DEF IndInv
<1>3. \A t \in Task : Place(t) = "lock"
  BY <1>2 DEF ThreadOsInit, Place
<1> QED
  BY <1>1, <1>3 DEF ThreadOsInit, LockInv, MutualExclusion, Critical

\* What a step of func() does to the places and to the lock's word.
LEMMA FuncMoves ==
  ASSUME IndInv, NEW c \in Cpu, Func(c)
  PROVE  \E t \in Task, to \in TaskPlaces :
           /\ \A u \in Task : Place(u)' = IF u = t THEN to ELSE Place(u)
           /\ \/ Place(t) = "lock" /\ to = "call" /\ locked = 0 /\ locked' = 1
              \/ Place(t) = "lock" /\ to = "lock" /\ locked # 0 /\ locked' = 1
              \/ Place(t) = "call" /\ to = "libc" /\ locked' = locked
              \/ Place(t) = "libc" /\ to = "unlock" /\ locked' = locked
              \/ Place(t) = "unlock" /\ to = "delay" /\ locked' = 0
              \/ Place(t) = "delay" /\ to = "lock" /\ locked' = locked
<1> USE DEF TaskPlaces
<1>1. CASE Lock(c) /\ locked = 0
  BY <1>1, StepMoves, "call" \in TaskPlaces, "lock" \in TaskPlaces DEF Lock
<1>2. CASE Lock(c) /\ locked # 0
  BY <1>2, StepMoves, "lock" \in TaskPlaces DEF Lock
<1>3. CASE Call(c)
  BY <1>3, StepMoves, "call" \in TaskPlaces, "libc" \in TaskPlaces DEF Call
<1>4. CASE Printf(c)
  BY <1>4, StepMoves, "libc" \in TaskPlaces, "unlock" \in TaskPlaces DEF Printf
<1>5. CASE Unlock(c)
  BY <1>5, StepMoves, "unlock" \in TaskPlaces, "delay" \in TaskPlaces DEF Unlock
<1>6. CASE Delay(c)
  BY <1>6, StepMoves, "delay" \in TaskPlaces, "lock" \in TaskPlaces DEF Delay
<1> QED
  BY <1>1, <1>2, <1>3, <1>4, <1>5, <1>6 DEF Func

LEMMA LockStep == LockInv /\ [ThreadOsNext]_thread_os => LockInv'
<1> SUFFICES ASSUME LockInv, [ThreadOsNext]_thread_os PROVE LockInv'
  OBVIOUS
<1>1. IndInv' /\ IndInv
  BY NextIndInv DEF LockInv
<1>2. locked \in {0, 1}
  BY <1>1 DEF IndInv, ThreadOsTypeOK
<1>3. CASE \E c \in Cpu : MpEntry(c) \/ Handler(c) \/ Expire(c)
  BY <1>1, <1>3, OthersKeep DEF LockInv, MutualExclusion
<1>4. CASE \E c \in Cpu : Func(c)
  <2>1. PICK t \in Task, to \in TaskPlaces :
           /\ \A u \in Task : Place(u)' = IF u = t THEN to ELSE Place(u)
           /\ \/ Place(t) = "lock" /\ to = "call" /\ locked = 0 /\ locked' = 1
              \/ Place(t) = "lock" /\ to = "lock" /\ locked # 0 /\ locked' = 1
              \/ Place(t) = "call" /\ to = "libc" /\ locked' = locked
              \/ Place(t) = "libc" /\ to = "unlock" /\ locked' = locked
              \/ Place(t) = "unlock" /\ to = "delay" /\ locked' = 0
              \/ Place(t) = "delay" /\ to = "lock" /\ locked' = locked
    BY <1>1, <1>4, FuncMoves
  <2>2. MutualExclusion'
    BY <1>2, <2>1 DEF LockInv, MutualExclusion, Critical
  <2> QED
    BY <1>1, <2>2 DEF LockInv
<1>5. CASE UNCHANGED thread_os
  BY <1>1, <1>5 DEF thread_os, LockInv, MutualExclusion, Place, Home
<1> QED
  BY <1>3, <1>4, <1>5 DEF ThreadOsNext

LEMMA LockInvariance == ThreadOsSpec => []LockInv
BY LockInit, LockStep, PTL DEF ThreadOsSpec

\* One thread at a time is between lock() and unlock(), wherever the timer
\* interrupts it and whatever its processor does in between.
THEOREM ThreadOs_Exclusion == ThreadOsSpec => []MutualExclusion
<1>1. LockInv => MutualExclusion
  BY DEF LockInv
<1> QED
  BY <1>1, LockInvariance, PTL
-----------------------------------------------------------------------------
(* ThreadOs_Refinement *)

LEMMA RefinesInit == ThreadOsInit => Threads!Init
<1> SUFFICES ASSUME ThreadOsInit PROVE Threads!Init
  OBVIOUS
<1>1. \A t \in Task : Home(t) \in Cpu
  BY InitIndInv, HomeType DEF IndInv
<1>2. \A t \in Task : Place(t) = "lock"
  BY <1>1 DEF ThreadOsInit, Place
<1> QED
  BY <1>2 DEF Threads!Init, Threads!Task, Task

LEMMA RefinesNext ==
  LockInv /\ LockInv' /\ [ThreadOsNext]_thread_os => [Threads!Next]_[t \in Task |-> Place(t)]
<1> SUFFICES ASSUME LockInv, [ThreadOsNext]_thread_os
             PROVE  Threads!Next \/ UNCHANGED [t \in Task |-> Place(t)]
  OBVIOUS
<1>1. IndInv /\ MutualExclusion
  BY DEF LockInv
<1>2. CASE \E c \in Cpu : MpEntry(c) \/ Handler(c) \/ Expire(c)
  BY <1>1, <1>2, OthersKeep, Zenon
<1>3. CASE \E c \in Cpu : Func(c)
  <2>1. PICK t \in Task, to \in TaskPlaces :
           /\ \A u \in Task : Place(u)' = IF u = t THEN to ELSE Place(u)
           /\ \/ Place(t) = "lock" /\ to = "call" /\ locked = 0 /\ locked' = 1
              \/ Place(t) = "lock" /\ to = "lock" /\ locked # 0 /\ locked' = 1
              \/ Place(t) = "call" /\ to = "libc" /\ locked' = locked
              \/ Place(t) = "libc" /\ to = "unlock" /\ locked' = locked
              \/ Place(t) = "unlock" /\ to = "delay" /\ locked' = 0
              \/ Place(t) = "delay" /\ to = "lock" /\ locked' = locked
    BY <1>1, <1>3, FuncMoves
  <2> DEFINE at == [u \in Task |-> Place(u)]
             at1 == [u \in Task |-> Place(u)']
  <2>2. at1 = [at EXCEPT ![t] = to] /\ at[t] = Place(t)
    BY <2>1
  <2>3. CASE to = Place(t)
    BY <2>1, <2>3
  <2>4. locked = 0 => \A u \in Task : Place(u) \notin Critical
    BY <1>1 DEF MutualExclusion
  <2>5. CASE to # Place(t)
    <3>1. Threads!Acquire(t) \/ Threads!Call(t) \/ Threads!Printf(t)
            \/ Threads!Unlock(t) \/ Threads!Delay(t)
      BY <2>1, <2>2, <2>4, <2>5
         DEF Threads!Acquire, Threads!Call, Threads!Printf, Threads!Unlock, Threads!Delay,
             Threads!Go, Threads!Critical, Critical, Threads!Task, Task
    <3> QED
      BY <3>1 DEF Threads!Next, Threads!Task, Task
  <2> QED
    BY <2>3, <2>5
<1>4. CASE UNCHANGED thread_os
  BY <1>4 DEF thread_os, Place, Home
<1> QED
  BY <1>2, <1>3, <1>4 DEF ThreadOsNext

\* Processors, timers and context switches are invisible: thread-os does what
\* SpinThreads does.
THEOREM ThreadOs_Refinement == ThreadOsSpec => ThreadsSpec
BY RefinesInit, RefinesNext, LockInvariance, PTL DEF ThreadOsSpec, ThreadsSpec, Threads!Spec

=============================================================================
