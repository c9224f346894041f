---------------------------- MODULE SramBusCtrl ----------------------------
(***************************************************************************)
(* The SRAM controller src/design/mem/uv_sram_bus_ctrl.v with the memory   *)
(* behind it, uv_sram_sp.v: a bank of the directly accessed memory.  An    *)
(* access whose address is not a multiple of the word size takes two       *)
(* cycles, one for each word it touches, and is put together from them     *)
(* with byte shifts.                                                       *)
(*                                                                         *)
(* A state is a settled clock cycle, a step the clock edge that ends it.   *)
(* A byte is the set of the marks it carries: the controller only moves    *)
(* bytes, fills with zero (no mark) and combines two words with OR (the    *)
(* union), so that a byte that was moved to the wrong lane, lost or mixed  *)
(* with another one shows.  Byte b of the memory starts with mark b, and   *)
(* lane i of every word written carries the mark Size + i.                 *)
(***************************************************************************)
EXTENDS Integers

CONSTANTS MLEN,      \* bytes of a word
          SPAN,      \* words a base address can name, 2**SRAM_AW
          SRAM_DP,   \* words of the memory
          MaxWrites, \* bound on the writes taken
          None

ASSUME SramAssumption ==
    /\ MLEN \in Nat \ {0, 1} /\ SPAN \in Nat \ {0}
    /\ SRAM_DP \in 1 .. SPAN /\ MaxWrites \in Nat

Size  == MLEN * SPAN
Lanes == 0 .. MLEN - 1
Addrs == 0 .. Size - 1
Bytes == SUBSET (0 .. Size + MLEN - 1)
Zero  == [i \in Lanes |-> {}]

\* The low-order lanes of a byte, a half word and a word access.
Masks == {0 .. n - 1 : n \in {1, 2, MLEN}}
Reads  == [read : {TRUE}, addr : Addrs, mask : {Lanes}]
Writes == [read : {FALSE}, addr : Addrs, mask : Masks]

Rsps   == [excp : BOOLEAN, data : [Lanes -> Bytes]]

ASSUME NoneAssumption == None \notin Reads \cup Writes \cup Rsps

VARIABLES
    ram, qr,            \* uv_sram_sp.v: the memory and its output register
    addr_misalign_r,    \* register: second cycle of a misaligned access
    addr_misalign_rr,   \* register: a misaligned access has just ended
    byte_offset_r, diff_offset_r, base_addr_r,
    req_read_r, req_data_r, req_mask_r,
    ram_read_p,         \* register: qr was read in the last cycle
    rsft_rdat_r,        \* register: the bytes of the first word
    rsp_data_r,         \* register: the answer, for as long as it waits
    sram_rsp_vld_r, sram_rsp_excp_r,
    req, rsp_rdy,       \* inputs: the request offered, or None; answer taken
    owed,               \* the request taken and not answered yet, or None
    ref,                \* the bytes the requests taken so far leave behind
    writes              \* writes taken so far

regs == <<addr_misalign_r, addr_misalign_rr, byte_offset_r, diff_offset_r, base_addr_r,
          req_read_r, req_data_r, req_mask_r, ram_read_p, rsft_rdat_r, rsp_data_r,
          sram_rsp_vld_r, sram_rsp_excp_r>>
vars == <<ram, qr, regs, req, rsp_rdy, owed, ref, writes>>

-----------------------------------------------------------------------------
\* Shifts by n bytes of a word and of a mask.
Lsft(w, n) == [i \in Lanes |-> IF i >= n THEN w[i - n] ELSE {}]
Rsft(w, n) == [i \in Lanes |-> IF i + n < MLEN THEN w[i + n] ELSE {}]
LsftMask(m, n) == {i \in Lanes : i >= n /\ i - n \in m}
RsftMask(m, n) == {i \in Lanes : i + n \in m}

\* The request, of which an undriven bus shows a read of word 0.
sram_req_vld == req # None
sram_req == IF sram_req_vld THEN req ELSE [read |-> TRUE, addr |-> 0, mask |-> {}]
sram_req_data == [i \in Lanes |-> {Size + i}]

byte_offset   == sram_req.addr % MLEN
diff_offset   == (MLEN - byte_offset) % MLEN
base_addr     == sram_req.addr \div MLEN
base_addr_add_NoCarry == base_addr
base_addr_add == (base_addr + 1) % SPAN

addr_misalign == sram_req_vld /\ byte_offset # 0
addr_overflow == \/ sram_req_vld /\ base_addr >= SRAM_DP
                 \/ addr_misalign_r /\ base_addr_r >= SRAM_DP
misalign_hit  == addr_misalign /\ addr_misalign_r

\* To the memory.
sram_ce   == (sram_req_vld \/ misalign_hit) /\ ~addr_overflow
sram_we   == IF misalign_hit THEN ~req_read_r ELSE ~sram_req.read
sram_addr == IF misalign_hit THEN base_addr_r ELSE base_addr
sram_wdat == IF misalign_hit THEN req_data_r ELSE Lsft(sram_req_data, byte_offset)
sram_mask == IF misalign_hit THEN req_mask_r ELSE LsftMask(sram_req.mask, byte_offset)

\* From the memory.
rsft_rdat == Rsft(qr, byte_offset_r)
lsft_rdat == Lsft(qr, diff_offset_r)
comb_rdat == [i \in Lanes |-> rsft_rdat_r[i] \cup lsft_rdat[i]]

\* To the bus.
sram_req_rdy_AtOnce == TRUE
sram_req_rdy  == ~addr_misalign \/ addr_misalign_r
sram_rsp_data_NotBuffered == IF addr_misalign_rr THEN comb_rdat ELSE qr
sram_rsp_data == IF addr_misalign_rr THEN comb_rdat
                 ELSE IF ~addr_misalign_r /\ ram_read_p THEN qr
                 ELSE rsp_data_r
sram_req_fire == sram_req_vld /\ sram_req_rdy
sram_rsp_fire == sram_rsp_vld_r /\ rsp_rdy

-----------------------------------------------------------------------------
\* uv_sram_sp.v: a masked write, or a read into the output register.
Ram ==
    /\ ram' = IF sram_ce /\ sram_we
              THEN [ram EXCEPT ![sram_addr] =
                       [i \in Lanes |-> IF i \in sram_mask THEN sram_wdat[i] ELSE @[i]]]
              ELSE ram
    /\ qr' = IF sram_ce /\ ~sram_we THEN ram[sram_addr] ELSE qr

UpdateMisalign ==
    /\ addr_misalign_r' = (~addr_misalign_r /\ addr_misalign)
    /\ addr_misalign_rr' = misalign_hit

UpdateOffsets ==
    /\ byte_offset_r' = IF sram_req_vld THEN byte_offset ELSE byte_offset_r
    /\ diff_offset_r' = IF addr_misalign_r THEN (MLEN - byte_offset_r) % MLEN ELSE diff_offset_r

\* What the second cycle of a misaligned access needs.
UpdateSecond ==
    IF addr_misalign
    THEN /\ base_addr_r' = base_addr_add
         /\ req_read_r' = sram_req.read
         /\ req_data_r' = Rsft(sram_req_data, diff_offset)
         /\ req_mask_r' = RsftMask(sram_req.mask, diff_offset)
    ELSE UNCHANGED <<base_addr_r, req_read_r, req_data_r, req_mask_r>>

UpdateRsp ==
    /\ sram_rsp_vld_r' = (sram_req_fire \/ (sram_rsp_vld_r /\ ~sram_rsp_fire))
    /\ sram_rsp_excp_r' = IF sram_req_fire THEN addr_overflow
                          ELSE sram_rsp_excp_r /\ ~sram_rsp_fire

UpdateData ==
    /\ ram_read_p' = (sram_ce /\ ~sram_we)
    /\ rsft_rdat_r' = IF addr_misalign_r THEN rsft_rdat ELSE rsft_rdat_r
    /\ rsp_data_r' = IF addr_misalign_rr THEN comb_rdat
                     ELSE IF ~addr_misalign_r /\ ram_read_p THEN qr ELSE rsp_data_r

\* The fabric's side of the port (Client of module SlavePort).
Drive ==
    /\ req' \in IF sram_req_vld /\ ~sram_req_fire THEN {req}
               ELSE Reads \cup (IF writes' < MaxWrites THEN Writes ELSE {}) \cup {None}
    /\ rsp_rdy' \in BOOLEAN
    /\ req' # None => owed' = None \/ (sram_rsp_vld_r' /\ rsp_rdy')

\* What the requests mean: a write changes the bytes from its address on, a
\* byte past the end of the bank being the first one of the bank.
Track ==
    /\ owed' = IF sram_req_fire THEN req ELSE IF sram_rsp_fire THEN None ELSE owed
    /\ ref' = IF sram_req_fire /\ ~req.read
              THEN [b \in Addrs |-> LET i == (b - req.addr) % Size
                                    IN IF i \in req.mask THEN sram_req_data[i] ELSE ref[b]]
              ELSE ref
    /\ writes' = IF sram_req_fire /\ ~req.read THEN writes + 1 ELSE writes

Init ==
    /\ ram = [w \in 0 .. SPAN - 1 |-> [i \in Lanes |-> {w * MLEN + i}]]
    /\ qr = Zero
    /\ addr_misalign_r = FALSE /\ addr_misalign_rr = FALSE
    /\ byte_offset_r = 0 /\ diff_offset_r = 0 /\ base_addr_r = 0
    /\ req_read_r = FALSE /\ req_data_r = Zero /\ req_mask_r = {}
    /\ ram_read_p = FALSE /\ rsft_rdat_r = Zero /\ rsp_data_r = Zero
    /\ sram_rsp_vld_r = FALSE /\ sram_rsp_excp_r = FALSE
    /\ req = None /\ rsp_rdy \in BOOLEAN
    /\ owed = None /\ ref = [b \in Addrs |-> {b}] /\ writes = 0

\* One rising clock edge.
Clock == Ram /\ UpdateMisalign /\ UpdateOffsets /\ UpdateSecond /\ UpdateRsp /\ UpdateData

Next == Clock /\ Track /\ Drive

Spec == Init /\ [][Next]_vars

-----------------------------------------------------------------------------
\* Every register stays within its width; in particular the base address of
\* the second cycle names a word of the bank when the first one named the last.
TypeOK ==
    /\ ram \in [0 .. SPAN - 1 -> [Lanes -> Bytes]] /\ qr \in [Lanes -> Bytes]
    /\ {addr_misalign_r, addr_misalign_rr, req_read_r, ram_read_p, sram_rsp_vld_r,
        sram_rsp_excp_r, rsp_rdy} \subseteq BOOLEAN
    /\ byte_offset_r \in Lanes /\ diff_offset_r \in Lanes
    /\ base_addr_r \in 0 .. SPAN - 1
    /\ {req_data_r, rsft_rdat_r, rsp_data_r} \subseteq [Lanes -> Bytes]
    /\ req_mask_r \subseteq Lanes
    /\ {req, owed} \subseteq Reads \cup Writes \cup {None}
    /\ ref \in [Addrs -> Bytes] /\ writes \in 0 .. MaxWrites

\* Every answered read returns the bytes the earlier writes left from its
\* address on, whether the access was aligned or not, however long the
\* answer waits and whatever was accessed before.
ReadsSeeWrites ==
    sram_rsp_vld_r /\ owed.read /\ ~sram_rsp_excp_r =>
        \A i \in Lanes : sram_rsp_data[i] = ref[(owed.addr + i) % Size]

\* Between accesses the memory holds what the requests taken so far mean: a
\* misaligned write has reached both its words when it is acknowledged.
WritesWhole ==
    ~addr_misalign_r => \A b \in Addrs : ram[b \div MLEN][b % MLEN] = ref[b]

Port == INSTANCE SlavePort WITH
            Reqs <- Reads \cup Writes, req_rdy <- sram_req_rdy,
            rsp <- IF sram_rsp_vld_r THEN [excp |-> sram_rsp_excp_r, data |-> sram_rsp_data]
                   ELSE None

\* The controller is a slave as the fabric expects it: one answer for every
\* request it has taken, held up unchanged until it is taken.
ImplementsSlavePort == Port!Spec

=============================================================================
