------------------------- MODULE SramBusCtrlProofs -------------------------
(***************************************************************************)
(* Proofs about module SramBusCtrl, for every word size, bank size and     *)
(* number of writes: the controller is a slave as the fabric expects it    *)
(* and, with the memory as deep as its address range, an access is one     *)
(* access, also when it takes two cycles.                                  *)
(***************************************************************************)
EXTENDS SramBusCtrl, TLAPS

-----------------------------------------------------------------------------
(* Addresses: a byte is a word and a lane, and an access of a word from any *)
(* byte on touches the lanes of one word or of two.                        *)

\* Division by a word size, in general.
LEMMA Division ==
    \A m, k, l, a \in Nat : m > 1 =>
        /\ a \div m \in Nat /\ a % m \in 0 .. m - 1 /\ ((a \div m) * m) + (a % m) = a
        /\ l < m => (k * m + l) \div m = k /\ (k * m + l) % m = l
OBVIOUS

\* The remainder of numbers within one modulus of the range.
LEMMA Remainder ==
    \A s \in Nat, z \in Int : s > 0 =>
        /\ 0 <= z /\ z < s => z % s = z
        /\ s <= z /\ z < s + s => z % s = z - s
        /\ 0 - s <= z /\ z < 0 => z % s = z + s
OBVIOUS

\* The size of the bank in bytes.
LEMMA SizeFacts ==
    /\ MLEN \in Nat /\ MLEN > 1 /\ SPAN \in Nat /\ SPAN > 0
    /\ Size \in Nat /\ Size >= MLEN
    /\ \A k \in 0 .. SPAN - 1, l \in Lanes : k * MLEN + l \in Nat /\ k * MLEN + l < Size
    /\ \A k, l \in Nat : k * MLEN + l < Size => k < SPAN
<1>1. MLEN \in Nat /\ MLEN > 1 /\ SPAN \in Nat /\ SPAN > 0
  BY SramAssumption
<1>2. \A m, n, k, l \in Nat : m > 1 /\ n > 0 =>
          /\ m * n \in Nat /\ m * n >= m
          /\ k < n /\ l < m => k * m + l \in Nat /\ k * m + l < m * n
          /\ k * m + l < m * n => k < n
  <2> SUFFICES ASSUME NEW m \in Nat, NEW n \in Nat, NEW k \in Nat, NEW l \in Nat, m > 1, n > 0
               PROVE  /\ m * n \in Nat /\ m * n >= m
                      /\ k < n /\ l < m => k * m + l \in Nat /\ k * m + l < m * n
                      /\ k * m + l < m * n => k < n
    OBVIOUS
  <2>1. m * n \in Nat /\ m * n >= m
    OBVIOUS
  <2>2. ASSUME k < n, l < m PROVE k * m + l \in Nat /\ k * m + l < m * n
    <3>1. (k + 1) * m <= n * m
      BY <2>2
    <3> QED BY <2>2, <3>1
  <2>3. ASSUME k * m + l < m * n PROVE k < n
    <3>1. k >= n => k * m >= n * m
      OBVIOUS
    <3> QED BY <2>3, <3>1
  <2> QED BY <2>1, <2>2, <2>3
<1> QED BY <1>1, <1>2 DEF Size, Lanes

\* A byte's address is that of its word and its lane.
LEMMA WordAndLane ==
    ASSUME NEW a \in Addrs
    PROVE  /\ a \div MLEN \in 0 .. SPAN - 1 /\ a % MLEN \in Lanes
           /\ a = ((a \div MLEN) * MLEN) + (a % MLEN)
<1>1. a \in Nat /\ a < Size
  BY SizeFacts DEF Addrs
<1>2. a \div MLEN \in Nat /\ a % MLEN \in 0 .. MLEN - 1 /\ a = ((a \div MLEN) * MLEN) + (a % MLEN)
  BY <1>1, SizeFacts, Division
<1> QED BY <1>1, <1>2, SizeFacts DEF Lanes

\* And every word and lane make one.
LEMMA AddrOfLane ==
    ASSUME NEW k \in 0 .. SPAN - 1, NEW l \in Lanes
    PROVE  /\ k * MLEN + l \in Addrs
           /\ (k * MLEN + l) \div MLEN = k /\ (k * MLEN + l) % MLEN = l
<1>1. k \in Nat /\ l \in Nat /\ l < MLEN
  BY SizeFacts DEF Lanes
<1>2. k * MLEN + l \in Nat /\ k * MLEN + l < Size
  BY SizeFacts
<1>3. (k * MLEN + l) \div MLEN = k /\ (k * MLEN + l) % MLEN = l
  <2>1. \A m \in Nat : m > 1 /\ l < m => (k * m + l) \div m = k /\ (k * m + l) % m = l
    BY <1>1, Division
  <2> QED BY <1>1, <2>1, SizeFacts
<1> QED BY <1>2, <1>3, SizeFacts DEF Addrs

\* The byte i places behind a is in the same word or in the next.
LEMMA ByteBehind ==
    ASSUME NEW a \in Addrs, NEW i \in Lanes
    PROVE  LET b == (a + i) % Size
               n == a % MLEN
           IN  /\ b \in Addrs
               /\ n + i < MLEN => b \div MLEN = a \div MLEN /\ b % MLEN = n + i
               /\ n + i >= MLEN => /\ b \div MLEN = ((a \div MLEN) + 1) % SPAN
                                   /\ b % MLEN = n + i - MLEN
<1> DEFINE k == a \div MLEN
           n == a % MLEN
<1>1. k \in 0 .. SPAN - 1 /\ n \in 0 .. MLEN - 1 /\ a = k * MLEN + n /\ i \in 0 .. MLEN - 1
  BY WordAndLane DEF Lanes
<1>2. a \in Nat /\ a < Size /\ i \in Nat /\ i < Size
  BY SizeFacts DEF Addrs, Lanes
<1>3. (a + i) % Size = IF a + i < Size THEN a + i ELSE a + i - Size
  BY <1>2, SizeFacts, Remainder
<1> HIDE DEF k, n
<1>4. CASE n + i < MLEN
  <2>1. n + i \in Lanes /\ a + i = k * MLEN + (n + i)
    BY <1>1, <1>4, SizeFacts DEF Lanes
  <2>2. k * MLEN + (n + i) \in Addrs /\ (k * MLEN + (n + i)) \div MLEN = k
        /\ (k * MLEN + (n + i)) % MLEN = n + i
    BY <1>1, <2>1, AddrOfLane
  <2>3. (a + i) % Size = k * MLEN + (n + i)
    BY <1>3, <2>1, <2>2, SizeFacts DEF Addrs
  <2>4. ~ (n + i >= MLEN)
    BY <1>1, <1>4, SizeFacts
  <2> QED BY <2>2, <2>3, <2>4 DEF k, n
<1>5. CASE n + i >= MLEN
  <2> DEFINE l == n + i - MLEN
  <2>1. l \in Lanes
    BY <1>1, <1>5, SizeFacts DEF Lanes
  <2>2. (k + 1) * MLEN = k * MLEN + MLEN /\ a + i = (k + 1) * MLEN + l
    BY <1>1, <1>5, SizeFacts
  <2>3. CASE k + 1 < SPAN
    <3>1. k + 1 \in 0 .. SPAN - 1 /\ (k + 1) % SPAN = k + 1
      BY <1>1, <2>3, SizeFacts, Remainder
    <3>2. /\ (k + 1) * MLEN + l \in Addrs /\ ((k + 1) * MLEN + l) \div MLEN = k + 1
          /\ ((k + 1) * MLEN + l) % MLEN = l
      BY <2>1, <3>1, AddrOfLane
    <3>3. (a + i) % Size = (k + 1) * MLEN + l
      BY <1>3, <2>2, <3>2, SizeFacts DEF Addrs
    <3>4. ~ (n + i < MLEN)
      BY <1>1, <1>5, SizeFacts
    <3> QED BY <3>1, <3>2, <3>3, <3>4 DEF k, n
  <2>4. CASE k + 1 = SPAN
    <3>1. (k + 1) % SPAN = 0 /\ 0 \in 0 .. SPAN - 1
      BY <2>4, SizeFacts, Remainder
    <3>2. (k + 1) * MLEN = Size
      BY <2>4, SizeFacts DEF Size
    <3>3. 0 * MLEN + l = l
      BY <2>1, SizeFacts DEF Lanes
    <3>4. l \in Addrs /\ l \div MLEN = 0 /\ l % MLEN = l
      BY <2>1, <3>1, <3>3, AddrOfLane
    <3>5. (a + i) % Size = l
      <4>1. l \in Nat /\ l < Size /\ a + i = Size + l
        BY <2>2, <3>2, <3>4, SizeFacts DEF Addrs
      <4> HIDE DEF l
      <4> QED BY <1>2, <1>3, <4>1, SizeFacts
    <3>6. ~ (n + i < MLEN)
      BY <1>1, <1>5, SizeFacts
    <3> QED BY <3>1, <3>4, <3>5, <3>6 DEF k, n
  <2> QED BY <1>1, <2>3, <2>4, SizeFacts
<1>6. n + i < MLEN \/ n + i >= MLEN
  BY <1>1, SizeFacts
<1> QED BY <1>4, <1>5, <1>6

\* How far a byte is behind a, and back.
LEMMA Distance ==
    ASSUME NEW a \in Addrs, NEW b \in Addrs
    PROVE  /\ (b - a) % Size \in Addrs
           /\ (a + ((b - a) % Size)) % Size = b
           /\ \A i \in Addrs : (a + i) % Size = b => (b - a) % Size = i
<1>1. a \in Nat /\ a < Size /\ b \in Nat /\ b < Size
  BY SizeFacts DEF Addrs
<1>2. (b - a) % Size = IF a <= b THEN b - a ELSE b - a + Size
  BY <1>1, SizeFacts, Remainder
<1>3. \A i \in Addrs : (a + i) % Size = IF a + i < Size THEN a + i ELSE a + i - Size
  BY <1>1, SizeFacts, Remainder DEF Addrs
<1> QED BY <1>1, <1>2, <1>3, SizeFacts DEF Addrs

-----------------------------------------------------------------------------
(* The invariants.                                                         *)

\* The port: an answer is up for exactly what is owed, the next request comes
\* no earlier than the answer is taken, and the second cycle of a misaligned
\* access is that of the request on the bus, with nothing owed.
Handshake ==
    /\ sram_rsp_vld_r <=> owed # None
    /\ req # None => owed = None \/ (sram_rsp_vld_r /\ rsp_rdy)
    /\ req # None /\ ~req.read => writes < MaxWrites
    /\ addr_misalign_r => req # None /\ byte_offset # 0 /\ ~sram_rsp_vld_r

\* What the second cycle finds in the registers: the other word, and the
\* bytes of the request that go into it.
Second ==
    addr_misalign_r => /\ base_addr_r = base_addr_add /\ req_read_r = req.read
                       /\ req_data_r = Rsft(sram_req_data, diff_offset)
                       /\ req_mask_r = RsftMask(req.mask, diff_offset)
                       /\ byte_offset_r = byte_offset
                       /\ req.read => qr = ram[base_addr]

\* The bytes of a misaligned write that its first cycle writes.
InFirst(b) == /\ addr_misalign_r /\ ~req.read
              /\ b \div MLEN = base_addr /\ b % MLEN >= byte_offset
              /\ (b % MLEN) - byte_offset \in req.mask

\* The memory holds what the requests mean, but for a write half done.
Contents ==
    \A b \in Addrs : ram[b \div MLEN][b % MLEN] =
        IF InFirst(b) THEN {Size + ((b % MLEN) - byte_offset)} ELSE ref[b]

-----------------------------------------------------------------------------
(* Types.                                                                  *)

\* What the bus shows: a request in the bank.
LEMMA RequestType ==
    ASSUME TypeOK
    PROVE  /\ req # None => /\ req \in Reads \cup Writes /\ sram_req = req /\ req.read \in BOOLEAN
                            /\ req.addr \in Addrs /\ req.mask \subseteq Lanes
           /\ sram_req.addr \in Addrs /\ sram_req.read \in BOOLEAN /\ sram_req.mask \subseteq Lanes
           /\ byte_offset \in Lanes /\ diff_offset \in Lanes
           /\ base_addr \in 0 .. SPAN - 1 /\ base_addr_add \in 0 .. SPAN - 1
<1>1. \A m \in Masks : m \subseteq Lanes
  BY SizeFacts DEF Masks, Lanes
<1>2. req # None => /\ req \in Reads \cup Writes /\ sram_req = req /\ req.read \in BOOLEAN
                    /\ req.addr \in Addrs /\ req.mask \subseteq Lanes
  <2> SUFFICES ASSUME req # None
               PROVE  /\ req \in Reads \cup Writes /\ sram_req = req /\ req.read \in BOOLEAN
                      /\ req.addr \in Addrs /\ req.mask \subseteq Lanes
    OBVIOUS
  <2>1. req \in Reads \cup Writes /\ sram_req = req
    BY DEF TypeOK, sram_req, sram_req_vld
  <2> QED BY <1>1, <2>1 DEF Reads, Writes
<1>3. 0 \in Addrs
  BY SizeFacts DEF Addrs
<1>4. sram_req.addr \in Addrs /\ sram_req.read \in BOOLEAN /\ sram_req.mask \subseteq Lanes
  BY <1>2, <1>3 DEF sram_req, sram_req_vld
<1>5. byte_offset \in Lanes /\ base_addr \in 0 .. SPAN - 1
  BY <1>4, WordAndLane DEF byte_offset, base_addr
<1>6. diff_offset \in Lanes
  <2>1. byte_offset \in 0 .. MLEN - 1
    BY <1>5 DEF Lanes
  <2>2. MLEN - byte_offset \in 1 .. MLEN
    BY <2>1, SizeFacts
  <2>3. (MLEN - byte_offset) % MLEN \in 0 .. MLEN - 1
    BY <2>2, SizeFacts, Remainder
  <2> QED BY <2>3 DEF diff_offset, Lanes
<1>7. base_addr_add \in 0 .. SPAN - 1
  <2>1. base_addr + 1 \in 1 .. SPAN
    BY <1>5, SizeFacts
  <2> QED BY <2>1, SizeFacts, Remainder DEF base_addr_add
<1> QED BY <1>2, <1>4, <1>5, <1>6, <1>7

\* Shifts keep words words and masks masks.
LEMMA ShiftType ==
    ASSUME NEW w \in [Lanes -> Bytes], NEW n \in Lanes, NEW m
    PROVE  /\ Lsft(w, n) \in [Lanes -> Bytes] /\ Rsft(w, n) \in [Lanes -> Bytes]
           /\ LsftMask(m, n) \subseteq Lanes /\ RsftMask(m, n) \subseteq Lanes
<1>1. {} \in Bytes
  BY DEF Bytes
<1>2. \A i \in Lanes : (i >= n => i - n \in Lanes) /\ (i + n < MLEN => i + n \in Lanes)
  BY SizeFacts DEF Lanes
<1> QED BY <1>1, <1>2 DEF Lsft, Rsft, LsftMask, RsftMask

\* The word written is a word of bytes.
LEMMA DataType == sram_req_data \in [Lanes -> Bytes]
<1>1. \A i \in Lanes : {Size + i} \subseteq 0 .. Size + MLEN - 1
  BY SizeFacts DEF Lanes
<1> QED BY <1>1 DEF sram_req_data, Bytes

\* What the memory and the bus are shown are words.
LEMMA WireType ==
    ASSUME TypeOK
    PROVE  /\ sram_addr \in 0 .. SPAN - 1 /\ sram_wdat \in [Lanes -> Bytes]
           /\ sram_mask \subseteq Lanes
           /\ rsft_rdat \in [Lanes -> Bytes] /\ comb_rdat \in [Lanes -> Bytes]
           /\ sram_rsp_data \in [Lanes -> Bytes]
<1>1. /\ qr \in [Lanes -> Bytes] /\ rsft_rdat_r \in [Lanes -> Bytes] /\ rsp_data_r \in [Lanes -> Bytes]
      /\ req_data_r \in [Lanes -> Bytes] /\ req_mask_r \subseteq Lanes
      /\ byte_offset_r \in Lanes /\ diff_offset_r \in Lanes /\ base_addr_r \in 0 .. SPAN - 1
  BY DEF TypeOK
<1>2. sram_addr \in 0 .. SPAN - 1
  BY <1>1, RequestType DEF sram_addr
<1>3. sram_wdat \in [Lanes -> Bytes] /\ sram_mask \subseteq Lanes
  BY <1>1, RequestType, DataType, ShiftType DEF sram_wdat, sram_mask
<1>4. rsft_rdat \in [Lanes -> Bytes] /\ lsft_rdat \in [Lanes -> Bytes]
  BY <1>1, ShiftType DEF rsft_rdat, lsft_rdat
<1>5. comb_rdat \in [Lanes -> Bytes]
  <2>1. \A x, y \in Bytes : x \cup y \in Bytes
    BY DEF Bytes
  <2> QED BY <1>1, <1>4, <2>1 DEF comb_rdat
<1> QED BY <1>1, <1>2, <1>3, <1>4, <1>5 DEF sram_rsp_data

\* Every clock edge keeps the registers in their types.
LEMMA TypeStep == ASSUME TypeOK, Handshake, Next PROVE TypeOK'
<1> USE DEF Next, Clock
<1>1. ram' \in [0 .. SPAN - 1 -> [Lanes -> Bytes]] /\ qr' \in [Lanes -> Bytes]
  BY WireType DEF Ram, TypeOK
<1>2. addr_misalign_r' \in BOOLEAN /\ addr_misalign_rr' \in BOOLEAN
  BY DEF UpdateMisalign, addr_misalign, misalign_hit, sram_req_vld
<1>3. byte_offset_r' \in Lanes /\ diff_offset_r' \in Lanes
  <2>1. (MLEN - byte_offset_r) % MLEN \in Lanes
    <3>1. byte_offset_r \in 0 .. MLEN - 1
      BY DEF TypeOK, Lanes
    <3>2. MLEN - byte_offset_r \in 1 .. MLEN
      BY <3>1, SizeFacts
    <3> QED BY <3>2, SizeFacts, Remainder DEF Lanes
  <2> QED BY <2>1, RequestType DEF UpdateOffsets, TypeOK
<1>4. /\ base_addr_r' \in 0 .. SPAN - 1 /\ req_read_r' \in BOOLEAN
      /\ req_data_r' \in [Lanes -> Bytes] /\ req_mask_r' \subseteq Lanes
  BY RequestType, DataType, ShiftType DEF UpdateSecond, TypeOK
<1>5. sram_rsp_vld_r' \in BOOLEAN /\ sram_rsp_excp_r' \in BOOLEAN
  BY DEF UpdateRsp, TypeOK, addr_overflow, sram_req_fire, sram_req_vld
<1>6. /\ ram_read_p' \in BOOLEAN /\ rsft_rdat_r' \in [Lanes -> Bytes]
      /\ rsp_data_r' \in [Lanes -> Bytes]
  <2>1. ram_read_p' \in BOOLEAN
    BY DEF UpdateData, sram_ce
  <2> QED BY <2>1, WireType DEF UpdateData, TypeOK
<1>7. req' \in Reads \cup Writes \cup {None} /\ rsp_rdy' \in BOOLEAN
  BY DEF Drive, TypeOK
<1>8. owed' \in Reads \cup Writes \cup {None}
  BY DEF Track, TypeOK
<1>9. ref' \in [Addrs -> Bytes]
  <2>1. \A b \in Addrs : \A i \in req.mask : sram_req_fire => sram_req_data[i] \in Bytes
    BY RequestType, DataType DEF sram_req_fire, sram_req_vld
  <2>2. CASE sram_req_fire /\ ~req.read
    <3>1. ref' = [b \in Addrs |-> IF (b - req.addr) % Size \in req.mask
                                  THEN sram_req_data[(b - req.addr) % Size] ELSE ref[b]]
      BY <2>2 DEF Track
    <3>2. ref \in [Addrs -> Bytes]
      BY DEF TypeOK
    <3>3. \A b \in Addrs : (IF (b - req.addr) % Size \in req.mask
                            THEN sram_req_data[(b - req.addr) % Size] ELSE ref[b]) \in Bytes
      BY <2>1, <2>2, <3>2
    <3> QED BY <3>1, <3>3
  <2>3. CASE ~(sram_req_fire /\ ~req.read)
    BY <2>3 DEF Track, TypeOK
  <2> QED BY <2>2, <2>3
<1>10. writes' \in 0 .. MaxWrites
  <2>1. writes \in 0 .. MaxWrites /\ MaxWrites \in Nat
    BY SramAssumption DEF TypeOK
  <2>2. sram_req_fire /\ ~req.read => writes < MaxWrites
    BY DEF Handshake, sram_req_fire, sram_req_vld
  <2> QED BY <2>1, <2>2 DEF Track
<1> QED BY <1>1, <1>2, <1>3, <1>4, <1>5, <1>6, <1>7, <1>8, <1>9, <1>10 DEF TypeOK

-----------------------------------------------------------------------------
(* The port.                                                               *)

\* A request that is on the bus and not taken yet stays as it is.
LEMMA Held ==
    ASSUME TypeOK, Handshake, Next, req # None, ~sram_req_fire
    PROVE  /\ req' = req /\ sram_req' = sram_req /\ byte_offset' = byte_offset
           /\ base_addr' = base_addr /\ diff_offset' = diff_offset
           /\ base_addr_add' = base_addr_add
<1>1. req' = req
  BY DEF Next, Drive, sram_req_vld
<1> QED BY <1>1 DEF sram_req, sram_req_vld, byte_offset, base_addr, diff_offset, base_addr_add

\* The port is kept at every clock edge.
LEMMA HandshakeStep == ASSUME TypeOK, Handshake, Next PROVE Handshake'
<1>1. (sram_rsp_vld_r <=> owed # None)'
  <2>1. /\ sram_rsp_vld_r' <=> sram_req_fire \/ (sram_rsp_vld_r /\ ~sram_rsp_fire)
        /\ owed' = IF sram_req_fire THEN req ELSE IF sram_rsp_fire THEN None ELSE owed
    BY DEF Next, Clock, UpdateRsp, Track
  <2>2. sram_req_fire => req # None
    BY DEF sram_req_fire, sram_req_vld
  <2>3. sram_rsp_vld_r <=> owed # None
    BY DEF Handshake
  <2>4. sram_rsp_fire => sram_rsp_vld_r
    BY DEF sram_rsp_fire
  <2> QED BY <2>1, <2>2, <2>3, <2>4
<1>2. (req # None => owed = None \/ (sram_rsp_vld_r /\ rsp_rdy))'
  BY DEF Next, Drive
<1>3. (req # None /\ ~req.read => writes < MaxWrites)'
  <2>1. CASE sram_req_vld /\ ~sram_req_fire
    <3>1. req' = req /\ writes' = writes
      BY <2>1, Held DEF Next, Track, sram_req_vld
    <3> QED BY <3>1 DEF Handshake
  <2>2. CASE ~(sram_req_vld /\ ~sram_req_fire)
    <3>1. req' \in Reads \cup (IF writes' < MaxWrites THEN Writes ELSE {}) \cup {None}
      BY <2>2 DEF Next, Drive
    <3>2. req' \in Reads => req'.read = TRUE
      BY DEF Reads
    <3> QED BY <3>1, <3>2
  <2> QED BY <2>1, <2>2
<1>4. (addr_misalign_r => req # None /\ byte_offset # 0 /\ ~sram_rsp_vld_r)'
  <2> SUFFICES ASSUME addr_misalign_r'
               PROVE  req' # None /\ byte_offset' # 0 /\ ~sram_rsp_vld_r'
    OBVIOUS
  <2>1. ~addr_misalign_r /\ addr_misalign
    <3>1. addr_misalign_r' = (~addr_misalign_r /\ addr_misalign)
      BY DEF Next, Clock, UpdateMisalign
    <3> QED BY <3>1, Zenon
  <2>2. req # None /\ byte_offset # 0 /\ ~sram_req_fire
    BY <2>1 DEF addr_misalign, sram_req_vld, sram_req_fire, sram_req_rdy
  <2>3. sram_rsp_vld_r => sram_rsp_fire
    BY <2>2 DEF Handshake, sram_rsp_fire
  <2> QED BY <2>2, <2>3, Held DEF Next, Clock, UpdateRsp
<1> QED BY <1>1, <1>2, <1>3, <1>4 DEF Handshake

\* The registers after reset.
LEMMA InitType == ASSUME Init PROVE TypeOK /\ Handshake
<1>1. \A w \in 0 .. SPAN - 1, i \in Lanes : {w * MLEN + i} \in Bytes
  <2>1. \A w \in 0 .. SPAN - 1, i \in Lanes : w * MLEN + i \in Nat /\ w * MLEN + i < Size
    BY SizeFacts
  <2>2. \A n \in Nat : n < Size => n \in 0 .. Size + MLEN - 1
    BY SizeFacts
  <2> QED BY <2>1, <2>2 DEF Bytes
<1>2. \A b \in Addrs : {b} \in Bytes
  BY SizeFacts DEF Bytes, Addrs
<1>3. Zero \in [Lanes -> Bytes]
  BY DEF Zero, Bytes
<1>4. 0 \in Lanes /\ 0 \in 0 .. SPAN - 1 /\ 0 \in 0 .. MaxWrites
  BY SizeFacts, SramAssumption DEF Lanes
<1>5. ram \in [0 .. SPAN - 1 -> [Lanes -> Bytes]]
  <2>1. ram = [w \in 0 .. SPAN - 1 |-> [i \in Lanes |-> {w * MLEN + i}]]
    BY DEF Init
  <2> DEFINE word(w) == [i \in Lanes |-> {w * MLEN + i}]
  <2>2. \A w \in 0 .. SPAN - 1 : word(w) \in [Lanes -> Bytes]
    <3> SUFFICES ASSUME NEW w \in 0 .. SPAN - 1 PROVE word(w) \in [Lanes -> Bytes]
      BY Zenon
    <3>1. \A i \in Lanes : {w * MLEN + i} \in Bytes
      BY <1>1, Zenon
    <3> QED BY <3>1, Zenon
  <2>3. ram = [w \in 0 .. SPAN - 1 |-> word(w)]
    BY <2>1
  <2> HIDE DEF word
  <2> QED BY <2>2, <2>3
<1>6. ref \in [Addrs -> Bytes]
  BY <1>2 DEF Init
<1>7. TypeOK
  <2> DEFINE word == [Lanes -> Bytes]
  <2>1. qr \in word /\ req_data_r \in word /\ rsft_rdat_r \in word /\ rsp_data_r \in word
    BY <1>3 DEF Init
  <2>2. /\ {addr_misalign_r, addr_misalign_rr, req_read_r, ram_read_p, sram_rsp_vld_r,
            sram_rsp_excp_r, rsp_rdy} \subseteq BOOLEAN
        /\ byte_offset_r \in Lanes /\ diff_offset_r \in Lanes /\ base_addr_r \in 0 .. SPAN - 1
        /\ req_mask_r \subseteq Lanes /\ req = None /\ owed = None /\ writes \in 0 .. MaxWrites
    BY <1>4 DEF Init
  <2> QED BY <1>5, <1>6, <2>1, <2>2 DEF TypeOK
<1> QED BY <1>7 DEF Init, Handshake

\* Every register stays within its width, and the port keeps its discipline,
\* whatever the fabric asks for.
THEOREM Invariance == Spec => [](TypeOK /\ Handshake)
<1>1. Init => TypeOK /\ Handshake
  BY InitType
<1>2. TypeOK /\ Handshake /\ [Next]_vars => TypeOK' /\ Handshake'
  <2> SUFFICES ASSUME TypeOK, Handshake, [Next]_vars PROVE TypeOK' /\ Handshake'
    OBVIOUS
  <2>1. CASE Next
    BY <2>1, TypeStep, HandshakeStep
  <2>2. CASE UNCHANGED vars
    <3>1. TypeOK'
      BY <2>2 DEF vars, regs, TypeOK
    <3>2. Handshake'
      BY <2>2 DEF vars, regs, Handshake, byte_offset, sram_req, sram_req_vld
    <3> QED BY <3>1, <3>2
  <2> QED BY <2>1, <2>2
<1> QED BY <1>1, <1>2, PTL DEF Spec

\* Every register of the controller keeps its type.
THEOREM TypeCorrect == Spec => []TypeOK
BY Invariance, PTL

-----------------------------------------------------------------------------
(* The refinement.                                                         *)

\* While an answer waits the memory is left alone, and the answer stays up.
LEMMA AnswerKept ==
    ASSUME TypeOK, Handshake, Next, sram_rsp_vld_r, ~sram_rsp_fire
    PROVE  /\ req = None /\ sram_rsp_vld_r' /\ ~addr_misalign_r' /\ ram' = ram /\ ref' = ref
           /\ owed' = owed /\ sram_rsp_excp_r' = sram_rsp_excp_r
           /\ sram_rsp_data' = sram_rsp_data
<1>1. req = None /\ ~addr_misalign_r
  BY DEF Handshake, sram_rsp_fire
<1>2. ~addr_misalign /\ ~misalign_hit /\ ~sram_ce /\ ~sram_req_fire
  BY <1>1 DEF addr_misalign, misalign_hit, sram_ce, sram_req_fire, sram_req_vld
<1>3. /\ addr_misalign_r' = FALSE /\ addr_misalign_rr' = FALSE /\ ram_read_p' = FALSE
      /\ ram' = ram /\ ref' = ref /\ owed' = owed
  <2>1. addr_misalign_r' = FALSE /\ addr_misalign_rr' = FALSE
    <3>1. addr_misalign_r' = (~addr_misalign_r /\ addr_misalign) /\ addr_misalign_rr' = misalign_hit
      BY DEF Next, Clock, UpdateMisalign
    <3>2. misalign_hit = FALSE
      BY <1>2 DEF misalign_hit, addr_misalign
    <3> QED BY <1>2, <3>1, <3>2, Zenon
  <2>2. ram_read_p' = FALSE
    <3>1. ram_read_p' = (sram_ce /\ ~sram_we)
      BY DEF Next, Clock, UpdateData
    <3> QED BY <1>2, <3>1, Zenon
  <2>3. ram' = ram
    BY <1>2 DEF Next, Clock, Ram
  <2>4. ref' = ref /\ owed' = owed
    BY <1>2 DEF Next, Track
  <2> QED BY <2>1, <2>2, <2>3, <2>4
<1>4. sram_rsp_vld_r' /\ sram_rsp_excp_r' = sram_rsp_excp_r
  BY <1>2 DEF Next, Clock, UpdateRsp, TypeOK
<1>5. sram_rsp_data' = rsp_data_r'
  BY <1>3 DEF sram_rsp_data
<1>6. rsp_data_r' = sram_rsp_data
  BY DEF Next, Clock, UpdateData, sram_rsp_data
<1> QED BY <1>1, <1>3, <1>4, <1>5, <1>6

\* The controller is a slave as the fabric expects it, also when the memory
\* is smaller than its address range.
THEOREM ControllerImplementsPort == Spec => ImplementsSlavePort
<1> DEFINE rsp == IF sram_rsp_vld_r THEN [excp |-> sram_rsp_excp_r, data |-> sram_rsp_data]
                  ELSE None
<1>d. TypeOK => sram_rsp_data \in [Lanes -> Bytes]
  BY WireType
<1>a. ASSUME TypeOK PROVE rsp \in Rsps \cup {None} /\ (rsp # None <=> sram_rsp_vld_r)
  <2>1. [excp |-> sram_rsp_excp_r, data |-> sram_rsp_data] \in Rsps
    BY <1>a, WireType DEF TypeOK, Rsps
  <2> QED BY <2>1, NoneAssumption
<1>f. ASSUME TypeOK PROVE (Port!req_fire <=> sram_req_fire) /\ (Port!rsp_fire <=> sram_rsp_fire)
  <2>1. Port!req_fire <=> sram_req_fire
    BY DEF Port!req_fire, sram_req_fire, sram_req_vld
  <2>2. Port!rsp_fire <=> (rsp # None /\ rsp_rdy)
    BY DEF Port!rsp_fire
  <2>3. rsp # None <=> sram_rsp_vld_r
    BY <1>a, <1>f
  <2> HIDE DEF rsp
  <2> QED BY <2>1, <2>2, <2>3 DEF sram_rsp_fire
<1>1. Init => Port!Init
  <2> SUFFICES ASSUME Init PROVE Port!Init
    OBVIOUS
  <2>1. sram_req_rdy \in BOOLEAN
    BY DEF sram_req_rdy
  <2>2. rsp = None
    BY DEF Init
  <2> QED BY <2>1, <2>2 DEF Init, Port!Init
<1>2. TypeOK /\ Handshake /\ TypeOK' /\ Handshake' /\ [Next]_vars => [Port!Next]_(Port!vars)
  <2>1. ASSUME TypeOK, Handshake, TypeOK', Handshake', Next PROVE Port!Next
    <3>1. owed' = IF Port!req_fire THEN req ELSE IF Port!rsp_fire THEN None ELSE owed
      BY <1>f, <2>1 DEF Next, Track
    <3>2. Port!Client
      <4>1. Port!rsp_fire' <=> sram_rsp_fire'
        BY <1>f, <2>1, PTL
      <4>2. req' \in Reads \cup Writes \cup {None} /\ rsp_rdy' \in BOOLEAN
        BY <2>1 DEF TypeOK
      <4>3. req # None /\ ~sram_req_fire => req' = req
        BY <2>1 DEF Next, Drive, sram_req_vld
      <4>4. req' # None => owed' = None \/ sram_rsp_fire'
        BY <2>1 DEF Handshake, sram_rsp_fire
      <4> QED BY <1>f, <2>1, <4>1, <4>2, <4>3, <4>4 DEF Port!Client
    <3>3. Port!Slave
      <4>1. sram_req_rdy' \in BOOLEAN
        BY DEF sram_req_rdy
      <4>2. rsp' \in Rsps \cup {None} /\ (rsp' # None <=> sram_rsp_vld_r')
        <5>1. (sram_rsp_data \in [Lanes -> Bytes])'
          BY <1>d, <2>1, PTL
        <5>2. sram_rsp_data' \in [Lanes -> Bytes]
          BY <5>1
        <5>3. [excp |-> sram_rsp_excp_r', data |-> sram_rsp_data'] \in Rsps
          BY <2>1, <5>2 DEF TypeOK, Rsps
        <5> QED BY <5>3, NoneAssumption
      <4>3. rsp' # None => owed' # None
        BY <2>1, <4>2 DEF Handshake
      <4>4. rsp # None /\ ~Port!rsp_fire => rsp' = rsp
        <5>1. rsp # None => sram_rsp_vld_r
          BY <1>a, <2>1
        <5>2. ASSUME sram_rsp_vld_r, ~sram_rsp_fire PROVE rsp' = rsp
          BY <2>1, <5>2, AnswerKept
        <5> QED BY <1>f, <2>1, <5>1, <5>2
      <4> QED BY <4>1, <4>2, <4>3, <4>4 DEF Port!Slave
    <3> QED BY <3>1, <3>2, <3>3 DEF Port!Next
  <2>2. ASSUME UNCHANGED vars PROVE UNCHANGED Port!vars
    <3>1. sram_req_rdy' = sram_req_rdy
      BY <2>2 DEF vars, regs, sram_req_rdy, addr_misalign, byte_offset, sram_req, sram_req_vld
    <3>2. sram_rsp_data' = sram_rsp_data
      BY <2>2 DEF vars, regs, sram_rsp_data, comb_rdat, lsft_rdat, Lsft
    <3> QED BY <2>2, <3>1, <3>2 DEF vars, regs, Port!vars
  <2> QED BY <2>1, <2>2
<1> QED BY <1>1, <1>2, Invariance, PTL DEF Spec, ImplementsSlavePort, Port!Spec

-----------------------------------------------------------------------------
(* The data, for a memory as deep as its address range.                    *)

\* Then no access is out of range.
LEMMA NoOverflow == ASSUME SRAM_DP = SPAN, TypeOK PROVE ~addr_overflow
<1>1. base_addr \in 0 .. SPAN - 1 /\ base_addr_r \in 0 .. SPAN - 1
  BY RequestType DEF TypeOK
<1>2. ~(base_addr >= SRAM_DP) /\ ~(base_addr_r >= SRAM_DP)
  BY <1>1, SizeFacts
<1> QED BY <1>2 DEF addr_overflow

\* Which bytes an access from a on touches, and with which of its lanes.
LEMMA Touched ==
    ASSUME NEW a \in Addrs, NEW b \in Addrs
    PROVE  LET n == a % MLEN
               l == b % MLEN
               i == (b - a) % Size
               add == ((a \div MLEN) + 1) % SPAN
           IN  /\ b \div MLEN = a \div MLEN /\ l >= n => i = l - n
               /\ b \div MLEN = add /\ l < n => i = l - n + MLEN
               /\ i \in Lanes => \/ b \div MLEN = a \div MLEN /\ l >= n
                                 \/ b \div MLEN = add /\ l < n
<1> DEFINE n == a % MLEN
           l == b % MLEN
           i == (b - a) % Size
           add == ((a \div MLEN) + 1) % SPAN
<1>1. n \in 0 .. MLEN - 1 /\ l \in 0 .. MLEN - 1 /\ i \in Addrs
  BY WordAndLane, Distance DEF Lanes
<1>2. \A j \in Lanes : (a + j) % Size = b => i = j
  <2>1. Lanes \subseteq Addrs
    BY SizeFacts DEF Lanes, Addrs
  <2> QED BY <2>1, Distance
<1>3. \A c \in Addrs : c \div MLEN = b \div MLEN /\ c % MLEN = b % MLEN => c = b
  BY WordAndLane
<1>4. ASSUME b \div MLEN = a \div MLEN, l >= n PROVE i = l - n
  <2>1. l - n \in Lanes /\ n + (l - n) = l /\ l < MLEN
    BY <1>1, <1>4, SizeFacts DEF Lanes
  <2>2. (a + (l - n)) % Size = b
    <3> DEFINE j == l - n
               c == (a + j) % Size
    <3>1. j \in Lanes /\ n + j < MLEN /\ n + j = l
      BY <1>1, <2>1
    <3> HIDE DEF j
    <3>2. c \in Addrs /\ c \div MLEN = a \div MLEN /\ c % MLEN = l
      BY <3>1, ByteBehind
    <3> HIDE DEF c
    <3>3. c = b
      BY <1>3, <1>4, <3>2
    <3> QED BY <3>3 DEF c, j
  <2> QED BY <1>2, <2>1, <2>2
<1>5. ASSUME b \div MLEN = add, l < n PROVE i = l - n + MLEN
  <2>1. l - n + MLEN \in Lanes /\ n + (l - n + MLEN) = l + MLEN /\ l + MLEN >= MLEN
        /\ l + MLEN - MLEN = l
    BY <1>1, <1>5, SizeFacts DEF Lanes
  <2>2. (a + (l - n + MLEN)) % Size = b
    <3> DEFINE j == l - n + MLEN
               c == (a + j) % Size
    <3>1. j \in Lanes /\ n + j >= MLEN /\ n + j - MLEN = l
      <4> HIDE DEF n, l
      <4> QED BY <1>1, <2>1, SizeFacts
    <3> HIDE DEF j
    <3>2. c \in Addrs /\ c \div MLEN = add /\ c % MLEN = l
      BY <3>1, ByteBehind
    <3> HIDE DEF c
    <3>3. c = b
      BY <1>3, <1>5, <3>2
    <3> QED BY <3>3 DEF c, j
  <2> QED BY <1>2, <2>1, <2>2
<1>6. ASSUME i \in Lanes PROVE \/ b \div MLEN = a \div MLEN /\ l >= n
                               \/ b \div MLEN = add /\ l < n
  <2>1. (a + i) % Size = b
    BY Distance
  <2>2. /\ n + i < MLEN => b \div MLEN = a \div MLEN /\ l = n + i
        /\ n + i >= MLEN => b \div MLEN = add /\ l = n + i - MLEN
    BY <1>6, <2>1, ByteBehind
  <2>3. i \in 0 .. MLEN - 1
    BY <1>6 DEF Lanes
  <2> HIDE DEF n, l, i, add
  <2> QED BY <1>1, <2>2, <2>3, SizeFacts
<1> QED BY <1>4, <1>5, <1>6

\* What a clock edge leaves in the memory, byte by byte.
LEMMA RamStep ==
    ASSUME TypeOK, Next
    PROVE  /\ \A k \in 0 .. SPAN - 1, l \in Lanes :
                  ram'[k][l] = IF sram_ce /\ sram_we /\ k = sram_addr /\ l \in sram_mask
                               THEN sram_wdat[l] ELSE ram[k][l]
           /\ sram_ce /\ ~sram_we => ram' = ram /\ qr' = ram[sram_addr]
           /\ ~sram_ce => ram' = ram
<1>1. ram \in [0 .. SPAN - 1 -> [Lanes -> Bytes]] /\ sram_addr \in 0 .. SPAN - 1
  BY WireType DEF TypeOK
<1>2. /\ ram' = IF sram_ce /\ sram_we
                THEN [ram EXCEPT ![sram_addr] =
                         [i \in Lanes |-> IF i \in sram_mask THEN sram_wdat[i]
                                          ELSE ram[sram_addr][i]]]
                ELSE ram
      /\ qr' = IF sram_ce /\ ~sram_we THEN ram[sram_addr] ELSE qr
  BY DEF Next, Clock, Ram
<1> QED BY <1>1, <1>2

\* No request: the memory rests.
LEMMA Idle ==
    ASSUME TypeOK, Handshake, Next, req = None
    PROVE  ~addr_misalign_r /\ ~addr_misalign_r' /\ ram' = ram /\ ref' = ref /\ ~sram_req_fire
<1>1. ~addr_misalign_r /\ ~addr_misalign /\ ~misalign_hit /\ ~sram_ce /\ ~sram_req_fire
  BY DEF Handshake, addr_misalign, misalign_hit, sram_ce, sram_req_fire, sram_req_vld
<1>2. addr_misalign_r' = (~addr_misalign_r /\ addr_misalign)
  BY DEF Next, Clock, UpdateMisalign
<1>3. ref' = ref
  BY <1>1 DEF Next, Track
<1>4. ram' = ram
  BY <1>1, RamStep
<1>5. ~addr_misalign_r'
  BY <1>1, <1>2, Zenon
<1> QED BY <1>1, <1>3, <1>4, <1>5

\* What a request that is taken means for the bytes.
LEMMA RefStep ==
    ASSUME TypeOK, Next
    PROVE  /\ ~(sram_req_fire /\ ~req.read) => ref' = ref
           /\ sram_req_fire /\ ~req.read =>
                  \A b \in Addrs : ref'[b] = IF (b - req.addr) % Size \in req.mask
                                             THEN {Size + ((b - req.addr) % Size)} ELSE ref[b]
<1>1. ~(sram_req_fire /\ ~req.read) => ref' = ref
  BY DEF Next, Track
<1>2. ASSUME sram_req_fire, ~req.read, NEW b \in Addrs
      PROVE  ref'[b] = IF (b - req.addr) % Size \in req.mask
                       THEN {Size + ((b - req.addr) % Size)} ELSE ref[b]
  <2>1. req.mask \subseteq Lanes
    BY <1>2, RequestType DEF sram_req_fire, sram_req_vld
  <2>2. \A i \in Lanes : sram_req_data[i] = {Size + i}
    BY DEF sram_req_data
  <2>3. ref' = [c \in Addrs |-> IF (c - req.addr) % Size \in req.mask
                                THEN sram_req_data[(c - req.addr) % Size] ELSE ref[c]]
    BY <1>2 DEF Next, Track
  <2>4. ref'[b] = IF (b - req.addr) % Size \in req.mask
                  THEN sram_req_data[(b - req.addr) % Size] ELSE ref[b]
    BY <2>3
  <2> QED BY <2>1, <2>2, <2>4
<1> QED BY <1>1, <1>2

\* An aligned access: one cycle.
LEMMA Aligned ==
    ASSUME SRAM_DP = SPAN, TypeOK, Handshake, Next, req # None, byte_offset = 0
    PROVE  /\ sram_req_fire /\ ~addr_misalign_r /\ ~addr_misalign_r' /\ ~addr_misalign_rr'
           /\ req.read => ram' = ram /\ qr' = ram[base_addr] /\ ram_read_p'
           /\ ~req.read => \A k \in 0 .. SPAN - 1, l \in Lanes :
                  ram'[k][l] = IF k = base_addr /\ l \in req.mask THEN {Size + l} ELSE ram[k][l]
<1>1. /\ sram_req_vld /\ sram_req_fire /\ ~addr_misalign_r /\ ~addr_misalign /\ ~misalign_hit
      /\ sram_req = req /\ ~addr_overflow
  BY NoOverflow, RequestType
     DEF Handshake, addr_misalign, misalign_hit, sram_req_fire, sram_req_vld, sram_req_rdy
<1>2. ~addr_misalign_r' /\ ~addr_misalign_rr'
  <2>1. addr_misalign_r' = (~addr_misalign_r /\ addr_misalign) /\ addr_misalign_rr' = misalign_hit
    BY DEF Next, Clock, UpdateMisalign
  <2> QED BY <1>1, <2>1, Zenon
<1>3. /\ sram_ce /\ (sram_we <=> ~req.read) /\ sram_addr = base_addr
      /\ sram_wdat = Lsft(sram_req_data, byte_offset)
      /\ sram_mask = LsftMask(req.mask, byte_offset)
  BY <1>1 DEF sram_ce, sram_we, sram_addr, sram_wdat, sram_mask
<1>4. \A l \in Lanes : l >= 0 /\ l - 0 = l
  BY SizeFacts DEF Lanes
<1>5. \A l \in Lanes : sram_wdat[l] = {Size + l} /\ (l \in sram_mask <=> l \in req.mask)
  BY <1>3, <1>4 DEF Lsft, LsftMask, sram_req_data
<1>6. ASSUME req.read PROVE ram' = ram /\ qr' = ram[base_addr] /\ ram_read_p'
  <2>1. ram_read_p' = (sram_ce /\ ~sram_we)
    BY DEF Next, Clock, UpdateData
  <2>2. ram' = ram /\ qr' = ram[base_addr]
    BY <1>3, <1>6, RamStep
  <2>3. ram_read_p'
    BY <1>3, <1>6, <2>1, Zenon
  <2> QED BY <2>2, <2>3
<1>7. ASSUME ~req.read, NEW k \in 0 .. SPAN - 1, NEW l \in Lanes
      PROVE  ram'[k][l] = IF k = base_addr /\ l \in req.mask THEN {Size + l} ELSE ram[k][l]
  BY <1>3, <1>5, <1>7, RamStep
<1> QED BY <1>1, <1>2, <1>6, <1>7

\* The first cycle of a misaligned access: the word it starts in.
LEMMA First ==
    ASSUME SRAM_DP = SPAN, TypeOK, Handshake, Next, req # None, byte_offset # 0, ~addr_misalign_r
    PROVE  /\ ~sram_req_fire /\ addr_misalign_r' /\ ref' = ref
           /\ base_addr_r' = base_addr_add /\ req_read_r' = req.read
           /\ req_data_r' = Rsft(sram_req_data, diff_offset)
           /\ req_mask_r' = RsftMask(req.mask, diff_offset) /\ byte_offset_r' = byte_offset
           /\ req.read => ram' = ram /\ qr' = ram[base_addr]
           /\ ~req.read => \A k \in 0 .. SPAN - 1, l \in Lanes :
                  ram'[k][l] = IF k = base_addr /\ l >= byte_offset /\ l - byte_offset \in req.mask
                               THEN {Size + (l - byte_offset)} ELSE ram[k][l]
<1>1. /\ sram_req_vld /\ ~sram_req_fire /\ addr_misalign /\ ~misalign_hit
      /\ sram_req = req /\ ~addr_overflow
  BY NoOverflow, RequestType
     DEF addr_misalign, misalign_hit, sram_req_fire, sram_req_vld, sram_req_rdy
<1>2. addr_misalign_r'
  <2>1. addr_misalign_r' = (~addr_misalign_r /\ addr_misalign)
    BY DEF Next, Clock, UpdateMisalign
  <2> QED BY <1>1, <2>1, Zenon
<1>3. /\ sram_ce /\ (sram_we <=> ~req.read) /\ sram_addr = base_addr
      /\ sram_wdat = Lsft(sram_req_data, byte_offset)
      /\ sram_mask = LsftMask(req.mask, byte_offset)
  BY <1>1 DEF sram_ce, sram_we, sram_addr, sram_wdat, sram_mask
<1>4. byte_offset \in Lanes /\ (\A l \in Lanes : l >= byte_offset => l - byte_offset \in Lanes)
  <2>1. byte_offset \in Lanes
    BY RequestType
  <2> QED BY <2>1, SizeFacts DEF Lanes
<1>5. \A l \in Lanes :
          /\ l \in sram_mask <=> l >= byte_offset /\ l - byte_offset \in req.mask
          /\ l \in sram_mask => sram_wdat[l] = {Size + (l - byte_offset)}
  BY <1>3, <1>4 DEF Lsft, LsftMask, sram_req_data
<1>6. /\ base_addr_r' = base_addr_add /\ req_read_r' = req.read
      /\ req_data_r' = Rsft(sram_req_data, diff_offset)
      /\ req_mask_r' = RsftMask(req.mask, diff_offset)
  BY <1>1 DEF Next, Clock, UpdateSecond
<1>7. byte_offset_r' = byte_offset
  BY <1>1 DEF Next, Clock, UpdateOffsets
<1>8. ref' = ref
  BY <1>1, RefStep
<1>9. ASSUME req.read PROVE ram' = ram /\ qr' = ram[base_addr]
  BY <1>3, <1>9, RamStep
<1>10. ASSUME ~req.read, NEW k \in 0 .. SPAN - 1, NEW l \in Lanes
       PROVE  ram'[k][l] = IF k = base_addr /\ l >= byte_offset /\ l - byte_offset \in req.mask
                           THEN {Size + (l - byte_offset)} ELSE ram[k][l]
  BY <1>3, <1>5, <1>10, RamStep
<1> QED BY <1>1, <1>2, <1>6, <1>7, <1>8, <1>9, <1>10

\* The second cycle of a misaligned access: the other word.
LEMMA Other ==
    ASSUME SRAM_DP = SPAN, TypeOK, Handshake, Second, Next, addr_misalign_r
    PROVE  /\ req # None /\ byte_offset \in 1 .. MLEN - 1
           /\ sram_req_fire /\ ~addr_misalign_r' /\ addr_misalign_rr'
           /\ diff_offset_r' = MLEN - byte_offset
           /\ rsft_rdat_r' = Rsft(qr, byte_offset)
           /\ req.read => ram' = ram /\ qr' = ram[base_addr_add]
           /\ ~req.read => \A k \in 0 .. SPAN - 1, l \in Lanes :
                  ram'[k][l] = IF k = base_addr_add /\ l + (MLEN - byte_offset) \in req.mask
                               THEN {Size + (l + (MLEN - byte_offset))} ELSE ram[k][l]
<1>1. /\ req # None /\ sram_req_vld /\ sram_req_fire /\ addr_misalign /\ misalign_hit
      /\ sram_req = req /\ ~addr_overflow /\ byte_offset # 0 /\ byte_offset \in Lanes
  BY NoOverflow, RequestType
     DEF Handshake, addr_misalign, misalign_hit, sram_req_fire, sram_req_vld, sram_req_rdy
<1>2. ~addr_misalign_r' /\ addr_misalign_rr'
  <2>1. addr_misalign_r' = (~addr_misalign_r /\ addr_misalign) /\ addr_misalign_rr' = misalign_hit
    BY DEF Next, Clock, UpdateMisalign
  <2> QED BY <1>1, <2>1, Zenon
<1>3. byte_offset \in 1 .. MLEN - 1 /\ diff_offset = MLEN - byte_offset
  <2>1. byte_offset \in 1 .. MLEN - 1
    BY <1>1, SizeFacts DEF Lanes
  <2>2. (MLEN - byte_offset) % MLEN = MLEN - byte_offset
    BY <2>1, SizeFacts, Remainder
  <2> QED BY <2>1, <2>2 DEF diff_offset
<1>4. /\ sram_ce /\ (sram_we <=> ~req.read) /\ sram_addr = base_addr_add
      /\ sram_wdat = Rsft(sram_req_data, MLEN - byte_offset)
      /\ sram_mask = RsftMask(req.mask, MLEN - byte_offset)
  BY <1>1, <1>3 DEF Second, sram_ce, sram_we, sram_addr, sram_wdat, sram_mask
<1>5. \A l \in Lanes :
          /\ l \in sram_mask <=> l + (MLEN - byte_offset) \in req.mask
          /\ l \in sram_mask => sram_wdat[l] = {Size + (l + (MLEN - byte_offset))}
  <2>1. req.mask \subseteq Lanes
    BY <1>1, RequestType
  <2>2. \A j \in Lanes : j < MLEN
    BY SizeFacts DEF Lanes
  <2> QED BY <1>4, <2>1, <2>2 DEF Rsft, RsftMask, sram_req_data
<1>6. diff_offset_r' = MLEN - byte_offset
  <2>1. diff_offset_r' = (MLEN - byte_offset_r) % MLEN
    BY DEF Next, Clock, UpdateOffsets
  <2> QED BY <1>3, <2>1 DEF Second, diff_offset
<1>7. rsft_rdat_r' = Rsft(qr, byte_offset)
  BY DEF Next, Clock, UpdateData, rsft_rdat, Second
<1>8. ASSUME req.read PROVE ram' = ram /\ qr' = ram[base_addr_add]
  BY <1>4, <1>8, RamStep
<1>9. ASSUME ~req.read, NEW k \in 0 .. SPAN - 1, NEW l \in Lanes
      PROVE  ram'[k][l] = IF k = base_addr_add /\ l + (MLEN - byte_offset) \in req.mask
                          THEN {Size + (l + (MLEN - byte_offset))} ELSE ram[k][l]
  BY <1>4, <1>5, <1>9, RamStep
<1> QED BY <1>1, <1>2, <1>3, <1>6, <1>7, <1>8, <1>9

\* The cycles: nothing, an aligned access, and the two of a misaligned one.
LEMMA Cycles ==
    ASSUME TypeOK, Handshake
    PROVE  \/ req = None \/ (req # None /\ byte_offset = 0)
           \/ (req # None /\ byte_offset # 0 /\ ~addr_misalign_r) \/ addr_misalign_r
OBVIOUS

\* The registers are right whenever the second cycle comes.
LEMMA SecondStep ==
    ASSUME SRAM_DP = SPAN, TypeOK, Handshake, Second, Next
    PROVE  Second'
<1>1. CASE req = None
  BY <1>1, Idle DEF Second
<1>2. CASE req # None /\ byte_offset = 0
  BY <1>2, Aligned DEF Second
<1>3. CASE req # None /\ byte_offset # 0 /\ ~addr_misalign_r
  <2>1. ~sram_req_fire
    BY <1>3, First
  <2>2. /\ req' = req /\ byte_offset' = byte_offset /\ base_addr' = base_addr
        /\ diff_offset' = diff_offset /\ base_addr_add' = base_addr_add
    BY <1>3, <2>1, Held
  <2>3. sram_req_data' = sram_req_data
    BY DEF sram_req_data
  <2>4. /\ base_addr_r' = base_addr_add /\ req_read_r' = req.read
        /\ req_data_r' = Rsft(sram_req_data, diff_offset)
        /\ req_mask_r' = RsftMask(req.mask, diff_offset) /\ byte_offset_r' = byte_offset
        /\ req.read => ram' = ram /\ qr' = ram[base_addr]
    BY <1>3, First
  <2>5. Rsft(sram_req_data, diff_offset)' = Rsft(sram_req_data, diff_offset)
        /\ RsftMask(req.mask, diff_offset)' = RsftMask(req.mask, diff_offset)
    BY <2>2, <2>3 DEF Rsft, RsftMask
  <2> QED BY <2>2, <2>4, <2>5 DEF Second
<1>4. CASE addr_misalign_r
  BY <1>4, Other DEF Second
<1> QED BY <1>1, <1>2, <1>3, <1>4, Cycles

\* The memory keeps holding what the requests mean.
LEMMA ContentsStep ==
    ASSUME SRAM_DP = SPAN, TypeOK, Handshake, Second, Contents, Next
    PROVE  Contents'
<1> SUFFICES ASSUME NEW b \in Addrs
             PROVE  ram'[b \div MLEN][b % MLEN] =
                        IF InFirst(b)' THEN {Size + ((b % MLEN) - byte_offset')} ELSE ref'[b]
  BY DEF Contents
<1> DEFINE k == b \div MLEN
           l == b % MLEN
<1>1. k \in 0 .. SPAN - 1 /\ l \in Lanes
  BY WordAndLane
<1>2. ram[k][l] = IF InFirst(b) THEN {Size + (l - byte_offset)} ELSE ref[b]
  BY Zenon DEF Contents
<1>3. ASSUME ~addr_misalign_r PROVE ~InFirst(b)
  BY <1>3 DEF InFirst
<1>4. ASSUME ~addr_misalign_r' PROVE ~InFirst(b)'
  BY <1>4 DEF InFirst
<1>5. req # None => req.addr \in Addrs /\ req.mask \subseteq Lanes /\ sram_req = req
  BY RequestType
<1>6. req # None =>
          LET i == (b - req.addr) % Size
          IN  /\ k = base_addr /\ l >= byte_offset => i = l - byte_offset
              /\ k = base_addr_add /\ l < byte_offset => i = l - byte_offset + MLEN
              /\ i \in Lanes => \/ k = base_addr /\ l >= byte_offset
                                \/ k = base_addr_add /\ l < byte_offset
  <2> SUFFICES ASSUME req # None
               PROVE  LET i == (b - req.addr) % Size
                      IN  /\ k = base_addr /\ l >= byte_offset => i = l - byte_offset
                          /\ k = base_addr_add /\ l < byte_offset => i = l - byte_offset + MLEN
                          /\ i \in Lanes => \/ k = base_addr /\ l >= byte_offset
                                            \/ k = base_addr_add /\ l < byte_offset
    OBVIOUS
  <2>1. byte_offset = req.addr % MLEN /\ base_addr = req.addr \div MLEN
        /\ base_addr_add = ((req.addr \div MLEN) + 1) % SPAN
    BY <1>5 DEF byte_offset, base_addr, base_addr_add
  <2> QED BY <1>5, <2>1, Touched
<1> HIDE DEF k, l
<1>7. CASE req = None
  <2>1. ram' = ram /\ ref' = ref /\ ~addr_misalign_r /\ ~addr_misalign_r'
    BY <1>7, Idle
  <2> QED BY <1>2, <1>3, <1>4, <2>1 DEF k, l
<1>8. CASE req # None /\ byte_offset = 0
  <2>1. sram_req_fire /\ ~addr_misalign_r /\ ~addr_misalign_r'
    BY <1>8, Aligned
  <2>2. ram[k][l] = ref[b]
    BY <1>2, <1>3, <2>1
  <2>3. CASE req.read
    <3>1. ram' = ram /\ ref' = ref
      BY <1>8, <2>3, Aligned, RefStep
    <3> QED BY <1>4, <2>1, <2>2, <3>1 DEF k, l
  <2>4. CASE ~req.read
    <3>1. ram'[k][l] = IF k = base_addr /\ l \in req.mask THEN {Size + l} ELSE ram[k][l]
      BY <1>1, <1>8, <2>4, Aligned
    <3> DEFINE i == (b - req.addr) % Size
    <3>2. ref'[b] = IF i \in req.mask THEN {Size + i} ELSE ref[b]
      BY <2>1, <2>4, RefStep
    <3>3. l \in Nat /\ l >= 0 /\ ~(l < 0) /\ l - 0 = l
      BY <1>1, SizeFacts DEF Lanes
    <3>4. (k = base_addr => i = l) /\ (i \in req.mask => k = base_addr)
      BY <1>5, <1>6, <1>8, <3>3
    <3> HIDE DEF i
    <3>5. ram'[k][l] = ref'[b]
      BY <2>2, <3>1, <3>2, <3>4
    <3> QED BY <1>4, <2>1, <3>5 DEF k, l
  <2> QED BY <2>3, <2>4
<1>9. CASE req # None /\ byte_offset # 0 /\ ~addr_misalign_r
  <2>1. ~sram_req_fire /\ addr_misalign_r' /\ ref' = ref
    BY <1>9, First
  <2>2. req' = req /\ byte_offset' = byte_offset /\ base_addr' = base_addr
    BY <1>9, <2>1, Held
  <2>3. InFirst(b)' <=> ~req.read /\ k = base_addr /\ l >= byte_offset
                        /\ l - byte_offset \in req.mask
    BY <2>1, <2>2 DEF InFirst, k, l
  <2>4. ram[k][l] = ref[b]
    BY <1>2, <1>3, <1>9
  <2>5. ram'[k][l] = IF InFirst(b)' THEN {Size + (l - byte_offset)} ELSE ram[k][l]
    <3>1. CASE req.read
      BY <1>9, <2>3, <3>1, First
    <3>2. CASE ~req.read
      BY <1>1, <1>9, <2>3, <3>2, First
    <3> QED BY <3>1, <3>2
  <2> QED BY <2>1, <2>2, <2>4, <2>5 DEF k, l
<1>10. CASE addr_misalign_r
  <2>1. sram_req_fire /\ ~addr_misalign_r' /\ req # None /\ byte_offset \in 1 .. MLEN - 1
    BY <1>10, Other
  <2>2. CASE req.read
    <3>1. ram' = ram /\ ref' = ref /\ ~InFirst(b)
      BY <1>10, <2>2, Other, RefStep DEF InFirst
    <3> QED BY <1>2, <1>4, <2>1, <3>1 DEF k, l
  <2>3. CASE ~req.read
    <3>1. ram'[k][l] = IF k = base_addr_add /\ l + (MLEN - byte_offset) \in req.mask
                       THEN {Size + (l + (MLEN - byte_offset))} ELSE ram[k][l]
      BY <1>1, <1>10, <2>3, Other
    <3> DEFINE i == (b - req.addr) % Size
    <3>2. ref'[b] = IF i \in req.mask THEN {Size + i} ELSE ref[b]
      BY <2>1, <2>3, RefStep
    <3>3. InFirst(b) <=> k = base_addr /\ l >= byte_offset /\ l - byte_offset \in req.mask
      BY <1>10, <2>3 DEF InFirst, k, l
    <3>4. /\ l >= byte_offset => l + (MLEN - byte_offset) \notin req.mask
          /\ l - byte_offset + MLEN = l + (MLEN - byte_offset)
          /\ ~(l >= byte_offset) <=> l < byte_offset
      <4>1. \A j \in req.mask : j < MLEN
        BY <1>5, <2>1, SizeFacts DEF Lanes
      <4>2. l \in Nat
        BY <1>1, SizeFacts DEF Lanes
      <4> QED BY <2>1, <4>1, <4>2, SizeFacts
    <3>5. /\ k = base_addr /\ l >= byte_offset => i = l - byte_offset
          /\ k = base_addr_add /\ l < byte_offset => i = l - byte_offset + MLEN
          /\ i \in req.mask => \/ k = base_addr /\ l >= byte_offset
                               \/ k = base_addr_add /\ l < byte_offset
      BY <1>5, <1>6, <2>1
    <3> HIDE DEF i
    <3>6. ram'[k][l] = ref'[b]
      <4>1. CASE k = base_addr /\ l >= byte_offset
        BY <1>2, <3>1, <3>2, <3>3, <3>4, <3>5, <4>1
      <4>2. CASE k = base_addr_add /\ l < byte_offset
        BY <1>2, <3>1, <3>2, <3>3, <3>4, <3>5, <4>2
      <4>3. CASE ~(k = base_addr /\ l >= byte_offset) /\ ~(k = base_addr_add /\ l < byte_offset)
        BY <1>2, <3>1, <3>2, <3>3, <3>4, <3>5, <4>3
      <4> QED BY <4>1, <4>2, <4>3
    <3> QED BY <1>4, <2>1, <3>6 DEF k, l
  <2> QED BY <2>2, <2>3
<1> QED BY <1>7, <1>8, <1>9, <1>10, Cycles

\* A read, aligned or not, leaves the bytes from its address on on the bus.
LEMMA ReadStep ==
    ASSUME SRAM_DP = SPAN, TypeOK, Handshake, Second, Contents, Next, sram_req_fire, req.read,
           NEW i \in Lanes
    PROVE  sram_rsp_data'[i] = ref[(req.addr + i) % Size]
<1> DEFINE b == (req.addr + i) % Size
<1>1. /\ req # None /\ req.addr \in Addrs /\ byte_offset = req.addr % MLEN
      /\ base_addr = req.addr \div MLEN /\ base_addr_add = (base_addr + 1) % SPAN
      /\ byte_offset \in 0 .. MLEN - 1
  BY RequestType DEF sram_req_fire, sram_req_vld, byte_offset, base_addr, base_addr_add, Lanes
<1>2. /\ b \in Addrs
      /\ byte_offset + i < MLEN => b \div MLEN = base_addr /\ b % MLEN = byte_offset + i
      /\ byte_offset + i >= MLEN => /\ b \div MLEN = base_addr_add
                                    /\ b % MLEN = byte_offset + i - MLEN
  BY <1>1, ByteBehind
<1> HIDE DEF b
<1>3. ram[b \div MLEN][b % MLEN] = ref[b]
  <2>1. ~InFirst(b)
    BY DEF InFirst
  <2>2. ram[b \div MLEN][b % MLEN] =
            IF InFirst(b) THEN {Size + ((b % MLEN) - byte_offset)} ELSE ref[b]
    BY <1>2, Zenon DEF Contents
  <2> QED BY <2>1, <2>2
<1>4. i \in 0 .. MLEN - 1
  BY DEF Lanes
<1>5. CASE byte_offset = 0
  <2>1. ~addr_misalign_r' /\ ~addr_misalign_rr' /\ qr' = ram[base_addr] /\ ram_read_p'
    BY <1>1, <1>5, Aligned
  <2>2. sram_rsp_data' = ram[base_addr]
    BY <2>1 DEF sram_rsp_data
  <2>3. b \div MLEN = base_addr /\ b % MLEN = i
    BY <1>2, <1>4, <1>5, SizeFacts
  <2> QED BY <1>3, <2>2, <2>3 DEF b
<1>6. CASE byte_offset # 0
  <2>1. addr_misalign_r
    BY <1>1, <1>6 DEF sram_req_fire, sram_req_rdy, addr_misalign, sram_req_vld
  <2>2. /\ addr_misalign_rr' /\ diff_offset_r' = MLEN - byte_offset
        /\ rsft_rdat_r' = Rsft(qr, byte_offset) /\ qr' = ram[base_addr_add]
    BY <2>1, Other
  <2>3. qr = ram[base_addr]
    BY <2>1 DEF Second
  <2>4. sram_rsp_data'[i] = rsft_rdat_r'[i] \cup lsft_rdat'[i]
    BY <2>2 DEF sram_rsp_data, comb_rdat
  <2>5. rsft_rdat_r'[i] = IF i + byte_offset < MLEN THEN ram[base_addr][i + byte_offset] ELSE {}
    BY <2>2, <2>3 DEF Rsft
  <2>6. lsft_rdat'[i] = IF i >= MLEN - byte_offset
                        THEN ram[base_addr_add][i - (MLEN - byte_offset)] ELSE {}
    BY <2>2 DEF lsft_rdat, Lsft
  <2>7. CASE byte_offset + i < MLEN
    <3>1. i + byte_offset < MLEN /\ ~(i >= MLEN - byte_offset) /\ i + byte_offset = byte_offset + i
      BY <1>1, <1>4, <2>7, SizeFacts
    <3>2. sram_rsp_data'[i] = ram[base_addr][byte_offset + i]
      BY <2>4, <2>5, <2>6, <3>1
    <3> QED BY <1>2, <1>3, <2>7, <3>2 DEF b
  <2>8. CASE byte_offset + i >= MLEN
    <3>1. ~(i + byte_offset < MLEN) /\ i >= MLEN - byte_offset
          /\ i - (MLEN - byte_offset) = byte_offset + i - MLEN
      BY <1>1, <1>4, <2>8, SizeFacts
    <3>2. sram_rsp_data'[i] = ram[base_addr_add][byte_offset + i - MLEN]
      BY <2>4, <2>5, <2>6, <3>1
    <3> QED BY <1>2, <1>3, <2>8, <3>2 DEF b
  <2> QED BY <1>1, <1>4, <2>7, <2>8, SizeFacts
<1> QED BY <1>5, <1>6

\* The answer on the bus stays right.
LEMMA AnswerStep ==
    ASSUME SRAM_DP = SPAN, TypeOK, Handshake, Second, Contents, ReadsSeeWrites, Next
    PROVE  ReadsSeeWrites'
<1> SUFFICES ASSUME sram_rsp_vld_r', owed'.read, ~sram_rsp_excp_r', NEW i \in Lanes
             PROVE  sram_rsp_data'[i] = ref'[(owed'.addr + i) % Size]
  BY DEF ReadsSeeWrites
<1>1. CASE sram_req_fire
  <2>1. owed' = req
    BY <1>1 DEF Next, Track
  <2>2. req.read /\ ref' = ref
    BY <2>1, RefStep
  <2> QED BY <1>1, <2>1, <2>2, ReadStep
<1>2. CASE ~sram_req_fire
  <2>1. sram_rsp_vld_r /\ ~sram_rsp_fire
    <3>1. sram_rsp_vld_r' = (sram_req_fire \/ (sram_rsp_vld_r /\ ~sram_rsp_fire))
      BY DEF Next, Clock, UpdateRsp
    <3> QED BY <1>2, <3>1, Zenon
  <2>2. /\ ref' = ref /\ owed' = owed /\ sram_rsp_excp_r' = sram_rsp_excp_r
        /\ sram_rsp_data' = sram_rsp_data
    BY <2>1, AnswerKept
  <2> QED BY <2>1, <2>2 DEF ReadsSeeWrites
<1> QED BY <1>1, <1>2

\* The data invariants hold after reset.
LEMMA InitData == ASSUME Init PROVE Second /\ Contents /\ ReadsSeeWrites
<1>1. Second /\ ReadsSeeWrites
  BY DEF Init, Second, ReadsSeeWrites
<1>2. ASSUME NEW b \in Addrs
      PROVE  ram[b \div MLEN][b % MLEN] =
                 IF InFirst(b) THEN {Size + ((b % MLEN) - byte_offset)} ELSE ref[b]
  <2>1. ~InFirst(b)
    BY DEF Init, InFirst
  <2>2. b \div MLEN \in 0 .. SPAN - 1 /\ b % MLEN \in Lanes /\ b = ((b \div MLEN) * MLEN) + (b % MLEN)
    BY <1>2, WordAndLane
  <2>3. /\ ram = [w \in 0 .. SPAN - 1 |-> [i \in Lanes |-> {w * MLEN + i}]]
        /\ ref = [c \in Addrs |-> {c}]
    BY DEF Init
  <2>4. ram[b \div MLEN][b % MLEN] = {((b \div MLEN) * MLEN) + (b % MLEN)}
    BY <2>2, <2>3, Zenon
  <2> QED BY <1>2, <2>1, <2>2, <2>3, <2>4
<1> QED BY <1>1, <1>2, Zenon DEF Contents

\* In a memory as deep as its address range the second cycle of a misaligned
\* access finds what it needs, and the memory and the answers hold what the
\* requests mean.
THEOREM DataInvariance ==
    ASSUME SRAM_DP = SPAN
    PROVE  Spec => [](Second /\ Contents /\ ReadsSeeWrites)
<1> DEFINE Data == Second /\ Contents /\ ReadsSeeWrites
<1>1. Init => Data
  BY InitData
<1>2. TypeOK /\ Handshake /\ Data /\ [Next]_vars => Data'
  <2> SUFFICES ASSUME TypeOK, Handshake, Data, [Next]_vars PROVE Data'
    OBVIOUS
  <2>1. CASE Next
    BY <2>1, SecondStep, ContentsStep, AnswerStep
  <2>2. CASE UNCHANGED vars
    <3>1. sram_req' = sram_req /\ byte_offset' = byte_offset /\ base_addr' = base_addr
          /\ diff_offset' = diff_offset /\ base_addr_add' = base_addr_add
      BY <2>2 DEF vars, sram_req, sram_req_vld, byte_offset, base_addr, diff_offset, base_addr_add
    <3>2. Second'
      BY <2>2, <3>1 DEF vars, regs, Second, Rsft, RsftMask, sram_req_data
    <3>3. Contents'
      <4>1. \A b : InFirst(b)' <=> InFirst(b)
        BY <2>2, <3>1 DEF vars, regs, InFirst
      <4> QED BY <2>2, <3>1, <4>1 DEF vars, Contents
    <3>4. ReadsSeeWrites'
      <4>1. sram_rsp_data' = sram_rsp_data
        BY <2>2 DEF vars, regs, sram_rsp_data, comb_rdat, lsft_rdat, Lsft
      <4> QED BY <2>2, <4>1 DEF vars, regs, ReadsSeeWrites
    <3> QED BY <3>2, <3>3, <3>4
  <2> QED BY <2>1, <2>2
<1> QED BY <1>1, <1>2, Invariance, PTL DEF Spec

\* Between accesses the memory holds what the requests taken so far mean.
THEOREM WritesWholeHolds == ASSUME SRAM_DP = SPAN PROVE Spec => []WritesWhole
<1>1. Contents => WritesWhole
  BY DEF Contents, WritesWhole, InFirst
<1> QED BY <1>1, DataInvariance, PTL

\* Every answered read returns the bytes the earlier writes left.
THEOREM ReadsSeeWritesHolds == ASSUME SRAM_DP = SPAN PROVE Spec => []ReadsSeeWrites
BY DataInvariance, PTL
=============================================================================
