------------------------------ MODULE SRecord -------------------------------
(* The S-records that carry a program from the cross assembler (S_rec.c) to   *)
(* the emulator's memory (load_Srec of memory.c). A record is its address,    *)
(* its bytes and its checksum; the text in between is hexadecimal and exact.  *)
EXTENDS Words, SequencesExt

CONSTANT max_data    \* bytes of a full record

ASSUME max_dataAssumption == max_data \in Nat \ {0}

Sum(bytes) ==
    LET sum[n \in 0 .. Len(bytes)] == IF n = 0 THEN 0 ELSE sum[n - 1] + bytes[n]
    IN  sum[Len(bytes)]

-----------------------------------------------------------------------------
(* The writer. Its index is Len(data), and -1 in the code when data is empty; *)
(* Srec_addr and check_sum mean something only when there are data.           *)

Srec_init == [Srec_addr |-> 0, data |-> << >>, check_sum |-> 0, file |-> << >>]

output_Srec(w) ==
    IF w.data = << >>
    THEN w
    ELSE [w EXCEPT !.data = << >>,
                   !.file = Append(@, [addr  |-> w.Srec_addr,
                                       data  |-> w.data,
                                       check |-> 255 - LOWBYTE(w.check_sum
                                                     + Len(w.data) + 3)])]

(* Mutant: a record is written when one byte too many is in it. *)
EmitByteLate(w, val, LC) ==
    LET start == IF w.data = << >>
                 THEN [w EXCEPT !.Srec_addr = LC,
                                !.check_sum = LOWBYTE(LC) + HIGHBYTE(LC)]
                 ELSE w
        put   == [start EXCEPT !.data = Append(@, LOWBYTE(val)),
                               !.check_sum = @ + LOWBYTE(val)]
    IN  IF Len(put.data) > max_data THEN output_Srec(put) ELSE put

(* One byte at LC: the whole of emit_byte and of emit_char, and each half of  *)
(* emit_word. The first byte of a record gives it its address.                *)
emit_byte(w, val, LC) ==
    LET start == IF w.data = << >>
                 THEN [w EXCEPT !.Srec_addr = LC,
                                !.check_sum = LOWBYTE(LC) + HIGHBYTE(LC)]
                 ELSE w
        put   == [start EXCEPT !.data = Append(@, LOWBYTE(val)),
                               !.check_sum = @ + LOWBYTE(val)]
    IN  IF Len(put.data) >= max_data THEN output_Srec(put) ELSE put

-----------------------------------------------------------------------------
(* The loader: the bytes are stored before the checksum is looked at. *)

Stored(mem, rec) ==
    [a \in DOMAIN mem \cup {rec.addr + i - 1 : i \in DOMAIN rec.data} |->
        IF a - rec.addr + 1 \in DOMAIN rec.data
        THEN rec.data[a - rec.addr + 1]
        ELSE mem[a]]

Valid(rec) ==
    LOWBYTE(Len(rec.data) + 3 + LOWBYTE(rec.addr) + HIGHBYTE(rec.addr)
            + Sum(rec.data) + rec.check) = 255
=============================================================================
