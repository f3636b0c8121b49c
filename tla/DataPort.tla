------------------------------ MODULE DataPort ------------------------------
(***************************************************************************)
(* dataport_direct.hpp: records appended to a file and read back by their  *)
(* address.  The file is the bytes on the disk, and an address counts them.*)
(* The file is opened in text mode ("a+", line 42), where the C library of *)
(* Windows, the only one with _fseeki64, writes a line feed as a carriage  *)
(* return and a line feed; its ftell gives 32 bits.  Threads may share a   *)
(* dataport, which has no lock.                                            *)
(***************************************************************************)
EXTENDS Integers, Sequences, FiniteSets

CONSTANTS
  PortThreads, PortData,
  HeaderSize,   \* sizeof(message_header)
  MaxLong,      \* the largest long, 2^31 - 1
  PortCuts,     \* bound: the bytes a write that fails leaves behind
  MaxBytes      \* bound: the file when add begins

ASSUME PortAssumption ==
  /\ HeaderSize \in Nat \ {0} /\ MaxLong \in Nat /\ MaxBytes \in Nat
  /\ PortCuts \subseteq Nat /\ PortData \subseteq Seq(0 .. 255)

VARIABLES
  file,      \* the bytes of the database
  adding,    \* thread -> what add has computed: address, record
  added,     \* results of add: address, data, and whether another overlapped
  got        \* result of the last get

portVars == <<file, adding, added, got>>

\* What ftell returns when the position does not fit in a long.
NoPosition == -1

NoAdd == [addr |-> NoPosition, data |-> <<>>, alone |-> TRUE]

PortInit ==
  /\ file = <<>> /\ adding = [t \in PortThreads |-> NoAdd]
  /\ added = {} /\ got = "none"

\* _data_format copies the header of msg, which add left at zero, over the
\* one that was filled in.
DataFormat(data) == [i \in 1 .. HeaderSize |-> 0] \o data

\* fwrite: where byte i of buf comes to, and the bytes on the disk.
PlaceOf(buf, i) == i + Cardinality({j \in 1 .. i : buf[j] = 10})
OnDisk(buf) ==
  [k \in 1 .. PlaceOf(buf, Len(buf)) |->
     IF \E i \in DOMAIN buf : PlaceOf(buf, i) = k
     THEN buf[CHOOSE i \in DOMAIN buf : PlaceOf(buf, i) = k] ELSE 13]

\* add up to line 70: the end of the file, before the record is written.
\* As a bug: the address of the record's data.
EndPosition_behind == Len(file) + HeaderSize
EndPosition == IF Len(file) <= MaxLong THEN Len(file) ELSE NoPosition

AddBegin(t, data) ==
  /\ adding[t] = NoAdd /\ Len(file) <= MaxBytes
  /\ data # <<>>                               \* else invalid_arg
  /\ adding' = [s \in PortThreads |->
                  IF s = t THEN [addr |-> EndPosition, data |-> data,
                                 alone |-> \A r \in PortThreads : adding[r] = NoAdd]
                  ELSE [adding[s] EXCEPT !.alone = (adding[s] = NoAdd)]]
  /\ UNCHANGED <<file, added, got>>

\* fwrite appends, whatever the position was; it may fail part of the way.
AddWrite(t) ==
  /\ adding[t] # NoAdd
  /\ file' = file \o OnDisk(DataFormat(adding[t].data))
  /\ added' = added \cup {adding[t]}
  /\ adding' = [adding EXCEPT ![t] = NoAdd]
  /\ UNCHANGED got

AddFails(t) ==
  /\ adding[t] # NoAdd
  /\ LET bytes == OnDisk(DataFormat(adding[t].data))
     IN  \E n \in PortCuts :
           n < Len(bytes) /\ file' = file \o SubSeq(bytes, 1, n)
  /\ adding' = [adding EXCEPT ![t] = NoAdd]
  /\ UNCHANGED <<added, got>>

\* get: its tests in their order.  A header of zeros has the size 0, and
\* fread of nothing reads nothing; an address that add gave to two threads
\* may name a header in the midst of a record, which can say anything.
GetResults(addr) ==
  CASE addr = 0 -> {"invalid_arg"}
    [] addr = NoPosition -> {"set_file_position_failed"}
    [] addr > 0 /\ addr + HeaderSize > Len(file) -> {"read_operation_failed"}
    [] OTHER -> IF \A i \in 1 .. HeaderSize : file[addr + i] = 0
                THEN {"read_operation_failed"}
                ELSE {"ok", "invalid_hash", "read_operation_failed",
                      "memory_resize_failed"}

Get(addr) ==
  /\ got' \in GetResults(addr)
  /\ UNCHANGED <<file, adding, added>>

PortNext ==
  \/ \E t \in PortThreads : AddWrite(t) \/ AddFails(t) \/ \E d \in PortData : AddBegin(t, d)
  \/ \E a \in added : Get(a.addr)

(* Unless two threads were in add at a time, the address add returns is    *)
(* that of the bytes fwrite made of its own record, whatever line feeds    *)
(* other records hold and whatever writes failed before it; or the file is *)
(* larger than ftell can say, and the record cannot be addressed           *)
(* (dataport_direct.hpp:56).  No get of such an address returns ok: the    *)
(* header in the file is always zero (line 33), and the first record has   *)
(* the address 0 that get refuses (line 123).                              *)
AddressIsRecord ==
  \A a \in added : a.alone =>
    LET bytes == OnDisk(DataFormat(a.data))
    IN  IF a.addr = NoPosition
        THEN /\ Len(file) > MaxLong + Len(bytes)
             /\ GetResults(a.addr) = {"set_file_position_failed"}
        ELSE /\ a.addr + Len(bytes) <= Len(file)
             /\ SubSeq(file, a.addr + 1, a.addr + Len(bytes)) = bytes
             /\ GetResults(a.addr) = IF a.addr = 0 THEN {"invalid_arg"}
                                     ELSE {"read_operation_failed"}
=============================================================================
