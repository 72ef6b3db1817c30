------------------------------- MODULE Config -------------------------------
(***************************************************************************)
(* How memory_pool.c reads its devices from elasticmm.conf.                *)
(*                                                                         *)
(* A line is scanned into a key, a value and up to three words.  Of a word *)
(* only the number it stands for matters: words are sets of numbers, and   *)
(* the set of a word that does not parse is empty.  The buffers keep what  *)
(* an earlier line put there when a line is short.  Comments and section   *)
(* headers are not scanned and are left out.                               *)
(***************************************************************************)
EXTENDS Integers, Sequences, FiniteSets

CONSTANT MAX_DEVICES

ASSUME MaxDevicesAssumption == MAX_DEVICES \in Nat \ {0}

\* "dev path=<path> size_mb=<n> tier_id=<n> dax_id=<n>" has its path as value and
\* the other words behind it.
Word == SUBSET Int
Line == [key : STRING, value : Word, words : Seq(Word)]

\* A word stands for one number or for none.
OneNumber(w) == \A m, n \in w : m = n

\* The number that a word stands for; atoi() makes 0 of what is no number.
Number(w) == IF w = {} THEN 0 ELSE CHOOSE n \in w : TRUE

\* Before the first line: what is on the stack does not parse.
Fresh == [failed |-> FALSE, segment_size_mb |-> 0, devs |-> <<>>,
          words |-> [i \in 1 .. 3 |-> {}]]

\* sscanf() of a line.
Scanned(c, line) ==
    [c EXCEPT !.words = [i \in 1 .. 3 |-> IF i <= Len(line.words) THEN line.words[i]
                                         ELSE @[i]]]

\* "segment_size_mb <n>"
SetSegmentSize(c, line) ==
    [c EXCEPT !.segment_size_mb = Number(line.value), !.failed = Number(line.value) <= 0]

\* "dev ...".  A tier or dax id below zero is logged and taken.
AddDevice(c, line) ==
    IF \/ Len(c.devs) >= MAX_DEVICES
       \/ line.value = {} \/ \E i \in 1 .. 3 : c.words[i] = {}
       \/ Number(c.words[1]) <= 0
    THEN [c EXCEPT !.failed = TRUE]
    ELSE [c EXCEPT !.devs = Append(@, [size_mb |-> Number(c.words[1]),
                                       tier_id |-> Number(c.words[2]),
                                       dax_id |-> Number(c.words[3])])]

\* One round of the loop; after an error the rest of the file is not read.
AfterLine(c, line) ==
    CASE c.failed -> c
      [] ~c.failed /\ line.key = "segment_size_mb" -> SetSegmentSize(Scanned(c, line), line)
      [] ~c.failed /\ line.key = "dev" -> AddDevice(Scanned(c, line), line)
      [] OTHER -> Scanned(c, line)

memory_pool_load_config(file) ==
    LET after[i \in 0 .. Len(file)] ==
            IF i = 0 THEN Fresh ELSE AfterLine(after[i - 1], file[i])
    IN  after[Len(file)]

\* Faulty form: cuts the devices by the segment size the file begins with.
PoolFirstSize(file) ==
    LET c == memory_pool_load_config(file)
        first == memory_pool_load_config(SubSeq(file, 1, 1)).segment_size_mb
    IN  [d \in 1 .. Len(c.devs) |->
            c.devs[d].size_mb \div (IF first = 0 THEN c.segment_size_mb ELSE first)]

\* init_memory_resource(): the number of segments of each device, when all
\* lines have been read.
Pool(file) ==
    LET c == memory_pool_load_config(file)
    IN  [d \in 1 .. Len(c.devs) |-> c.devs[d].size_mb \div c.segment_size_mb]

\* How memory_pool_init() ends: an error, a division by zero, or a pool.
PoolOutcome(file) ==
    LET c == memory_pool_load_config(file)
    IN  CASE c.failed -> "error"
          [] ~c.failed /\ c.devs # <<>> /\ c.segment_size_mb = 0 -> "sigfpe"
          [] OTHER -> "ready"

-----------------------------------------------------------------------------
\* What a file says, whoever reads it: the lines of the devices up to the i-th
\* line, and those of the segment size.
DevLines(file, i) == {j \in 1 .. i : file[j].key = "dev"}
SizeLines(file, i) == {j \in 1 .. i : file[j].key = "segment_size_mb"}
=============================================================================
