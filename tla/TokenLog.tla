------------------------------ MODULE TokenLog ------------------------------
(***************************************************************************)
(* What a key/value cache promises: the keys and the values of the tokens  *)
(* of the present sequence, each at its position, none of them changed by  *)
(* later tokens and none left over from an earlier sequence.               *)
(***************************************************************************)
EXTENDS Naturals, Sequences

CONSTANT MaxSequences   \* sequences cached one after the other

VARIABLES log,        \* position -> the sequences its keys and values are of
          sequence    \* number of the present sequence

OfSequence(n) == [keys |-> {n}, values |-> {n}]

LogInit == log = <<>> /\ sequence = 1

AppendToken ==
  /\ log' = Append(log, OfSequence(sequence))
  /\ UNCHANGED sequence

BeginSequence ==
  /\ sequence < MaxSequences
  /\ sequence' = sequence + 1
  /\ log' = <<>>

LogSpec == LogInit /\ [][AppendToken \/ BeginSequence]_<<log, sequence>>
=============================================================================
