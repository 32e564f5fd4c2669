-------------------------------- MODULE Output --------------------------------
(***************************************************************************)
(* Formatted output: kprintfv of src/api.c with the writers it calls       *)
(* (kwriteu, kwrites, kwritef, kwriteB, kwriteS, kwriteR, mywrite_stresc), *)
(* with a type's own __repr (src/ks/ast.c) among them.                     *)
(*                                                                         *)
(* Each writer is a list of pieces: bytes for kwrite, an object for        *)
(* kwriteR, or an assertion that fails.  It adds up what the pieces        *)
(* return, and returns the first error.  A number is shown by its value,   *)
(* a name or a text by its bytes.                                          *)
(***************************************************************************)
EXTENDS Io

CONSTANTS
  Objects,   \* bound: the objects clients print, and those they contain
  Calls,     \* bound: what clients print: a sequence of [fmt |-> directives, args |-> arguments]
  TMP_EVERY  \* what the escaping writer collects before it sends: 256 in the code

\* The elements of an object are objects, and an argument is what its directive asks for.
ObjectsOK ==
  \A o \in Objects :
    /\ o.type \in {"str", "int", "float"} => o.val \in Seq(STRING)
    /\ o.type \in {"tuple", "list", "ast"} => o.val \in Seq(Objects)
    /\ o.type = "dict" => o.val \in Seq(Objects \X Objects)
    /\ o.type = "tok" => o.val \in Int \X Int

Directives == [text : Seq(STRING), flags : BOOLEAN, width : Int, prec : Int, conv : STRING]
ArgumentOK(conv, arg) ==
  /\ conv \in {"i", "v", "u", "p"} => arg \in Int
  /\ conv \in {"s", "f"} => arg \in Seq(STRING) /\ (conv = "f" => arg # <<>>)
  /\ conv \in {"R", "S", "B", "Y", "J"} => arg \in Objects
  /\ conv = "J" => arg.val \in Seq(Objects)
  /\ conv = "O" => arg.type \in STRING
CallsOK ==
  \A c \in DOMAIN Calls :
    Calls[c].fmt \in Seq(Directives) /\ \A k \in DOMAIN Calls[c].fmt : ArgumentOK(Calls[c].fmt[k].conv, Calls[c].args[k])

ASSUME OutputAssumption == TMP_EVERY \in Nat \ {0} /\ ObjectsOK /\ CallsOK

VARIABLES
  frames,  \* the active writers
  call,    \* the index of what is being printed, 0 before the first
  out,     \* the bytes kwrite has accepted for it
  short,   \* a descriptor took only some of the bytes
  result   \* what kprintf has returned
print_vars == <<frames, call, out, short, result>>

\* The length of its array: 272.
TMP_LEN == TMP_EVERY + 16

Bytes(b) == [do |-> "write", bytes |-> b, obj |-> 0]
Repr(o)  == [do |-> "repr", bytes |-> <<>>, obj |-> o]
Fails    == [do |-> "abort", bytes |-> <<>>, obj |-> 0]

-----------------------------------------------------------------------------
\* Numbers.  / and % of C round toward zero.
Quot(v, b) == IF v < 0 THEN -((-v) \div b) ELSE v \div b
Rem(v, b)  == IF v < 0 THEN (-v) % b ELSE v % b   \* made positive
Kdigits == <<"0", "1", "2", "3", "4", "5", "6", "7", "8", "9", "A", "B", "C", "D", "E", "F">>
Digit(v, b) == Kdigits[Rem(v, b) + 1]

\* do ... while (val > 0), from the last digit to the first, then reversed.  A negative number
\* is divided as it is, so the loop ends after one digit; a u64 is never negative.
NumDigits(val, b) ==
  LET d[v \in {val} \cup 0..val] ==
        IF Quot(v, b) > 0 THEN d[Quot(v, b)] \o <<Digit(v, b)>> ELSE <<Digit(v, b)>>
  IN  d[val]
kwriteu(val, b) == <<Bytes(NumDigits(val, b))>>
kwrites(val, b) == <<Bytes((IF val < 0 THEN <<"-">> ELSE <<>>) \o NumDigits(val, b))>>

\* kwritef: the zeros snprintf leaves at the end of s are removed, but for one after the point.
kwritef(s) ==
  LET Kept == {n \in 1..Len(s) : \A k \in (n + 1)..Len(s) : s[k] = "0" /\ s[k - 1] # "."}
  IN  <<Bytes(SubSeq(s, 1, CHOOSE n \in Kept : \A m \in Kept : n <= m))>>

\* A width or a precision is not supported: an assertion.
Width(w) == IF w = 0 THEN <<>> ELSE <<Fails>>

-----------------------------------------------------------------------------
\* Kescstr: one byte of each kind; a backslash is written as it is.
Kescstr(b) ==
  CASE b = "\n" -> <<"\\", "n">> [] b = "\"" -> <<"\\", "\"">>
    [] b = "HIGH" -> <<"\\", "x", "f", "f">> [] OTHER -> <<b>>

\* Mutant of Full: the longest escape is not counted.
Full_Late(tmp) == Len(tmp) >= TMP_LEN

\* if (tmpi > TMP_EVERY) TMP_SEND().
Full(tmp) == Len(tmp) > TMP_EVERY

\* mywrite_stresc: the bytes in tmp go out when it is full, and at the end.
mywrite_stresc(s) ==
  LET Put(acc, b) == IF Full(acc.tmp)
                     THEN [sent |-> Append(acc.sent, Bytes(acc.tmp)), tmp |-> Kescstr(b)]
                     ELSE [acc EXCEPT !.tmp = @ \o Kescstr(b)]
      end == FoldLeft(Put, [sent |-> <<>>, tmp |-> <<"\"">>], s)
  IN  Append(end.sent, Bytes(Append(end.tmp, "\"")))

Comma == Bytes(<<",", " ">>)

\* Mutant of Separated: the separator goes before every element.
Separated_All(pieces) == FoldLeft(LAMBDA acc, p : acc \o <<Comma>> \o p, <<>>, pieces)

\* The pieces of each element, with a comma between two of them.
Separated(pieces) ==
  FoldLeft(LAMBDA acc, p : IF acc = <<>> THEN p ELSE acc \o <<Comma>> \o p, <<>>, pieces)
Reprs(els) == Separated([k \in DOMAIN els |-> <<Repr(els[k])>>])

\* kwriteR.  A type with fn_repr prints with kprintf on its own; other objects end the program.
kwriteR(o) ==
  CASE o.type = "str" -> mywrite_stresc(o.val)
    [] o.type \in {"int", "float"} -> <<Bytes(o.val)>>   \* bf_ftoa
    [] o.type = "tuple" ->
         <<Bytes(<<"(">>)>> \o Reprs(o.val) \o (IF Len(o.val) = 1 THEN <<Comma>> ELSE <<>>) \o <<Bytes(<<")">>)>>
    [] o.type = "list" -> <<Bytes(<<"[">>)>> \o Reprs(o.val) \o <<Bytes(<<"]">>)>>
    [] o.type = "dict" ->
         <<Bytes(<<"{">>)>> \o
         Separated([k \in DOMAIN o.val |-> <<Repr(o.val[k][1]), Bytes(<<":", " ">>), Repr(o.val[k][2])>>]) \o
         <<Bytes(<<"}">>)>>
    [] o.type = "ast" -> <<Bytes(<<"a", "d", "d", "(">>)>> \o Reprs(o.val) \o <<Bytes(<<")">>)>>
    [] o.type = "tok" -> <<Bytes(<<"t", "(">>)>> \o kwrites(o.val[1], 10) \o <<Comma>> \o
                         kwrites(o.val[2], 10) \o <<Bytes(<<")">>)>>
    [] OTHER -> <<Fails>>

kwriteB(o) == IF o.type = "str" THEN <<Bytes(o.val)>> ELSE <<Fails>>
kwriteS(o) ==
  CASE o.type = "str" -> <<Bytes(o.val)>>
    [] o.type \in {"int", "float", "tuple", "list", "dict"} -> <<Repr(o)>>
    [] OTHER -> <<Fails>>

-----------------------------------------------------------------------------
\* A directive: the text before it, whether its flags are legal (at most one of + - and the
\* blank, and one 0), the width, the precision (-2 for *), and the letter; "" ends the format.
Directive(text, conv) == [text |-> text, flags |-> TRUE, width |-> 0, prec |-> 0, conv |-> conv]

Converted(d, arg) ==
  IF d.conv = "" THEN <<>>
  ELSE IF ~d.flags THEN <<Fails>>
  ELSE CASE d.conv = "%" -> <<Bytes(<<"%">>)>>
         [] d.conv \in {"i", "v"} -> Width(d.width) \o kwrites(arg, 10)
         [] d.conv = "u" -> Width(d.width) \o kwriteu(arg, 10)
         [] d.conv = "f" -> Width(d.width) \o kwritef(arg)
         [] d.conv = "s" -> <<Bytes(arg)>>
         [] d.conv = "p" -> <<Bytes(<<"0", "x">>)>> \o Width(d.prec) \o kwriteu(arg, 16)
         [] d.conv = "O" -> <<Bytes(<<"<">>), Bytes(<<arg.type>>), Bytes(<<" ", "@", " ", "0", "x">>)>> \o Width(-1)
         [] d.conv = "B" -> kwriteB(arg)
         [] d.conv = "S" -> kwriteS(arg)
         [] d.conv = "R" -> <<Repr(arg)>>
         [] d.conv = "J" -> Reprs(arg.val)
         [] d.conv = "Y" -> IF arg.type = "null" THEN <<>> ELSE <<Comma, Repr(arg)>>
         [] OTHER -> <<Fails>>

kprintfv(fmt, args) ==
  FoldLeft(LAMBDA acc, k : acc \o <<Bytes(fmt[k].text)>> \o Converted(fmt[k], args[k]), <<>>, [k \in DOMAIN fmt |-> k])

-----------------------------------------------------------------------------
\* A writer at work; own: it is the __repr of a type, whose result goes through an int (krrv).
Frame(pieces, own) == [todo |-> pieces, rsz |-> 0, own |-> own]
Top   == Last(frames)
Piece == Head(Top.todo)
Advanced(sz) ==
  [frames EXCEPT ![Len(frames)] = [todo |-> Tail(Top.todo), rsz |-> Top.rsz + sz, own |-> Top.own]]

\* kprintf.
Format(c) ==
  /\ pc = "ready" /\ ops < MaxOps /\ ops' = ops + 1
  /\ call' = c /\ frames' = <<Frame(kprintfv(Calls[c].fmt, Calls[c].args), FALSE)>>
  /\ out' = <<>> /\ short' = FALSE /\ result' = 0 /\ pc' = "print"
  /\ UNCHANGED <<io, file, got, mixed>>

Working(do) ==
  pc = "print" /\ Top.todo # <<>> /\ Piece.do = do /\ UNCHANGED <<call, got, ops>>

\* The first error is what every active writer returns.
Fail == frames' = <<>> /\ result' = -1 /\ pc' = "ready"

\* kwrite of a piece, q its outcome: it takes bytes, or fails, or does not return.
Written(q) ==
  /\ q.pc = "returns" /\ q.ret >= 0
  /\ short => q.ret = Len(Piece.bytes)   \* bound: one short write in a call
  /\ frames' = Advanced(q.ret)
  /\ out' = out \o SubSeq(Piece.bytes, 1, q.ret)
  /\ short' = (short \/ q.ret < Len(Piece.bytes))
  /\ file' = (IF io.type = "buffer" THEN Store(file, io.pos, Piece.bytes) ELSE file)
  /\ mixed' = TRUE
  /\ UNCHANGED <<result, pc>>
WriteFails(q) == q.pc = "returns" /\ q.ret < 0 /\ Fail /\ UNCHANGED <<out, short, file, mixed>>
WriteEnds(q) == q.pc # "returns" /\ pc' = q.pc /\ UNCHANGED <<frames, out, short, result, file, mixed>>

Write ==
  /\ Working("write")
  /\ \E q \in kwrite(io, Piece.bytes) : io' = q.io /\ (Written(q) \/ WriteFails(q) \/ WriteEnds(q))

Enter ==
  /\ Working("repr")
  /\ frames' = Append(Advanced(0), Frame(kwriteR(Piece.obj), Piece.obj.type \in {"ast", "tok"}))
  /\ UNCHANGED <<io, file, mixed, out, short, result, pc>>

Assertion ==
  /\ Working("abort") /\ pc' = "abort"
  /\ UNCHANGED <<io, file, mixed, frames, out, short, result>>

\* A writer is done, or the int of a __repr cannot be had.
Done == pc = "print" /\ Top.todo = <<>> /\ UNCHANGED <<io_vars, call, out, short>>
NoResult == Done /\ Top.own /\ Fail
Finish == Done /\ Len(frames) = 1 /\ frames' = <<>> /\ result' = Top.rsz /\ pc' = "ready"

\* Mutant of Return: the size of what was written is not added.
Return_Drops == Done /\ Len(frames) > 1 /\ frames' = Front(frames) /\ UNCHANGED <<result, pc>>

Return ==
  /\ Done /\ Len(frames) > 1
  /\ frames' = [Front(frames) EXCEPT ![Len(frames) - 1].rsz = @ + Top.rsz]
  /\ UNCHANGED <<result, pc>>

Init == IoInit /\ frames = <<>> /\ call = 0 /\ out = <<>> /\ short = FALSE /\ result = 0
Next ==
  \/ ClientOp /\ UNCHANGED print_vars
  \/ \E c \in DOMAIN Calls : Format(c)
  \/ Write \/ Enter \/ Assertion \/ Return \/ Finish \/ NoResult
Spec == Init /\ [][Next]_<<io_vars, pc, print_vars>>

-----------------------------------------------------------------------------
\* Types; a buffer never uses more than its recorded capacity.
TypeOK ==
  /\ io.type \in {"buffer", "rawio", "other"} /\ {io.len, io.cap, io.pos} \subseteq Nat
  /\ io.len <= io.cap /\ (io.type = "buffer" => Len(io.data) <= io.cap)
  /\ result \in Int /\ ops \in 0..MaxOps /\ call \in {0} \cup DOMAIN Calls
  /\ pc \in {"ready", "print", "abort", "wild", "overread"} /\ (pc = "print" => frames # <<>>)

\* The array of mywrite_stresc holds what is collected before it is sent: the bytes up to
\* TMP_EVERY, one more escape of up to four bytes, and the closing quote.
EscapeFits ==
  \A k \in DOMAIN frames : \A j \in DOMAIN frames[k].todo : Len(frames[k].todo[j].bytes) <= TMP_LEN

\* The result is the number of bytes that have arrived, also where writes were cut short:
\* the sizes of all pieces, through every level of nesting, are added once.
SizeRight == pc = "ready" /\ result >= 0 => result = Len(out)
=============================================================================
