------------------------------- MODULE BcRead -------------------------------
(***************************************************************************)
(* The reader of mangled dumps: lj_lex_setup_mod (src/src/lj_lex.c) and    *)
(* lj_bcread_mod with bcread_kgc_mod, bcread_knum_mod and bcread_uv_mod    *)
(* (src/src/lj_bcread.c).                                                  *)
(*                                                                         *)
(* A file is a sequence of bytes; p and pe are the offsets of ls->p and    *)
(* ls->pe in it.  Module BcStream shows that the buffers in between make   *)
(* no difference, so a request is one step here; what stays visible of     *)
(* them is how far the window reaches beyond what was asked for, a whole   *)
(* number of chunks, since fread fills the reader's buffer unless the file *)
(* ends.                                                                   *)
(*                                                                         *)
(* stack is the Lua stack.  A prototype is a record of what the dump says  *)
(* of it.                                                                  *)
(***************************************************************************)
EXTENDS BcFormat

CONSTANTS
  Magic,        \* the four bytes that begin a mangled dump ("XANA")
  Esc,          \* the byte that begins a plain one
  Mask,         \* what a frame size is exclusive-ored with (0xE9)
  Modulus,      \* the modulus of the cipher of opcodes (253)
  BitXor(_, _), \* exclusive or of bytes, the operator ^ of C
  Sources       \* prototypes that source texts compile to

\* A text or a plain dump is told from a mangled one by its first byte.
ASSUME MagicAssumption ==
  Magic \in Seq(Byte) /\ Len(Magic) = 4 /\ Esc \in Byte /\ Esc # Magic[1]

\* Flags of a dump.
F_BE == 1
F_STRIP == 2
F_FFI == 4
F_KNOWN == F_BE + F_STRIP + F_FFI
HeaderWant == 3 + 2 * UlebMax

Has(flags, f) == (flags \div f) % 2 = 1

VARIABLES
  file,     \* the bytes of the file
  chunk,    \* the size of the reader's buffer
  p, pe,    \* ls->p and ls->pe
  c,        \* ls->c: -1 once the reader said it has no more
  at,       \* what the reader does next; "loaded", "refused" and "wild" end it
  flags,    \* bcread_flags(ls)
  n,        \* a length, or how many constants are left to read
  limit,    \* where the prototype under way ends
  pt,       \* that prototype
  stack,    \* the Lua stack
  oldtop    \* its height when lj_bcread_mod was entered

window == <<p, pe, c>>
readVars == <<file, chunk, window, at, flags, n, limit, pt, stack, oldtop>>

\* One's complement of a byte.
Complement(a) == 2 * Half - 1 - a

\* What makes the sums, exclusive ors and complements of the code come undone.
ASSUME XorAssumption ==
  /\ Mask \in Byte
  /\ \A a, b \in Byte : BitXor(a, b) \in Byte /\ BitXor(BitXor(a, b), b) = a

\* No file was read yet.
ReadInit ==
  /\ file = <<>>
  /\ p = 0 /\ pe = 0 /\ c = 0
  /\ at = "setup"
  /\ flags = 0 /\ n = 0 /\ limit = 0 /\ oldtop = 0
  /\ pt = [code |-> <<>>]
  /\ stack = <<>>

\* lua_loadx: a new lexer state for a file.
Start(f) ==
  /\ file' = f
  /\ p' = 0 /\ pe' = 0 /\ c' = 0
  /\ at' = "setup"
  /\ UNCHANGED <<chunk, flags, n, limit, pt, oldtop>>

-----------------------------------------------------------------------------
\* The window after k bytes of the file were called for.
Delivered(k) == Min({Len(file), chunk * ((k + chunk - 1) \div chunk)})

\* bcread_need and bcread_want, for len bytes, of which skip are taken.
Request(len, need, skip, next) ==
  \/ /\ p + len <= pe
     /\ p' = p + skip /\ at' = next
     /\ UNCHANGED <<pe, c>>
  \/ /\ p + len > pe
     /\ c < 0 \/ (need /\ p + len > Len(file))
     /\ at' = "refused"
     /\ UNCHANGED window
  \/ /\ p + len > pe
     /\ c >= 0
     /\ need => p + len <= Len(file)
     /\ pe' = Delivered(p + len)
     /\ c' = IF p + len > Len(file) THEN -1 ELSE c
     /\ p' = p + skip /\ at' = next

\* A place to go on at, for a reader that got to offset to: what lies beyond
\* the window is not of the file.
Goto(to, beyond, next) == p' = to /\ at' = IF to > pe THEN beyond ELSE next

\* lj_lex_setup_mod reads one byte, and if it begins a dump looks at three
\* more, whether they were read or not.
Setup ==
  /\ at = "setup"
  /\ pe' = Delivered(1)
  /\ p' = IF file = <<>> THEN 0 ELSE 1
  /\ c' = IF file = <<>> THEN -1 ELSE 0
  /\ \/ /\ At(file, 0) = Magic[1]
        /\ \E seen \in BOOLEAN :
             /\ pe' >= 4 => (seen <=> SubSeq(file, 1, 4) = Magic)
             /\ at' = IF seen THEN "want header" ELSE "text"
     \/ /\ At(file, 0) = Esc
        /\ at' = "want header"
     \/ /\ At(file, 0) \notin {Magic[1], Esc}
        /\ at' = "text"
  /\ oldtop' = Len(stack)
  /\ UNCHANGED <<file, chunk, flags, n, limit, pt, stack>>

\* lj_parse: a source text compiles, or it does not.
ParseText ==
  /\ at = "text"
  /\ \/ at' = "refused" /\ UNCHANGED stack
     \/ at' = "loaded" /\ \E t \in Sources : stack' = Append(stack, <<"proto", t>>)
  /\ UNCHANGED <<file, chunk, window, flags, n, limit, pt, oldtop>>

WantHeader ==
  /\ at = "want header"
  /\ Request(HeaderWant, FALSE, 0, "header")
  /\ UNCHANGED <<file, chunk, flags, n, limit, pt, stack, oldtop>>

\* The rest of the magic bytes, the flags, and the length of the name.  A
\* header cut short leads to a request that fails.
ReadHeader ==
  /\ at = "header"
  /\ LET f == Uleb(file, p + 3)
         name == IF Has(f.v, F_STRIP) THEN [v |-> 0, to |-> f.to] ELSE Uleb(file, f.to)
     IN  IF Block(file, p, 3).v = Tail(Magic) /\ f.v <= F_KNOWN
           THEN Goto(name.to, "refused", "name") /\ flags' = f.v /\ n' = name.v
           ELSE at' = "refused" /\ UNCHANGED <<p, flags, n>>
  /\ UNCHANGED <<file, chunk, pe, c, limit, pt, stack, oldtop>>

SkipName ==
  /\ at = "name"
  /\ Request(n, TRUE, n, "protos")
  /\ UNCHANGED <<file, chunk, flags, n, limit, pt, stack, oldtop>>

AtEndMark == p < pe /\ At(file, p) = 0

\* The shortcut at the end: nothing may follow in the window.
EndMark ==
  /\ at = "protos"
  /\ AtEndMark
  /\ p' = p + 1
  /\ at' = IF pe > p + 1 THEN "refused" ELSE "finish"
  /\ UNCHANGED <<file, chunk, pe, c, flags, n, limit, pt, stack, oldtop>>

WantLength ==
  /\ at = "protos"
  /\ ~AtEndMark
  /\ Request(UlebMax, FALSE, 0, "length")
  /\ UNCHANGED <<file, chunk, flags, n, limit, pt, stack, oldtop>>

\* The window may have ended within the length, or before it: then the
\* difference of the pointers is not 0, and no more bytes can be had.
ReadLength ==
  /\ at = "length"
  /\ LET len == Uleb(file, p)
     IN  /\ n' = len.v
         /\ IF len.v = 0 THEN p' = len.to /\ at' = IF pe = len.to THEN "finish" ELSE "refused"
            ELSE Goto(len.to, "refused", "need")
  /\ UNCHANGED <<file, chunk, pe, c, flags, limit, pt, stack, oldtop>>

NeedProto ==
  /\ at = "need"
  /\ Request(n, TRUE, 0, "proto")
  /\ limit' = p + n
  /\ UNCHANGED <<file, chunk, flags, n, pt, stack, oldtop>>

-----------------------------------------------------------------------------
\* _byteswap_ulong (src/compat.c) swaps the 64 bits of which the argument is
\* the low half, and returns the low half of the result.
ByteSwap(ins) == <<0, 0, 0, 0>>

\* The power 71 of an opcode, as it is computed.
Square(x) == (x * x) % Modulus
OpenOp(o) ==
  LET x17 == (Square(Square(Square(Square(o % Modulus)))) * o) % Modulus
      x35 == (Square(x17) * o) % Modulus
  IN  (Square(x35) * o) % Modulus

\* Every opcode is what some byte opens to.
ASSUME CipherAssumption ==
  /\ Modulus \in 1..(2 * Half)
  /\ \A x \in 0..(Modulus - 1) : \E o \in 0..(Modulus - 1) : OpenOp(o) = x

\* A bug: the opcode is opened before it opens the operand.
OpenInsLate(ins, i) ==
  <<OpenOp(ins[1]), BitXor(ins[2], BitXor(i % (2 * Half), OpenOp(ins[1]))),
    BitXor(ins[3], i % (2 * Half)), Complement(ins[4])>>

\* An instruction is <<op, a, c, b>> in memory.
OpenIns(ins, i) ==
  <<OpenOp(ins[1]), BitXor(ins[2], BitXor(i % (2 * Half), ins[1])),
    BitXor(ins[3], i % (2 * Half)), Complement(ins[4])>>

Ins(s, i) == Block(s, i, 4)
UvRef(s, i) == Block(s, i, 2)

\* The header of a prototype, its upvalue references and its code.  Counts
\* that are less than the key wrap to lengths that no memory serves.
ReadProto ==
  /\ at = "proto"
  /\ LET key == BitXor(At(file, p), Mask)
         numbc == Uleb(file, p + 3)
         numkn == Uleb(file, numbc.to)
         numkgc == Uleb(file, numkn.to + 1)
         dbg == IF Has(flags, F_STRIP) THEN [v |-> 0, to |-> numkgc.to]
                ELSE Uleb(file, numkgc.to)
         line == IF dbg.v = 0 THEN dbg ELSE Uleb(file, Uleb(file, dbg.to).to)
         uv == List([j \in Nat |-> UvRef(file, j)], line.to, BitXor(At(file, numkn.to), key))
         bc == List([j \in Nat |-> Ins(file, j)], uv.to, numbc.v - key)
         swap(f, s) == IF Has(flags, F_BE) THEN f ELSE s
     IN  IF key > numbc.v \/ key > numkn.v \/ key > numkgc.v
           THEN at' = "wild" /\ UNCHANGED <<p, pt, n>>
           ELSE /\ Goto(bc.to, "wild", "knum")
                /\ pt' = [flags |-> BitXor(At(file, p + 1), key),
                          numparams |-> BitXor(At(file, p + 2), key),
                          framesize |-> key,
                          uv |-> [k \in DOMAIN uv.v |-> swap(Reverse(uv.v[k]), uv.v[k])],
                          code |-> [k \in DOMAIN bc.v |->
                             OpenIns(swap(ByteSwap(bc.v[k]), bc.v[k]), k - 1)],
                          knum |-> <<>>, kgc |-> <<>>,
                          numkn |-> numkn.v - key, sizedbg |-> dbg.v]
                /\ n' = numkgc.v - key
  /\ UNCHANGED <<file, chunk, pe, c, flags, limit, stack, oldtop>>

\* bcread_knum_mod
ReadNumbers ==
  /\ at = "knum"
  /\ LET ks == List([j \in Nat |-> KNum(file, j)], p, pt.numkn)
     IN  Goto(ks.to, "wild", "kgc") /\ pt' = [pt EXCEPT !.knum = ks.v]
  /\ UNCHANGED <<file, chunk, pe, c, flags, n, limit, stack, oldtop>>

\* A string constant is decrypted where it lies.
OpenStr(s) == [k \in DOMAIN s |-> Complement(BitXor(s[k], (k - 1) % (2 * Half)))]

Constant(k, to) ==
  /\ Goto(to, "wild", "kgc")
  /\ pt' = [pt EXCEPT !.kgc = Append(@, k)]
  /\ n' = n - 1

\* A bug: a child stays on the stack.
Peeked(s) == s

\* A child is popped by its parent.
Popped(s) == Front(s)

\* bcread_kgc_mod, one constant.  A child is the last prototype on the stack
\* that no one took.
ReadConstant ==
  /\ at = "kgc" /\ n > 0
  /\ LET tp == Uleb(file, p)
         str == Block(file, tp.to, tp.v - KGC_STR)
         tab == KTab(file, tp.to)
     IN  \/ /\ tp.v >= KGC_STR
            /\ Constant(<<"str", OpenStr(str.v)>>, str.to)
            /\ UNCHANGED stack
         \/ /\ tp.v = KGC_TAB
            /\ Constant(tab.v, tab.to)
            /\ UNCHANGED stack
         \/ /\ tp.v = KGC_CHILD /\ Len(stack) > oldtop
            /\ Constant(<<"child", Last(stack)[2]>>, tp.to)
            /\ stack' = Popped(stack)
         \/ /\ tp.v = KGC_CHILD /\ Len(stack) <= oldtop
            /\ at' = "refused"
            /\ UNCHANGED <<p, pt, n, stack>>
  /\ UNCHANGED <<file, chunk, pe, c, flags, limit, oldtop>>

\* The 64-bit and complex constants are allocated for a Lua state that is not
\* one: what happens is anyone's guess.
ReadCdata ==
  /\ at = "kgc" /\ n > 0
  /\ Uleb(file, p).v \in (KGC_TAB + 1)..(KGC_STR - 1)
  /\ at' = "wild"
  /\ UNCHANGED <<file, chunk, window, flags, n, limit, pt, stack, oldtop>>

Proto(q) ==
  [flags |-> q.flags, numparams |-> q.numparams, framesize |-> q.framesize,
   uv |-> q.uv, code |-> q.code, knum |-> q.knum, kgc |-> q.kgc]

\* Debug information, and the test that the prototype ends where it should.
PushProto ==
  /\ at = "kgc" /\ n = 0
  /\ LET to == p + pt.sizedbg
     IN  /\ p' = to
         /\ IF to = limit
              THEN at' = "protos" /\ stack' = Append(stack, <<"proto", Proto(pt)>>)
              ELSE at' = "refused" /\ UNCHANGED stack
  /\ UNCHANGED <<file, chunk, pe, c, flags, n, limit, pt, oldtop>>

\* Exactly one prototype is left.
Finish ==
  /\ at = "finish"
  /\ at' = IF Len(stack) - 1 = oldtop THEN "loaded" ELSE "refused"
  /\ UNCHANGED <<file, chunk, window, flags, n, limit, pt, stack, oldtop>>

ReadNext ==
  \/ Setup \/ ParseText \/ WantHeader \/ ReadHeader \/ SkipName
  \/ EndMark \/ WantLength \/ ReadLength \/ NeedProto
  \/ ReadProto \/ ReadNumbers \/ ReadConstant \/ ReadCdata \/ PushProto \/ Finish
=============================================================================
