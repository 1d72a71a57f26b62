-------------------------------- MODULE BcDec --------------------------------
(***************************************************************************)
(* The tool bcdec (src/bcdec.cpp, src/ByteCodeDec.cpp): for every file of  *)
(* a directory, luaL_loadfile (src/src/lj_load.c) reads a mangled dump,    *)
(* lj_bcwrite writes it plainly into a buffer, and the buffer becomes a    *)
(* file of the output directory, which may be the same directory.          *)
(*                                                                         *)
(* Whoever made the mangled dumps is not part of this program; Mangled is  *)
(* what its output must have looked like for the reader to make sense.     *)
(***************************************************************************)
EXTENDS BcRead, BcWrite

CONSTANTS
  OutName,       \* the name of the output for the name of an input
  Dumps,         \* mangled dumps: their bytes, and what these are made from
  Directories,   \* the directories that are given to the tool
  Chunks         \* sizes of the reader's buffer (LUAL_BUFFERSIZE)

\* What is read at once takes in all of the bytes that tell what a file is.
ASSUME ChunkAssumption == Chunks \subseteq Nat /\ \A k \in Chunks : k >= 4

\* A plain dump begins as one of LuaJIT, and not as a mangled one.
ASSUME StockAssumption ==
  /\ StockMagic \in Seq(Byte) /\ Len(StockMagic) = 4
  /\ StockMagic[1] = Esc /\ Tail(StockMagic) # Tail(Magic)

-----------------------------------------------------------------------------
\* The inverse of what the reader does to the data of a prototype.
SealOp(x) == CHOOSE o \in 0..(Modulus - 1) : OpenOp(o) = x
SealIns(ins, i) ==
  LET o == SealOp(ins[1])
  IN  <<o, BitXor(ins[2], BitXor(i % (2 * Half), o)), BitXor(ins[3], i % (2 * Half)),
        Complement(ins[4])>>
SealStr(s) == [k \in DOMAIN s |-> BitXor(Complement(s[k]), (k - 1) % (2 * Half))]

MangledConstant(k) ==
  IF k[1] = "str" THEN UlebBytes(KGC_STR + Len(k[2])) \o SealStr(k[2])
  ELSE KgcBytes(k, [t \in {k} |-> CHOOSE keys \in Orders(t) : TRUE])

\* The parts of a prototype in a dump with flags fl: its header, references to
\* upvalues, code, constants, and dbg bytes of debug information.
MangledSizes(t, fl, dbg) ==
  LET key == t.framesize
  IN  <<BitXor(key, Mask), BitXor(t.flags, key), BitXor(t.numparams, key)>>
        \o UlebBytes(Len(t.code) + key) \o UlebBytes(Len(t.knum) + key)
        \o <<BitXor(Len(t.uv), key)>> \o UlebBytes(Len(t.kgc) + key)
        \o (IF Has(fl, F_STRIP) THEN <<>>
            ELSE IF dbg = 0 THEN UlebBytes(0)
            ELSE UlebBytes(dbg) \o UlebBytes(Half) \o UlebBytes(1))

InOrder(fl, s) == IF Has(fl, F_BE) THEN Reverse(s) ELSE s
MangledUvs(t, fl) == FlattenSeq([i \in DOMAIN t.uv |-> InOrder(fl, t.uv[i])])
MangledCode(t, fl) == FlattenSeq([i \in DOMAIN t.code |-> InOrder(fl, SealIns(t.code[i], i - 1))])
MangledNumbers(t) == FlattenSeq([i \in DOMAIN t.knum |-> KNumBytes(t.knum[i])])
MangledConstants(t) == FlattenSeq([i \in DOMAIN t.kgc |-> MangledConstant(t.kgc[i])])

MangledBody(t, fl, dbg) ==
  MangledSizes(t, fl, dbg) \o MangledUvs(t, fl) \o MangledCode(t, fl)
    \o MangledNumbers(t) \o MangledConstants(t)
    \o (IF Has(fl, F_STRIP) THEN <<>> ELSE [i \in 1..dbg |-> 1])
MangledProto(t, fl, dbg) ==
  UlebBytes(Len(MangledBody(t, fl, dbg))) \o MangledBody(t, fl, dbg)

MangledHeader(d) ==
  Magic \o UlebBytes(d.flags)
    \o (IF Has(d.flags, F_STRIP) THEN <<>> ELSE UlebBytes(Len(d.name)) \o d.name)
Mangled(d) ==
  MangledHeader(d)
    \o FlattenSeq([i \in DOMAIN d.protos |-> MangledProto(d.protos[i], d.flags, d.dbg)])
    \o <<0>>

\* What prototypes may hold.
IsNumber(o) ==
  /\ o[1] = "num" /\ o = Number(o[2], o[3])
  /\ o[2] \in 0..(Word - 1) /\ o[3] \in 0..(Word - 1)
IsString(o) ==
  o[1] = "str" /\ o = <<"str", o[2]>> /\ o[2] \in Seq(Byte) /\ KGC_STR + Len(o[2]) < Word
IsPrimitive(o) == o[1] = "pri" /\ o = <<"pri", o[2]>> /\ o[2] \in KTAB_NIL..(KTAB_INT - 1)
IsValue(o) == IsNumber(o) \/ IsString(o) \/ IsPrimitive(o)
IsTable(o) ==
  /\ o[1] = "tab" /\ o = <<"tab", o[2], o[3]>>
  /\ o[2] \in Seq(Range(o[2])) /\ Len(o[2]) < Word
  /\ \A i \in DOMAIN o[2] : IsValue(o[2][i])
  /\ o[2] # <<>> => Last(o[2]) # Nil
  /\ IsFiniteSet(DOMAIN o[3]) /\ Cardinality(DOMAIN o[3]) < Word
  /\ o[3] = [k \in DOMAIN o[3] |-> o[3][k]]
  /\ \A k \in DOMAIN o[3] : IsValue(k) /\ IsValue(o[3][k]) /\ o[3][k] # Nil

\* A prototype that a dump can hold.
IsProto(t) ==
  /\ t = Proto(t)
  /\ t.flags \in Byte /\ t.numparams \in Byte /\ t.framesize \in Byte
  /\ t.uv \in Seq(Byte \X Byte) /\ Len(t.uv) \in Byte
  /\ t.code \in Seq((0..(Modulus - 1)) \X Byte \X Byte \X Byte)
  /\ t.knum \in Seq(Range(t.knum)) /\ \A i \in DOMAIN t.knum : IsNumber(t.knum[i])
  /\ t.kgc \in Seq(Range(t.kgc))
  /\ \A i \in DOMAIN t.kgc : IsString(t.kgc[i]) \/ IsTable(t.kgc[i]) \/ t.kgc[i][1] = "child"
  /\ \A size \in {Len(t.code), Len(t.knum), Len(t.kgc)} : size + t.framesize < Word

\* How many of the first j constants are children.  They are the prototypes
\* without a parent that come last in a dump, the last one first.
Children(t, j) == Cardinality({i \in 1..j : t.kgc[i][1] = "child"})
HasChildren(t, orphans) ==
  /\ Children(t, Len(t.kgc)) <= Len(orphans)
  /\ \A j \in DOMAIN t.kgc :
       t.kgc[j][1] = "child" =>
         t.kgc[j] = <<"child", orphans[Len(orphans) + 1 - Children(t, j)]>>

\* Children come before their parent; after k prototypes, d.orphans[k] are
\* those without a parent, and in the end this is the one that was dumped.
InPostOrder(d) ==
  /\ d.orphans[0] = <<>>
  /\ \A k \in DOMAIN d.protos :
       LET t == d.protos[k]
           before == d.orphans[k - 1]
       IN  /\ before \in Seq(Range(d.protos)) /\ HasChildren(t, before)
           /\ d.orphans[k] =
                Append(SubSeq(before, 1, Len(before) - Children(t, Len(t.kgc))), t)
  /\ d.orphans[Len(d.protos)] = <<d.tree>>

ASSUME DumpAssumption ==
  \A d \in Dumps :
    /\ d.flags \in 0..F_KNOWN
    /\ d.name \in Seq(Byte) /\ Len(d.name) < Word
    /\ d.dbg \in 0..(Word - 1) /\ (Has(d.flags, F_STRIP) => d.dbg = 0)
    /\ d.protos \in Seq(Range(d.protos))
    /\ \A k \in DOMAIN d.protos :
         IsProto(d.protos[k]) /\ Len(MangledBody(d.protos[k], d.flags, d.dbg)) < Word
    /\ InPostOrder(d)
    /\ d.bytes = Mangled(d)

VARIABLES
  given,    \* the directory: its files, whether the output goes there too, and
            \* the names of files whose reading may fail where their bytes end
  files,    \* the files that are there now, by name
  todo,     \* the names the directory iterator has yet to return
  cur,      \* the name of the file under way
  out,      \* the files of the output directory
  step      \* "next", "load", "dump", "done", or "panic"

toolVars == <<given, files, todo, cur, out>>
vars == <<readVars, writeVars, toolVars, step>>

Missing == <<-1>>            \* a file that cannot be opened
Err == <<"error">>           \* an error message
ChunkName == <<"chunkname">>

Init ==
  /\ given \in Directories
  /\ files = given.files
  /\ todo = DOMAIN given.files
  /\ cur \in DOMAIN given.files
  /\ out = [x \in {} |-> <<>>]
  /\ step = "next"
  /\ chunk \in Chunks
  /\ ReadInit
  /\ root = Err /\ frames = <<>> /\ sb = <<>> /\ writing = "done"

\* The next file of the directory, in no particular order.  Its name is
\* pushed, or an error message if it cannot be opened.
Open ==
  /\ step = "next" /\ todo # {}
  /\ \E name \in todo :
       /\ cur' = name
       /\ todo' = todo \ {name}
       /\ Start(files[name])
       /\ stack' = Append(stack, IF files[name] = Missing THEN Err ELSE ChunkName)
       /\ step' = IF files[name] = Missing THEN "check" ELSE "load"
  /\ UNCHANGED <<writeVars, given, files, out>>

Read ==
  /\ step = "load"
  /\ ReadNext
  /\ UNCHANGED <<writeVars, toolVars, step>>

\* A bug: the chunk name stays.
AboveName == SubSeq(stack, 1, oldtop)

\* The stack below the chunk name.
BelowName == SubSeq(stack, 1, oldtop - 1)

\* luaL_loadfilex puts the function, or the error message to which the stack
\* was unwound, in the place of the chunk name; or another message, if
\* reading failed, even where all that was needed had been read.
Return ==
  /\ step = "load" /\ at \in {"loaded", "refused"}
  /\ \E ferror \in IF cur \in given.failing THEN BOOLEAN ELSE {FALSE} :
       stack' = Append(BelowName, IF at = "loaded" /\ ~ferror
                                    THEN <<"function", Last(stack)[2]>> ELSE Err)
  /\ step' = "check"
  /\ UNCHANGED <<file, chunk, window, at, flags, n, limit, pt, oldtop, writeVars, toolVars>>

\* Nobody looked at the status of luaL_loadfile; lj_lib_checkfunc fails
\* outside of any protected call.  A function is dumped to an empty buffer.
CheckFunction ==
  /\ step = "check"
  /\ IF stack[1][1] = "function"
       THEN /\ root' = stack[1][2]
            /\ stack' = SubSeq(stack, 1, 1)
            /\ frames' = <<>> /\ sb' = <<>> /\ writing' = "header"
            /\ step' = "dump"
       ELSE step' = "panic" /\ UNCHANGED <<stack, writeVars>>
  /\ UNCHANGED <<file, chunk, window, at, flags, n, limit, pt, oldtop, toolVars>>

Write ==
  /\ step = "dump"
  /\ WriteNext
  /\ UNCHANGED <<readVars, toolVars, step>>

\* A bug: the function of this file stays.
NoSettop == stack

\* lua_settop(L, 0)
Settop == <<>>

\* The output may overwrite a file, and the iterator may come to it.
Save ==
  /\ step = "dump" /\ writing = "done"
  /\ LET o == OutName[cur]
         put(f) == [x \in DOMAIN f \cup {o} |-> IF x = o THEN sb ELSE f[x]]
     IN  /\ out' = put(out)
         /\ files' = IF given.here THEN put(files) ELSE files
         /\ todo' \in {todo} \cup (IF given.here THEN {todo \cup {o}} ELSE {})
  /\ stack' = Settop
  /\ step' = "next"
  /\ UNCHANGED <<file, chunk, window, at, flags, n, limit, pt, oldtop, writeVars, given, cur>>

Exit ==
  /\ step = "next" /\ todo = {}
  /\ step' = "done"
  /\ UNCHANGED <<readVars, writeVars, toolVars>>

\* The process ended, or memory that is not of the file decides what it does.
Stopped == step \in {"done", "panic"} \/ (step = "load" /\ at = "wild")
Stay == Stopped /\ UNCHANGED vars

Next == Open \/ Read \/ Return \/ CheckFunction \/ Write \/ Save \/ Exit \/ Stay

\* One process, which runs on: weak fairness of its steps, which are enabled
\* until it stopped.
Spec == Init /\ [][Next]_vars /\ ((<>[]~Stopped) => []<><<TRUE>>_vars)

-----------------------------------------------------------------------------
IsDump(f) == \E d \in Dumps : f = d.bytes

\* What a file may stand for: a dump, with whatever follows it, or a text.
Meanings(f) ==
  IF f # Missing /\ At(f, 0) # Esc /\ ~IsPrefix(Magic, f) THEN Sources
  ELSE {d.tree : d \in {e \in Dumps : IsPrefix(e.bytes, f)}}

-----------------------------------------------------------------------------
\* Type correctness.
TypeOK ==
  /\ file \in Seq(Byte) \cup {Missing} /\ chunk \in Chunks
  /\ p \in Nat /\ pe \in 0..Len(file) /\ c \in {-1, 0}
  /\ oldtop <= Len(stack) + 1
  /\ frames # <<>> => root = frames[1].pt
  /\ sb \in Seq(Byte)
  /\ DOMAIN given.files \subseteq DOMAIN files
  /\ cur \in DOMAIN files /\ todo \subseteq DOMAIN files
  /\ step \in {"next", "load", "check", "dump", "done", "panic"}

\* A dump is read to its end wherever the chunks of the file end: no request
\* fails, no length is read from beyond the window, no end test is mistaken,
\* and no child is missing on the stack.
DumpsAreAccepted == step = "load" /\ at \in {"refused", "wild", "text"} => ~IsDump(file)

\* What is loaded from a dump is what it was made from: every number, every
\* instruction, every string, and every child in its place.
LoadedIsDumped ==
  step = "load" /\ at = "loaded" /\ IsDump(file) =>
    /\ Len(stack) = oldtop + 1
    /\ \E d \in Dumps : d.bytes = file /\ <<"proto", d.tree>> = Last(stack)

\* A file in the output directory is complete, and unmodified LuaJIT reads
\* from it what one of the inputs of that name stands for: nothing is made
\* of a dump that was cut short, or has a prototype or a child too many, and
\* nothing of one file gets into the output of another.
OutputsReadBack ==
  step = "next" =>
    \A o \in DOMAIN out : \E r \in {StockRead(out[o])} :
      /\ r.ok
      /\ \E name \in DOMAIN given.files :
           OutName[name] = o /\ r.v \in Meanings(given.files[name])

\* Given a directory of dumps only, which can be read, with names that differ
\* as outputs, to be decoded to another directory, the tool decodes every file
\* in the end.
AllDumps(d) ==
  /\ ~d.here /\ d.failing = {}
  /\ \A name \in DOMAIN d.files : IsDump(d.files[name])
  /\ \A x, y \in DOMAIN d.files : OutName[x] = OutName[y] => x = y

AllDecoded ==
  step = "next" /\ out = <<>> /\ AllDumps(given) ~>
    step = "done" /\ DOMAIN out = {OutName[name] : name \in DOMAIN given.files}
=============================================================================
