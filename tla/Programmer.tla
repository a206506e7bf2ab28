------------------------------- MODULE Programmer -------------------------------
(***************************************************************************)
(* What each instruction promises the programmer, whatever microcode runs  *)
(* it: the operand words it reads, the words it writes, what the registers *)
(* hold afterwards and where the next instruction is.  Written over the    *)
(* symbolic values of module Datapath and compared with what it did.       *)
(***************************************************************************)
EXTENDS Datapath, Instructions

\* What the instruction has done to its surroundings.
Untouched == [regs |-> RegsAtStart, ctl |-> Sym(<<"ctl">>), reads |-> {}, writes |-> {},
              next |-> Stream(0)]

Ext(n)   == Mem(Stream(n))              \* the stream's word at n
Pair(v)  == <<Mem(v), Mem(Plus(v, 2)), 0>>
size(sz) == IF sz = "long" THEN 4 ELSE 2
Cells(v, sz) == {Plus(v, k) : k \in {j \in {0, 2} : j < size(sz)}}

\* Extension words of an operand.
Extra(m, sz) == CASE m = "absl" -> 4
                  [] m = "imm"  -> size(sz)
                  [] m \in {"adisp", "aidx", "absw", "pcdisp", "pcidx"} -> 2
                  [] OTHER      -> 0

\* The operand of mode m through address register r, its extension words at n.
Address(s, m, r, sz, n) ==
  CASE m \in {"aind", "apost"} -> s.regs[r]
    [] m = "apre"   -> Plus(s.regs[r], -size(sz))
    [] m = "adisp"  -> Of({s.regs[r], Word(Ext(n))})
    [] m = "aidx"   -> Of({Of({s.regs[r], Word(Ext(n))}), Sym(<<"index", Ext(n)>>)})
    [] m = "pcdisp" -> Of({Stream(n), Word(Ext(n))})
    [] m = "pcidx"  -> Of({Of({Stream(n), Word(Ext(n))}), Sym(<<"index", Ext(n)>>)})
    [] m = "absw"   -> Extend(Word(Ext(n)))
    [] OTHER        -> Pair(Stream(n))

Operand(s, m, d, r, sz, n) ==
  CASE m = "dn" -> s.regs[d] [] m = "an" -> s.regs[r]
    [] m = "imm" -> IF sz = "long" THEN Pair(Stream(n)) ELSE Word(Ext(n))
    [] OTHER -> LET v == Address(s, m, r, sz, n)
                IN IF sz = "long" THEN Pair(v) ELSE Word(Mem(v))

InMemory(m) == m \notin REGISTER \cup {"imm", "none"}

\* Reading an operand, writing one, and stepping its address register.
Read(s, m, r, sz, n) ==
  IF InMemory(m) THEN [s EXCEPT !.reads = @ \cup Cells(Address(s, m, r, sz, n), sz)] ELSE s

Stored(s, v, val, sz) ==
  [s EXCEPT !.writes = @ \cup IF sz = "long" THEN {<<v, Hi(val)>>, <<Plus(v, 2), Lo(val)>>}
                              ELSE {<<v, Lo(val)>>}]

Stepped(s, m, r, sz) ==
  CASE m = "apost" -> [s EXCEPT !.regs[r] = Plus(@, size(sz))]
    [] m = "apre"  -> [s EXCEPT !.regs[r] = Plus(@, -size(sz))]
    [] OTHER       -> s

Loaded(s, r, val, sz) ==
  [s EXCEPT !.regs[r] = IF sz = "long" THEN val ELSE <<Hi(@), Lo(val), 0>>]

\* val to the operand of mode m, which is where it was read from or not.
Result(s, m, d, r, sz, n, val) ==
  IF m = "dn" THEN Loaded(s, d, val, sz)
  ELSE Stepped(Stored(s, Address(s, m, r, sz, n), val, sz), m, r, sz)

Pushed(s, val) == Stored([s EXCEPT !.regs["sp"] = Plus(@, -4)],
                         Plus(s.regs["sp"], -4), val, "long")

\* An exception stacks the status register, the program counter ret and the
\* format word, and goes where the vector says.
Exception(s, ret) ==
  LET sp  == Plus(s.regs["sp"], -8)
      vec == Of({Sym(<<"vbr">>), Sym(<<"vec">>)})
  IN [s EXCEPT !.regs["sp"] = sp, !.reads = @ \cup Cells(vec, "long"), !.next = Pair(vec),
        !.writes = @ \cup {<<sp, <<"lo", <<"srsave">>>>>>, <<Plus(sp, 2), Hi(ret)>>,
                           <<Plus(sp, 4), Lo(ret)>>, <<Plus(sp, 6), <<"lo", <<"fmtvec">>>>>>}]

-----------------------------------------------------------------------------
(***************************************************************************)
(* Where the parts of an instruction are.                                  *)
(***************************************************************************)
Branches == {"bra", "bcc", "bsr"}
\* Sized by their displacement or by nothing, not by their operand.
Size(i)  == IF i.op \in Branches THEN "word" ELSE i.size
Before(i)  == CASE i.op \in {"addi", "cmpi"} -> 2 + size(i.size)
               [] i.op \in {"bchgi", "btst", "movem_in", "movem_out", "moves"} -> 4
               [] OTHER -> 2
Behind(i) == CASE i.op \in Branches /\ i.size = "long" -> 2
               [] i.op \in {"dbcc", "link", "movep_in", "movep_out", "movec_in", "movec_out",
                            "ori_to_sr", "ori_to_ccr"} -> 2
               [] OTHER -> 0
Follows(i) == Stream(Before(i) + Extra(i.src, Size(i)) + Extra(i.dst, Size(i)) + Behind(i))

Start(i) == [Untouched EXCEPT !.next = Follows(i)]
Dx == alias["dx"]   Src == alias["src"]   Dy == alias["dy"]   Dst == alias["dst"]
Was(r)     == RegsAtStart[r]
Source1(i) == Operand(Untouched, i.src, Dx, Src, Size(i), Before(i))
Effective(i) == Address(Untouched, i.src, Src, Size(i), Before(i))
Fetched(i) == Read(Start(i), i.src, Src, Size(i), Before(i))
Got(i)     == Stepped(Fetched(i), i.src, Src, Size(i))
Put(i, s, sz, val) == Result(s, i.src, Dx, Src, sz, Before(i), val)
Refused(i, s) == IF "priv_violation" \in path THEN Exception(Start(i), Stream(0)) ELSE s

-----------------------------------------------------------------------------
\* What is combined with an operand that is read, modified and written back.
Modifier(i) ==
  CASE i.op \in {"eor", "add_ea", "bchg"} -> Was(Dy)
    [] i.op = "addi"  -> IF i.size = "long" THEN Pair(Stream(2)) ELSE Word(Ext(2))
    [] i.op = "bchgi" -> Word(Ext(2))
    [] i.op = "addq"  -> Sym(<<"quick", Ext(0)>>)
    [] OTHER          -> Sym(<<"zero">>)

Modifies == {"neg", "negx", "nbcd", "tas", "shift", "ext", "eor", "add_ea", "bchg", "addi",
             "bchgi", "addq"}
Replaces == {"scc", "movefromsr", "movefromccr"}

Modified(i) ==
  LET val == Of({Source1(i), Modifier(i)})
  IN IF i.src = "an" THEN Loaded(Start(i), Src, val, "long")
     ELSE Put(i, Fetched(i), IF i.src = "dn" /\ i.op \in {"bchg", "bchgi"} THEN "long"
                             ELSE i.size, val)

Wide(i) == IF i.size = "word" THEN Extend(Source1(i)) ELSE Source1(i)

Computed(i) ==
  LET with_dy == Of({Source1(i), Was(Dy)})
  IN CASE i.op = "move"   -> Result(Got(i), i.dst, Dy, Dst, i.size,
                                    Before(i) + Extra(i.src, i.size), Source1(i))
       [] i.op = "movea"  -> Loaded(Got(i), Dst, Wide(i), "long")
       [] i.op = "adda"   -> Loaded(Got(i), Dst, Of({Wide(i), Got(i).regs[Dst]}), "long")
       [] i.op = "add_dn" -> Loaded(Got(i), Dy, with_dy, i.size)
       [] i.op = "mulu"   -> Loaded(Got(i), Dy, with_dy, "long")
       [] i.op = "divu"   -> CASE "div_by_zero" \in path -> Exception(Got(i), Follows(i))
                               [] "ovf" \in path         -> Got(i)
                               [] OTHER                  -> Loaded(Got(i), Dy, with_dy, "long")
       [] i.op = "chk"    -> IF "chk_trap" \in path THEN Exception(Got(i), Follows(i)) ELSE Got(i)
       [] i.op = "clr"    -> Put(i, Start(i), i.size, Sym(<<"zero">>))
       [] i.op \in Replaces ->
            Refused(i, Put(i, Fetched(i), i.size,
                           IF i.op = "scc" THEN Sym(<<"scc">>) ELSE Untouched.ctl))
       [] OTHER           -> Got(i)
Computes == {"move", "movea", "adda", "add_dn", "mulu", "divu", "chk", "clr", "tst", "cmp",
             "cmpi", "cmpa", "btst"} \cup Replaces

\* Two operands stepped through the same way: the source first.
Paired(i) ==
  LET w  == IF i.op = "cmpm" THEN "apost" ELSE "apre"
      s1 == Stepped(Read(Start(i), w, Src, i.size, 0), w, Src, i.size)
      s2 == Read(s1, w, Dst, i.size, 0)
      val == Of({Operand(Untouched, w, Dx, Src, i.size, 0), Operand(s1, w, Dy, Dst, i.size, 0)})
  IN CASE i.src = "reg"  -> Loaded(Start(i), Dy, Of({Was(Dx), Was(Dy)}), i.size)
       [] i.op = "cmpm"  -> Stepped(s2, w, Dst, i.size)
       [] OTHER          -> Result(s2, w, Dy, Dst, i.size, 0, val)

Exchanged(i) ==
  LET a == IF i.src = "aa" THEN Dst ELSE Dy
      b == IF i.src = "dd" THEN Dx ELSE Src
  IN [Start(i) EXCEPT !.regs = [@ EXCEPT ![a] = Was(b), ![b] = Was(a)]]

\* MOVEP: the bytes of a register, the most significant first, every other
\* address.
Bytes(i) ==
  LET adr   == Of({Was(Src), Word(Ext(2))})
      bytes == <<"byte1", "byte2", "byte3", "byte4">>
      at(k) == Plus(adr, 2 * (k - 1))
      \* The bytes gathered so far, and the next one.
      gathered[k \in 1..4] == IF k = 1 THEN Word(Mem(adr))
                              ELSE Of({Word(Mem(at(k))), gathered[k - 1]})
  IN IF i.op = "movep_out"
     THEN [Start(i) EXCEPT !.writes = {<<at(k), Lo(Of({Was(Dy), Sym(<<bytes[k]>>)}))>>
                                         : k \in 1..size(i.size)}]
     ELSE [Loaded(Start(i), Dy, gathered[size(i.size)], i.size) EXCEPT
             !.reads = {at(k) : k \in 1..size(i.size)}]

\* MOVEM: the registers of the list, upward, or downward from -(An).  A move to
\* registers reads one word beyond them.
Several(i) ==
  LET n     == Len(mask)
      step  == size(i.size)
      base  == IF i.src \in IND THEN Was(Src) ELSE Effective(i)
      at(k) == IF i.src = "apre" THEN Plus(base, -(k * step)) ELSE Plus(base, (k - 1) * step)
      val(k) == IF i.size = "long" THEN Pair(at(k)) ELSE Extend(Word(Mem(at(k))))
      out   == [Start(i) EXCEPT !.writes =
                  UNION {Stored(Untouched, at(k), Was(mask[k]), i.size).writes : k \in 1..n}]
      in    == [Start(i) EXCEPT
                  !.reads = UNION {Cells(at(k), i.size) : k \in 1..n} \cup {at(n + 1)},
                  !.regs  = [r \in Registers |-> IF \E k \in 1..n : mask[k] = r
                                                 THEN val(CHOOSE k \in 1..n : mask[k] = r)
                                                 ELSE @[r]]]
      moved == IF i.op = "movem_out" THEN out ELSE in
  IN CASE i.src = "apost" -> [moved EXCEPT !.regs[Src] = at(n + 1)]
       [] i.src = "apre"  -> [moved EXCEPT !.regs[Src] = Plus(base, -(n * step))]
       [] OTHER           -> moved

-----------------------------------------------------------------------------
\* The instructions that go elsewhere, and those that use the stack.
Directed(i) ==
  LET s  == Start(i)
      sp == Was("sp")
      target == Of({Stream(2), IF i.op = "dbcc" \/ i.size = "long" THEN Word(Ext(2))
                               ELSE Sym(<<"ir_sxb", Ext(0)>>)})
      to(t, where) == [t EXCEPT !.next = where]
  IN
  CASE i.op = "lea"   -> Loaded(s, Dst, Effective(i), "long")
    [] i.op = "pea"   -> Pushed(s, Effective(i))
    [] i.op = "jmp"   -> to(s, Effective(i))
    [] i.op = "jsr"   -> to(Pushed(s, Follows(i)), Effective(i))
    [] i.op = "bra"   -> to(s, target)
    [] i.op = "bsr"   -> to(Pushed(s, Follows(i)), target)
    [] i.op = "bcc"   -> IF "take" \in path THEN to(s, target) ELSE s
    [] i.op = "dbcc"  ->
         LET counted == IF "count" \in path
                        THEN Loaded(s, Dx, Of({Was(Dx), Sym(<<"one">>)}), "word") ELSE s
         IN IF "take" \in path THEN to(counted, target) ELSE counted
    [] i.op = "rts"   -> to([s EXCEPT !.reads = Cells(sp, "long"), !.regs["sp"] = Plus(sp, 4)],
                            Pair(sp))
    [] i.op = "rtd"   -> to([s EXCEPT !.reads = Cells(sp, "long"), !.regs["sp"] =
                                        Of({Plus(sp, 4), Extend(Word(Ext(2)))})], Pair(sp))
    [] i.op = "rtr"   -> to([s EXCEPT !.reads = {sp} \cup Cells(Plus(sp, 2), "long"),
                               !.ctl = Word(Mem(sp)), !.regs["sp"] = Plus(sp, 6)],
                            Pair(Plus(sp, 2)))
    [] i.op = "rte"   ->
         LET frame == [s EXCEPT !.reads = {sp, Plus(sp, 6)} \cup Cells(Plus(sp, 2), "long")]
         IN IF "format_error" \in path THEN Exception(frame, Stream(0))
            ELSE Refused(i, to([frame EXCEPT !.ctl = Word(Mem(sp)), !.regs["sp"] = Plus(sp, 8)],
                               Pair(Plus(sp, 2))))
    [] i.op = "link"  -> [Pushed(s, Was(Src)) EXCEPT
                            !.regs = [@ EXCEPT ![Src] = Plus(sp, -4),
                              !["sp"] = Of({Plus(sp, -4), Extend(Word(Ext(2)))})]]
    [] i.op = "unlk"  -> [s EXCEPT !.reads = Cells(Was(Src), "long"), !.regs =
                            [@ EXCEPT !["sp"] = Plus(Was(Src), 4), ![Src] = Pair(Was(Src))]]
    [] i.op \in {"illegal", "bkpt"}                    -> Exception(s, Stream(0))
    [] i.op = "trap" \/ (i.op = "trapv" /\ "take" \in path) -> Exception(s, Follows(i))
    [] OTHER -> Refused(i, s)

\* Control registers, and the general register an extension word names.
Controlled(i) ==
  LET s == Start(i)
  IN IF "illegal_exc" \in path THEN Exception(s, Stream(0)) ELSE Refused(i,
     CASE i.op \in {"movetosr", "movetoccr"}     -> [Got(i) EXCEPT !.ctl = Source1(i)]
       [] i.op \in {"ori_to_sr", "ori_to_ccr"}   -> [s EXCEPT !.ctl = Of({Word(Ext(2)), s.ctl})]
       [] i.op = "move_to_usp"                   -> [s EXCEPT !.ctl = Was(Src)]
       [] i.op = "move_from_usp"                 -> Loaded(s, Src, s.ctl, "long")
       [] i.op = "movec_in"                      -> [s EXCEPT !.ctl = Was("rx")]
       [] i.op = "movec_out"                     -> Loaded(s, "rx", s.ctl, "long")
       [] i.op = "moves" /\ "in" \in path        -> Loaded(Got(i), "rx", Source1(i), i.size)
       [] OTHER -> Put(i, s, i.size, Was("rx")))
Controls == {"movetosr", "movetoccr", "ori_to_sr", "ori_to_ccr", "move_to_usp", "move_from_usp",
             "movec_in", "movec_out", "moves"}

Promise(i) ==
  CASE i.op \in Modifies                    -> Modified(i)
    [] i.op \in Computes                    -> Computed(i)
    [] i.op \in Controls                    -> Controlled(i)
    [] i.op \in {"addx", "abcd", "cmpm"}    -> Paired(i)
    [] i.op = "exg"                         -> Exchanged(i)
    [] i.op = "moveq"                       -> Loaded(Start(i), Dy, Sym(<<"ir_sxb", Ext(0)>>), "long")
    [] i.op \in {"movep_in", "movep_out"}   -> Bytes(i)
    [] i.op \in {"movem_in", "movem_out"}   -> Several(i)
    [] OTHER                                -> Directed(i)

-----------------------------------------------------------------------------
(***************************************************************************)
(* The properties: what has happened when an instruction has run.          *)
(***************************************************************************)
Over == inst # NoInst /\ label = "over"

InStep(d) == LET next == Promise(inst).next
             IN [r \in DOMAIN Pipe(next) |-> d[r]] = Pipe(next)
Right(d)  == d.regs = Promise(inst).regs /\ d.ctl = Promise(inst).ctl
Once(seq, set) == ToSet(seq) = set /\ Len(seq) = Cardinality(set)

\* The pipe is left as every instruction expects to find it: ir and irc hold the
\* first two words of what comes next, with their own addresses, and pc is one
\* ahead -- whatever was fetched early, late or again, and whatever faulted.
PipeInStep == Over => InStep(dp)

\* Every operand word is read where the addressing mode says, once, and no other.
ReadsOnce == Over => Once(reads, Promise(inst).reads)

\* Every result word is written once, the right half at the right address, long
\* after the fields that named the address have left the pipe; return addresses
\* and exception frames among them.
WritesOnce == Over => Once(writes, Promise(inst).writes)

\* Registers and the status register hold what the instruction computes, each
\* address register has moved once, and no field of another opcode was used.
RegistersRight == Over => Right(dp)

\* Every bus cycle is asked for a clock early, from registers that are about to
\* change: the address is the one the word itself would have used.
RequestForeseen == Running /\ uw.bus # "none" => asked = own_address
=============================================================================
