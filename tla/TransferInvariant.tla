------------------------- MODULE TransferInvariant -------------------------
(***************************************************************************)
(* Why a transfer keeps its memory in order: what the tables of CStructs   *)
(* and Transfer have to agree on, and the invariant that follows from it.  *)
(*                                                                         *)
(* The tables are constants: TLC evaluates each assumption about them, and *)
(* the proofs use the assumptions and never the tables.                    *)
(***************************************************************************)
EXTENDS Transfer

Sides == {"library", "R"}

\* What TypeOf can be, for any data.
TypesOf(m) ==
  CASE m.of = "by type"       -> {ValueOf[k] : k \in Kinds}
    [] m.of = "by point_type" -> {PointOf[q] : q \in Points}
    [] OTHER                  -> {m.of}

Members(T) == ToSet(Layout[T])
Entries(by, T) == ToSet(FillOrder[by][T])
Kind(T, n) == MemberOf(T, n).kind

\* The structs that a member n of a T may be, or point to.
Inner(T, n) ==
  IF Kind(T, n) \in {"struct", "array"} THEN TypesOf(MemberOf(T, n)) ELSE {}

\* The members that a T may be, or be pointed to by.
Outer(T) ==
  {o \in UNION {{<<U, m.name>> : m \in Members(U)} : U \in DOMAIN Layout} :
     T \in Inner(o[1], o[2])}

\* In zeroed memory, wherever they are.
CleanTypes ==
  {"otel_log_data1", "otel_collector_log_record", "otel_file_exporter_options",
   "otel_http_exporter_options", "otel_http_headers", "otel_strings",
   "otel_provider_http_options", "otel_collector_resource_metrics"}
Clean(T, n) == T \in CleanTypes \/ n = "options_"

Decoded ==
  {"otel_collector_resource_logs", "otel_collector_resource_log",
   "otel_collector_scope_log", "otel_collector_log_record",
   "otel_collector_resource_metrics", "otel_collector_resource_metric",
   "otel_collector_scope_metric", "otel_collector_metric", "otel_string"}

\* Filled by functions whose callers give nothing back when they fail.
Uncaughts ==
  {"otel_file_exporter_options", "otel_provider_http_options", "otel_strings",
   "otel_bsp_options", "otel_string"}
Flat == {"otel_string", "otel_bsp_options"}

Borrowers == {"otel_boolean_array", "otel_double_array", "otel_links"}

-----------------------------------------------------------------------------
(* The structs (otel_common.h).                                            *)

ASSUME LayoutAssumption ==
  /\ \A T \in DOMAIN Layout :
       /\ T \in STRING
       /\ \A m \in Members(T) :
            /\ m.name \in STRING /\ MemberOf(T, m.name) = m
            /\ m.kind \in {"block", "plain", "struct", "array"}
            /\ Inner(T, m.name) \subseteq DOMAIN Layout
            /\ T \in Flat => m.kind \in {"block", "plain"}
  /\ \A m \in Members("otel_string") : m.kind = "block"
  /\ \A m, n \in Members("otel_string") : m = n
  /\ \A m \in Members("otel_bsp_options") : m.kind = "plain"
  /\ Outer("otel_strings") = {<<"otel_provider_http_options", "http_headers">>}
  /\ Outer("otel_provider_http_options") = {} /\ Outer("otel_bsp_options") = {}
  /\ \A m \in Members("otel_strings") : m.kind = "array"

\* The structs inside of a struct, and theirs: CellsOf() is complete.
InsideOf(S) ==
  UNION {UNION {TypesOf(m) : m \in {x \in Members(T) : x.kind = "struct"}} : T \in S}
ASSUME NestingAssumption ==
  InsideOf(InsideOf(InsideOf(InsideOf(DOMAIN Layout)))) = {}

-----------------------------------------------------------------------------
(* Who fills what, and how (the cc2c_*() and r2c_*() functions).           *)

ASSUME FillAssumption ==
  \A by \in Sides : by \in DOMAIN FillOrder /\
    \A T \in DOMAIN FillOrder[by] :
      /\ T \in DOMAIN Layout
      /\ FillOrder[by][T] \in Seq(Entries(by, T))
      /\ \A e \in Entries(by, T) :
           /\ \E m \in Members(T) : m.name = e.name
           /\ Inner(T, e.name) \subseteq DOMAIN FillOrder[by]
           /\ e.part /= "all" => Kind(T, e.name) = "array"
      /\ \A i, j \in DOMAIN FillOrder[by][T] :
           LET d == FillOrder[by][T][i] e == FillOrder[by][T][j]
           IN i < j => d.name /= e.name \/ (d.part = "array" /\ e.part = "elements")

EntryTypes ==
  [name : STRING, how : STRING, part : {"all", "array", "elements"},
   ifGiven : BOOLEAN, zeroed : BOOLEAN, caught : BOOLEAN]
ASSUME EntryTypeAssumption ==
  \A by \in Sides : \A T \in DOMAIN FillOrder[by] : Entries(by, T) \subseteq EntryTypes

\* An array that is allocated before other members is filled after them.
Waits(by, T, i) ==
  \E j \in DOMAIN FillOrder[by][T] :
    /\ i < j /\ FillOrder[by][T][j].name = FillOrder[by][T][i].name
    /\ FillOrder[by][T][j].part = "elements"
\* Nobody allocates it.
Unallocated(by, T, e) ==
  /\ e.part = "elements"
  /\ \A d \in Entries(by, T) : d.name = e.name => d.part /= "array"

ASSUME PartsAssumption ==
  \A by \in Sides : \A T \in DOMAIN FillOrder[by] :
    /\ \A i \in DOMAIN FillOrder[by][T] :
         FillOrder[by][T][i].part = "array" => Waits(by, T, i)
    /\ \A e \in Entries(by, T) :
         /\ e.part = "elements" => ~e.zeroed
         /\ e.part = "array" => e.how = "checked"

\* Nothing is skipped, or left out when an allocation fails, that is not zero.
CleanGoes(by, T, e) ==
  /\ e.ifGiven => e.part = "all" /\ Kind(T, e.name) = "struct" /\ Clean(T, e.name)
  /\ Kind(T, e.name) = "array" =>
       /\ e.how \notin {"optional", "as called"}
       /\ e.how = "unchecked" /\ by = "library" => Clean(T, e.name)
  /\ \A U \in Inner(T, e.name) : \A d \in Entries(by, U) :
       /\ Clean(U, d.name) => IF Kind(T, e.name) = "struct" THEN Clean(T, e.name)
                                                            ELSE e.zeroed
       /\ Unallocated(by, U, d) => Kind(T, e.name) = "struct" /\ Clean(T, e.name)
ASSUME CleanAssumption ==
  \A by \in Sides : \A T \in DOMAIN FillOrder[by] : \A e \in Entries(by, T) :
    CleanGoes(by, T, e)

HowGoes(by, T, e) ==
  /\ e.how = "as called" => T = "otel_string"
  /\ e.how = "abandoning" <=> T = "otel_strings"
  /\ e.how \in {"borrowed", "R_alloc"} => by = "R" /\ T \in Borrowers
  /\ by = "R" => e.how /= "checked" /\ T /= "otel_strings"
  /\ by = "library" /\ T \in Uncaughts =>
       /\ e.how = "checked" => T = "otel_bsp_options"
       /\ Inner(T, e.name) \subseteq Uncaughts
  /\ T \in Borrowers /\ by = "R" => "otel_string" \notin Inner(T, e.name)
  /\ T \in Decoded /\ by = "library" =>
       /\ Kind(T, e.name) = "array" => e.zeroed
       /\ Inner(T, e.name) \subseteq Decoded
  /\ \A a \in Borrowers \ {"otel_links"} :
       by = "R" /\ a \in Inner(T, e.name) =>
         /\ MemberOf(T, e.name).of = "by type"
         /\ \A k \in Kinds : ValueOf[k] = a => k \in {"k_boolean_array", "k_double_array"}
ASSUME HowAssumption ==
  \A by \in Sides : \A T \in DOMAIN FillOrder[by] : \A e \in Entries(by, T) :
    HowGoes(by, T, e)

-----------------------------------------------------------------------------
(* What is filled is what is read and given back (wrap-r.c).               *)

Complete(by, order, S) ==
  \A T \in S : \A e \in Entries(by, T) :
    /\ Kind(T, e.name) /= "plain" => e.name \in ToSet(order[T])
    /\ Inner(T, e.name) \subseteq S

ASSUME FreeAssumption ==
  /\ \A by \in Sides :
       Complete(by, FreeOrder, DOMAIN FreeOrder \cap DOMAIN FillOrder[by])
  /\ "otel_links" \notin DOMAIN FreeOrder
  /\ "otel_strings" \in CountedFirst

\* The data of the entry point o, but for attributes that nobody reads.
AllRead(o) == Entry[o].root /= "stdstream_locals"
Readable(o) == DOMAIN ReadOrder[Entry[o].reads] \ {"stdstream_locals"}

ASSUME ReadAssumption ==
  \A o \in DOMAIN Entry :
    LET by == Entry[o].fill order == ReadOrder[Entry[o].reads]
    IN /\ AllRead(o) => Entry[o].root \in Readable(o)
       /\ Complete(by, order, Readable(o) \cap DOMAIN FillOrder[by])
       /\ \A T \in DOMAIN order \cap DOMAIN FillOrder[by] :
            \A n \in ToSet(order[T]) : \E e \in Entries(by, T) : e.name = n

-----------------------------------------------------------------------------
(* The entry points.                                                       *)

ASSUME EntryAssumption ==
  \A o \in DOMAIN Entry :
    LET C == Entry[o]
    IN /\ C.fill \in Sides /\ C.root \in DOMAIN FillOrder[C.fill]
       /\ C.how \in STRING \ {"as called", "abandoning", "borrowed", "R_alloc"}
       /\ C.catches \in {<<>>, <<<<C.root, <<>>>>>>}
       /\ C.catches = <<>> /\ C.fill = "library" =>
            C.root \in Uncaughts /\ (C.how = "checked" => C.root \in Flat)
       /\ C.catches = <<>> /\ C.fill = "R" => C.how /= "checked"
       /\ C.root = "otel_provider_http_options" => C.catches = <<>>
       /\ C.frees \/ C.catches /= <<>> => C.root \in DOMAIN FreeOrder
       /\ C.root \notin Borrowers /\ C.root /= "otel_strings"
       /\ C.parses => C.fill = "library" /\ C.root \in Decoded
                      /\ MemberNames(C.root) \subseteq C.zeroed
       /\ \A n \in MemberNames(C.root) : Clean(C.root, n) => n \in C.zeroed
       /\ \A e \in Entries(C.fill, C.root) : ~Unallocated(C.fill, C.root, e)

-----------------------------------------------------------------------------
(* Places.                                                                 *)

Step == [struct : STRING, member : STRING, index : Int]

IsMember(s) == s.struct \in DOMAIN Layout /\ \E m \in Members(s.struct) : m.name = s.member

\* A step into a U: a member, or an element of the array of a member.
Leads(s, U) ==
  /\ IsMember(s)
  /\ U = TypeOf(MemberOf(s.struct, s.member), shape)
  /\ \/ s.index = 0 /\ Kind(s.struct, s.member) = "struct"
     \/ s.index >= 1 /\ Kind(s.struct, s.member) = "array"

\* At p is a T.
Path(p, T) ==
  /\ p \in Seq(Step)
  /\ IF p = <<>> THEN T = E.root ELSE p[1].struct = E.root
  /\ \A k \in 1..Len(p) : Leads(p[k], IF k = Len(p) THEN T ELSE p[k + 1].struct)

InBounds(p) ==
  \A k \in 1..Len(p) :
    p[k].index <= Allocated(p[k].struct, Items(SubSeq(p, 1, k - 1), shape))

\* At c is a member that is no struct, or the count of one that is an array.
Cell(c) ==
  /\ c \in Seq(Step) /\ c /= <<>>
  /\ c[1].struct = E.root
  /\ \A k \in 1..(Len(c) - 1) : Leads(c[k], c[k + 1].struct)
  /\ IsMember(c[Len(c)])
  /\ LET kind == Kind(c[Len(c)].struct, c[Len(c)].member)
     IN \/ c[Len(c)].index = 0 /\ kind /= "struct"
        \/ c[Len(c)].index = -1 /\ kind = "array"

\* A T is read and given back by those that get the data.
Handled(T) ==
  /\ AllRead(op) => T \in Readable(op)
  /\ E.frees \/ E.catches /= <<>> => T \in DOMAIN FreeOrder

\* Every step of p is something that the filling side fills.
Followed(p) ==
  \A k \in 1..Len(p) :
    /\ p[k].struct \in DOMAIN FillOrder[E.fill] /\ Handled(p[k].struct)
    /\ \E e \in Entries(E.fill, p[k].struct) : e.name = p[k].member

\* What the element that c goes through at step k hangs on is there.
HeldAt(c, k) ==
  /\ PointerOf(c, k) \in DOMAIN mem /\ CountOf(c, k) \in DOMAIN mem
  /\ mem[PointerOf(c, k)] \in {"live", "borrowed"}
  /\ c[k].struct /= "otel_strings" => mem[CountOf(c, k)] = "set"
Held(c) == \A k \in 1..Len(c) : c[k].index > 0 => HeldAt(c, k)

Live == {c \in DOMAIN mem : mem[c] = "live"}

-----------------------------------------------------------------------------
(* What is left to fill.                                                   *)

TaskTypes ==
  [entry : EntryTypes, struct : STRING, at : Seq(Step), how : STRING,
   catches : Seq(STRING \X Seq(Step)), next : Nat]

HasRoot(cs) == cs /= <<>> /\ cs[Len(cs)] = <<E.root, <<>>>>
Structs(cs) == \A k \in DOMAIN cs : Path(cs[k][2], cs[k][1])

\* How a task is done that inherits it from the structs that it is in.
HowFits(t) ==
  /\ t.how = "as called" => FALSE
  /\ t.how = "abandoning" =>
       \/ t.struct = "otel_strings"
       \/ /\ t.struct = "otel_string" /\ t.at /= <<>>
          /\ t.at[Len(t.at)].struct = "otel_strings" /\ t.at[Len(t.at)].index > 0
  /\ t.how \in {"borrowed", "R_alloc"} => E.fill = "R" /\ t.struct \in Borrowers
  /\ t.how = "checked" => E.catches /= <<>> \/ E.root \in Flat
  /\ t.how /= t.entry.how => t.struct = "otel_string"

TaskFits(t) ==
  /\ Path(t.at, t.struct) /\ Followed(t.at) /\ InBounds(t.at)
  /\ t.struct \in DOMAIN FillOrder[E.fill] /\ Handled(t.struct)
  /\ t.entry \in Entries(E.fill, t.struct)
  /\ t.entry.part = "all" /\ t.next > 0 => What(t).kind = "array"
  /\ t.entry.part = "array" => t.next = 0
  /\ t.entry.part = "elements" => t.next > 0
  /\ Structs(t.catches) /\ (E.catches /= <<>> => HasRoot(t.catches))
  /\ E.catches = <<>> /\ E.fill = "library" => t.struct \in Uncaughts
  /\ E.parses => t.struct \in Decoded
  /\ E.fill = "R" /\ t.struct \in Borrowers \ {"otel_links"} =>
       shape.kind \in {"k_boolean_array", "k_double_array"}
  /\ HowFits(t)

\* What t is about to fill.
InZone(c, t) ==
  /\ Len(t.at) < Len(c)
  /\ \A k \in 1..Len(t.at) : c[k] = t.at[k]
  /\ LET s == c[Len(t.at) + 1]
     IN /\ s.struct = t.struct /\ s.member = t.entry.name
        /\ t.next > 0 => s.index >= t.next

\* t fills the elements of the array that s allocates.
Partners(s, t) ==
  /\ s.at = t.at /\ s.struct = t.struct /\ s.entry.name = t.entry.name
  /\ s.entry.part = "array" /\ t.entry.part = "elements" /\ t.next = 1

\* No two tasks fill the same place: else one of them would begin where the
\* other is going to be.
FirstPlace(t) == ElementPlace(t, t.next)
Apart(s, t) == ~InZone(FirstPlace(s), t) /\ ~InZone(FirstPlace(t), s)
AllApart ==
  \A i, j \in DOMAIN todo :
    i < j => Partners(todo[i], todo[j]) \/ Apart(todo[i], todo[j])

\* Arrays that are allocated first have their elements filled later.
Promised ==
  \A i \in DOMAIN todo :
    todo[i].entry.part = "array" =>
      \E j \in DOMAIN todo : i < j /\ Partners(todo[i], todo[j])

\* Nothing is allocated below what is not filled yet.
Unopened ==
  \A i \in DOMAIN todo : \A c \in DOMAIN mem :
    InZone(c, todo[i]) =>
      /\ todo[i].next = 0 => c[Len(todo[i].at) + 1].index <= 0
      /\ \A k \in (Len(todo[i].at) + 2)..Len(c) : c[k].index <= 0

IsClean(t) ==
  IF t.next = 0 THEN Clean(t.struct, t.entry.name) ELSE t.entry.zeroed
CleanStays ==
  \A i \in DOMAIN todo : IsClean(todo[i]) =>
    \A c \in DOMAIN mem : InZone(c, todo[i]) => mem[c] /= "garbage"

\* Nobody reads c: not the filled member, or not the array that nobody counts.
Ignored(c) ==
  \E k \in 1..Len(c) :
    \/ c[k].struct \notin DOMAIN ReadOrder[E.reads]
    \/ c[k].member \notin ToSet(ReadOrder[E.reads][c[k].struct])
    \/ c[k].struct = "otel_strings" /\ c[k].index > 0

\* What is still to be written is left to fill.
Covered ==
  \A c \in DOMAIN mem :
    mem[c] = "garbage" => Ignored(c) \/ \E i \in DOMAIN todo : InZone(c, todo[i])

-----------------------------------------------------------------------------
(* The invariant.                                                          *)

Typed ==
  /\ <<op, shape>> \in Inputs /\ op \in DOMAIN Entry /\ IsShape(shape)
  /\ mem = [c \in DOMAIN mem |-> mem[c]]
  /\ todo \in Seq(TaskTypes) /\ catches \in Seq(STRING \X Seq(Step))
  /\ phase \in {"called", "filling", "failing", "read", "done", "failed",
                "crashed", "jumped", "wild", "kept"}

CellsFit ==
  /\ \A c \in DOMAIN mem : Cell(c) /\ InBounds(c)
  /\ \A c \in DOMAIN mem : Kind(c[Len(c)].struct, c[Len(c)].member) = "array" =>
                           CountOf(c, Len(c)) \in DOMAIN mem
  /\ \A c \in DOMAIN mem :
       mem[c] \in IF IsNumber(c) THEN {"garbage", "null", "set"}
                  ELSE {"garbage", "null", "live", "borrowed"}
  /\ \A c \in DOMAIN mem : c[Len(c)].struct = "otel_strings" /\ c[Len(c)].index = -1 =>
                           mem[c] /= "set"
  /\ \A c \in DOMAIN mem : mem[c] = "borrowed" =>
       /\ E.fill = "R" /\ c[Len(c)].struct \in Borrowers
       /\ c[Len(c)].struct = "otel_links" \/ shape.kind \in {"k_boolean_array", "k_double_array"}
  /\ E.parses => \A c \in DOMAIN mem : mem[c] /= "garbage"
  /\ \A c \in Live : Followed(c)

TodoFits ==
  /\ \A i \in DOMAIN todo : TaskFits(todo[i])
  /\ AllApart /\ Promised /\ Unopened /\ CleanStays /\ Covered
  /\ phase = "called" => Live = {}

CatchesFit ==
  /\ Structs(catches)
  /\ Live = {} \/ (E.catches /= <<>> /\ HasRoot(catches))
  /\ \A c \in Live : Held(c)

MetFits ==
  /\ met \subseteq {"garbage", "borrowed"}
  /\ "borrowed" \in met => shape.kind \in {"k_boolean_array", "k_double_array"}
  /\ E.parses => "garbage" \notin met

IInv ==
  /\ Typed /\ MetFits /\ CellsFit
  /\ phase \in {"called", "filling"} => TodoFits
  /\ phase \in {"called", "filling", "read"} => \A c \in DOMAIN mem : Held(c)
  /\ phase = "failing" => CatchesFit
  /\ phase \in {"done", "failed"} => Live \subseteq UncountedHeaders

=============================================================================
