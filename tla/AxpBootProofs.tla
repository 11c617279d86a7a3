--------------------------- MODULE AxpBootProofs ---------------------------
(***************************************************************************)
(* The boot, on every board: no probe of a cell comes before its PMIC is    *)
(* there for it, everything is served in the end, and a master powers off.  *)
(***************************************************************************)
EXTENDS AxpBoot, FiniteSetTheorems, SequenceTheorems, TLAPS

Cell == {"powerkey", "regulator", "charger", "gpio"}
Names(c) == {Cells(c)[i].name : i \in DOMAIN Cells(c)}

(* The cells whose probe finds something only after the PMIC's.                *)
Needs(c, n) == c = "axp202" \/ Irqs(c, n) # {}

(* The PMIC has been, or is being, probed. *)
Present(c) == {Bus, Driver(c, "chip")} \subseteq registered

Own(kind, c) == <<kind, c, "chip">>
Has(q, s) == \E i \in 1 .. Len(q) : q[i] = s
Due(s) == Has(todo, s)
InList == Range(axp_dev_list)

StepsFor(c) ==
    {Own(kind, c) : kind \in {"drvdata", "list", "irqs", "power"}}
      \cup {<<kind, c, n>> : kind \in {"cell", "probe"}, n \in Names(c)}
-----------------------------------------------------------------------------
(* The inductive invariant.  The board: *)
BoardOK ==
    /\ board \in Seq(Chips) /\ Len(board) \in 1 .. 2 /\ IsInjective(board)
    /\ bus \in Levels /\ \A c \in Range(board) : bus <= LatestBus[c]

(* the initcalls, level by level and the PMIC's before its cells';             *)
Levelled ==
    /\ level \in Levels /\ registered \subseteq Drivers
    /\ \A d \in registered : LevelOf(d) <= level
    /\ \A d \in Drivers : LevelOf(d) < level => d \in registered
    /\ \A c \in Range(board) : \A n \in Names(c) :
         Driver(c, n) \in registered /\ initcall_chip(c) <= initcall_level(Driver(c, n))
           => Driver(c, "chip") \in registered

(* the probes under way: what their steps find;                                *)
InOrder(q) ==
    \A i \in 1 .. Len(q) : \A c \in Chips :
       /\ q[i] = Own("list", c) =>
            i < Len(q) /\ q[i + 1] = Own("irqs", c) /\ \A j \in 1 .. Len(q) : q[j] = q[i] => j = i
       /\ q[i] = Own("irqs", c) /\ i > 1 => q[i - 1] = Own("list", c)
Sequenced ==
    /\ todo \in Seq(UNION {StepsFor(c) : c \in Range(board)})
    /\ InOrder(todo)
    /\ \A i \in 1 .. Len(todo) : \A c \in Range(board) :
         /\ \A n \in Names(c) :
              /\ todo[i] = <<"cell", c, n>> =>
                   /\ Present(c)
                   /\ Needs(c, n) => Driver(c, n) \notin registered
                   /\ c = "axp202" \/ c \in drvdata \/ \E j \in 1 .. i - 1 : todo[j] = Own("drvdata", c)
              /\ todo[i] = <<"probe", c, n>> => c \in drvdata \cap irq_data
         /\ todo[i] = Own("list", c) => Present(c) /\ c \notin InList
         /\ todo[i] = Own("irqs", c) => i > 1 \/ c \in InList

(* what they leave behind;                                                    *)
Probed ==
    \A c \in Range(board) :
       /\ Present(c) =>
            /\ c \in drvdata \/ Due(Own(IF c = "axp202" THEN "list" ELSE "drvdata", c))
            /\ c \in irq_data \/ Due(Own("irqs", c))
            /\ c \in InList \/ Due(Own("list", c))
            /\ \/ ap_ops[axp_get_pmu_num(c)] = c
               \/ Due(Own(IF c \in {"axp22x", "axp803"} THEN "drvdata" ELSE "power", c))
            /\ PowersOff(c) => pm_power_off # "none" \/ Due(Own("power", c))
       /\ c \in InList => Present(c)

(* the cells;                                                                 *)
Settled(cell) ==
    \E c \in Range(board) : \E n \in Names(c) :
       /\ cell = <<c, n>> /\ Present(c)
       /\ \/ Unnamed(c, n) \/ Driver(c, n) \notin registered \/ Due(<<"probe", c, n>>)
          \/ cell \in bound /\ \A i \in Irqs(c, n) : <<c, i>> \in asked
Celled == \A cell \in devices : Settled(cell)

(* the line of the interrupt, requested when the first of them is listed.      *)
Counted ==
    \/ InList = {} /\ axp_dev_register_count = 0 /\ lines = {}
    \/ \E c \in Range(board) :
         /\ InList = {c} /\ axp_dev_register_count = 1
         /\ lines = {c} \/ (lines = {} /\ todo # <<>> /\ todo[1] = Own("irqs", c))
    \/ \E c, d \in Range(board) :
         c # d /\ InList = {c, d} /\ axp_dev_register_count = 2 /\ lines \in {{c}, {d}}

Kinds ==
    /\ axp_dev_list \in Seq(Range(board)) /\ irq_data \subseteq Range(board)
    /\ ap_ops \in [1 .. Len(board) -> Chips \cup {"none"}]
    /\ pm_power_off = "none" \/ (pm_power_off \in Chips /\ PowersOff(pm_power_off))

Inv == BoardOK /\ Levelled /\ Sequenced /\ Probed /\ Celled /\ Counted /\ Kinds /\ CellsFindTheirChip
-----------------------------------------------------------------------------
(* The tables. *)
LEMMA CellsOf ==
    ASSUME NEW c \in Chips
    PROVE  DOMAIN Cells(c) = 1 .. Len(Cells(c)) /\ Len(Cells(c)) \in Nat /\ Names(c) \subseteq Cell
  <1>. USE DEF Cells, Names, Cell, Device
  <1>1. CASE c = "axp22x"   BY <1>1 DEF axp22x_cells
  <1>2. CASE c = "axp803"   BY <1>2 DEF axp803_cells
  <1>3. CASE c = "axp80x"   BY <1>3 DEF axp80x_cells
  <1>4. CASE c = "axp15060" BY <1>4 DEF axp15060_cells
  <1>5. CASE c = "axp152"   BY <1>5 DEF axp152_cells
  <1>6. CASE c = "axp202"   BY <1>6 DEF axp202_cells
  <1>7. CASE c = "axp2585"  BY <1>7 DEF axp2585_cells
  <1>. QED  BY <1>1, <1>2, <1>3, <1>4, <1>5, <1>6, <1>7 DEF Chips

LEMMA FewCells ==
    /\ Names("axp80x") \subseteq {"powerkey", "regulator"}
    /\ Names("axp2585") \subseteq {"powerkey", "charger"}
    /\ Names("axp152") \subseteq {"powerkey", "regulator", "gpio"}
    /\ Names("axp15060") \subseteq {"powerkey", "regulator", "gpio"}
    /\ Irqs("axp15060", "gpio") = {}
  <1>. USE DEF Cells, Names, Device
  <1>1. Names("axp80x") \subseteq {"powerkey", "regulator"}
    BY DEF axp80x_cells
  <1>2. Names("axp2585") \subseteq {"powerkey", "charger"}
    BY DEF axp2585_cells
  <1>3. Names("axp152") \subseteq {"powerkey", "regulator", "gpio"}
    BY DEF axp152_cells
  <1>4. Names("axp15060") \subseteq {"powerkey", "regulator", "gpio"}
    BY DEF axp15060_cells
  <1>5. Irqs("axp15060", "gpio") = {}
    <2>1. \A i \in DOMAIN Cells("axp15060") :
             Cells("axp15060")[i].name = "gpio" => Cells("axp15060")[i].irqs = <<>>
      BY DEF axp15060_cells
    <2>2. Range(<<>>) = {}
      BY DEF Range
    <2>. QED  BY <2>1, <2>2 DEF Irqs
  <1>. QED  BY <1>1, <1>2, <1>3, <1>4, <1>5

(* The initcalls of the cells that need their PMIC come after it, if the bus   *)
(* is early enough.                                                           *)
LEMMA LevelsSuffice ==
    ASSUME NEW c \in Chips, NEW n \in Names(c), Needs(c, n)
    PROVE  /\ LatestBus[c] < initcall_level(Driver(c, n))
           /\ initcall_chip(c) <= initcall_level(Driver(c, n))
  <1>. USE DEF Needs, LatestBus, initcall_level, Driver, initcall_chip, initcall_regulator, initcall_gpio,
               initcall_charger, initcall_powerkey, Cell
  <1>0. n \in Cell
    BY CellsOf
  <1>9. n = "regulator" => Irqs(c, n) = {}
    BY DEF Irqs
  <1>1. CASE c = "axp22x"   BY <1>0, <1>1, <1>9
  <1>2. CASE c = "axp803"   BY <1>0, <1>2, <1>9
  <1>3. CASE c = "axp80x"   BY <1>9, <1>3, FewCells
  <1>4. CASE c = "axp15060" BY <1>9, <1>4, FewCells
  <1>5. CASE c = "axp152"   BY <1>9, <1>5, FewCells
  <1>6. CASE c = "axp202"   BY <1>0, <1>6, <1>9
  <1>7. CASE c = "axp2585"  BY <1>9, <1>7, FewCells
  <1>. QED  BY <1>1, <1>2, <1>3, <1>4, <1>5, <1>6, <1>7 DEF Chips

LEMMA LevelsKnown ==
    ASSUME NEW c \in Chips
    PROVE  /\ LatestBus[c] \in Nat /\ initcall_chip(c) \in Levels
           /\ initcall_level(Driver(c, "chip")) = initcall_chip(c)
           /\ \A n \in Cell : initcall_level(Driver(c, n)) \in Levels
  <1>1. LatestBus[c] \in Nat
    BY DEF LatestBus, Chips
  <1>2. initcall_chip(c) \in Levels /\ initcall_level(Driver(c, "chip")) = initcall_chip(c)
    BY DEF initcall_chip, initcall_level, Driver, Levels
  <1>3. ASSUME NEW n \in Cell PROVE initcall_level(Driver(c, n)) \in Levels
    BY <1>3 DEF Cell, initcall_level, Driver, initcall_regulator, initcall_gpio,
               initcall_charger, initcall_powerkey, Levels
  <1>. QED  BY <1>1, <1>2, <1>3
-----------------------------------------------------------------------------
(* The probe of a PMIC, before any of it is done. *)
Fresh(q, C) ==
    /\ q \in Seq(UNION {StepsFor(c) : c \in C})
    /\ InOrder(q)
    /\ \A i \in 1 .. Len(q) : \A c \in Chips :
         /\ q[i] # Own("irqs", c) \/ i > 1
         /\ \A n \in Cell :
              /\ q[i] = <<"cell", c, n>> => \E j \in 1 .. i - 1 : q[j] = Own("drvdata", c)
              /\ q[i] # <<"probe", c, n>>
    /\ \A c \in C : /\ Has(q, Own("drvdata", c)) /\ Has(q, Own("list", c))
                    /\ Has(q, Own("irqs", c)) /\ Has(q, Own("power", c))

LEMMA Joined ==
    ASSUME NEW S, NEW q \in Seq(S), NEW r \in Seq(S)
    PROVE  /\ q \o r \in Seq(S) /\ Len(q \o r) = Len(q) + Len(r)
           /\ \A i \in 1 .. Len(q) : (q \o r)[i] = q[i]
           /\ \A i \in Len(q) + 1 .. Len(q) + Len(r) : (q \o r)[i] = r[i - Len(q)]
  <1>1. Len(q) \in Nat /\ Len(r) \in Nat
    OBVIOUS
  <1>. QED  BY <1>1, ConcatProperties

LEMMA ChipProbe ==
    ASSUME NEW c \in Chips
    PROVE  LET q == chip_probe(c)  m == Len(Cells(c))
           IN  /\ q \in Seq(StepsFor(c)) /\ Len(q) = m + 4 /\ m \in Nat
               /\ q[1] = Own("drvdata", c)
               /\ \A i \in 2 .. m + 1 : \E n \in Names(c) : q[i] = <<"cell", c, n>>
               /\ q[m + 2] = Own("list", c) /\ q[m + 3] = Own("irqs", c) /\ q[m + 4] = Own("power", c)
  <1>. DEFINE m == Len(Cells(c))
              first == <<Own("drvdata", c)>>
              cells == [i \in DOMAIN Cells(c) |-> <<"cell", c, Cells(c)[i].name>>]
              last == <<Own("list", c), Own("irqs", c), Own("power", c)>>
  <1>1. DOMAIN Cells(c) = 1 .. m /\ m \in Nat
    BY CellsOf
  <1>2. \A i \in 1 .. m : Cells(c)[i].name \in Names(c)
    BY <1>1 DEF Names
  <1>3. \A kind \in {"drvdata", "list", "irqs", "power"} : Own(kind, c) \in StepsFor(c)
    BY DEF StepsFor
  <1>4. \A n \in Names(c) : <<"cell", c, n>> \in StepsFor(c)
    BY DEF StepsFor
  <1>5. first \in Seq(StepsFor(c)) /\ Len(first) = 1 /\ first[1] = Own("drvdata", c)
    BY <1>3
  <1>6. /\ last \in Seq(StepsFor(c)) /\ Len(last) = 3 /\ last[1] = Own("list", c)
        /\ last[2] = Own("irqs", c) /\ last[3] = Own("power", c)
    BY <1>3
  <1>7. cells \in Seq(StepsFor(c)) /\ Len(cells) = m
        /\ \A i \in 1 .. m : \E n \in Names(c) : cells[i] = <<"cell", c, n>>
    BY <1>1, <1>2, <1>4
  <1>. HIDE DEF first, cells, last, m
  <1>8. /\ first \o cells \in Seq(StepsFor(c)) /\ Len(first \o cells) = m + 1
        /\ (first \o cells)[1] = Own("drvdata", c)
        /\ \A i \in 2 .. m + 1 : (first \o cells)[i] = cells[i - 1]
    <2>1. /\ first \o cells \in Seq(StepsFor(c)) /\ Len(first \o cells) = 1 + m
          /\ \A i \in 1 .. 1 : (first \o cells)[i] = first[i]
          /\ \A i \in 1 + 1 .. 1 + m : (first \o cells)[i] = cells[i - 1]
      <3>1. /\ first \o cells \in Seq(StepsFor(c)) /\ Len(first \o cells) = Len(first) + Len(cells)
            /\ \A i \in 1 .. Len(first) : (first \o cells)[i] = first[i]
            /\ \A i \in Len(first) + 1 .. Len(first) + Len(cells) :
                 (first \o cells)[i] = cells[i - Len(first)]
        BY <1>5, <1>7, Joined, Zenon
      <3>. QED  BY <1>5, <1>7, <3>1, Zenon
    <2>. QED  BY <1>1, <1>5, <2>1
  <1>9. LET q == (first \o cells) \o last
        IN  /\ q \in Seq(StepsFor(c)) /\ Len(q) = m + 4
            /\ \A i \in 1 .. m + 1 : q[i] = (first \o cells)[i]
            /\ \A i \in m + 2 .. m + 4 : q[i] = last[i - (m + 1)]
    <2>. DEFINE fc == first \o cells
    <2>1. fc \in Seq(StepsFor(c)) /\ Len(fc) = m + 1
      BY <1>8
    <2>. HIDE DEF fc
    <2>2. /\ fc \o last \in Seq(StepsFor(c)) /\ Len(fc \o last) = (m + 1) + 3
          /\ \A i \in 1 .. m + 1 : (fc \o last)[i] = fc[i]
          /\ \A i \in (m + 1) + 1 .. (m + 1) + 3 : (fc \o last)[i] = last[i - (m + 1)]
      <3>1. /\ fc \o last \in Seq(StepsFor(c)) /\ Len(fc \o last) = Len(fc) + Len(last)
            /\ \A i \in 1 .. Len(fc) : (fc \o last)[i] = fc[i]
            /\ \A i \in Len(fc) + 1 .. Len(fc) + Len(last) : (fc \o last)[i] = last[i - Len(fc)]
        BY <1>6, <2>1, Joined, Zenon
      <3>. QED  BY <1>6, <2>1, <3>1, Zenon
    <2>3. (m + 1) + 3 = m + 4 /\ (m + 1) + 1 = m + 2
      BY <1>1
    <2>. QED  BY <2>2, <2>3 DEF fc
  <1>10. chip_probe(c) = (first \o cells) \o last
    BY <1>1 DEF chip_probe, first, cells, last, Own
  <1>11. \A i \in 2 .. m + 1 : \E n \in Names(c) : (first \o cells)[i] = <<"cell", c, n>>
    BY <1>1, <1>7, <1>8
  <1>12. m + 2 \in m + 2 .. m + 4 /\ m + 3 \in m + 2 .. m + 4 /\ m + 4 \in m + 2 .. m + 4 /\ 1 \in 1 .. m + 1
         /\ (m + 2) - (m + 1) = 1 /\ (m + 3) - (m + 1) = 2 /\ (m + 4) - (m + 1) = 3
         /\ 2 .. m + 1 \subseteq 1 .. m + 1
    BY <1>1
  <1>. QED  BY <1>1, <1>6, <1>8, <1>9, <1>10, <1>11, <1>12 DEF m

LEMMA FreshChip ==
    ASSUME NEW c \in Chips
    PROVE  Fresh(chip_probe(c), {c})
  <1>. DEFINE q == chip_probe(c)  m == Len(Cells(c))
  <1>1. /\ q \in Seq(StepsFor(c)) /\ Len(q) = m + 4 /\ m \in Nat
        /\ q[1] = Own("drvdata", c)
        /\ \A i \in 2 .. m + 1 : \E n \in Names(c) : q[i] = <<"cell", c, n>>
        /\ q[m + 2] = Own("list", c) /\ q[m + 3] = Own("irqs", c) /\ q[m + 4] = Own("power", c)
    BY ChipProbe
  <1>. HIDE DEF q, m
  <1>2. \A i \in 1 .. Len(q) : i = 1 \/ i \in 2 .. m + 1 \/ i = m + 2 \/ i = m + 3 \/ i = m + 4
    BY <1>1
  <1>3. ASSUME NEW i \in 1 .. Len(q), NEW d \in Chips
        PROVE  /\ q[i] = Own("list", d) => i = m + 2 /\ d = c
               /\ q[i] = Own("irqs", d) => i = m + 3 /\ d = c
               /\ \A n \in Cell : q[i] = <<"cell", d, n>> => i \in 2 .. m + 1 /\ d = c
               /\ \A n \in Cell : q[i] # <<"probe", d, n>>
    <2>1. CASE i = 1
      BY <1>1, <2>1 DEF Own
    <2>2. CASE i \in 2 .. m + 1
      <3>1. PICK n \in Names(c) : q[i] = <<"cell", c, n>>
        BY <1>1, <2>2
      <3>. QED  BY <2>2, <3>1 DEF Own
    <2>3. CASE i = m + 2
      BY <1>1, <2>3 DEF Own
    <2>4. CASE i = m + 3
      BY <1>1, <2>4 DEF Own
    <2>5. CASE i = m + 4
      BY <1>1, <2>5 DEF Own
    <2>. QED  BY <1>2, <2>1, <2>2, <2>3, <2>4, <2>5
  <1>4. InOrder(q)
    <2>. SUFFICES ASSUME NEW i \in 1 .. Len(q), NEW d \in Chips
                  PROVE  /\ q[i] = Own("list", d) =>
                              i < Len(q) /\ q[i + 1] = Own("irqs", d)
                                /\ \A j \in 1 .. Len(q) : q[j] = q[i] => j = i
                         /\ q[i] = Own("irqs", d) /\ i > 1 => q[i - 1] = Own("list", d)
      BY DEF InOrder
    <2>1. ASSUME q[i] = Own("list", d)
          PROVE  i < Len(q) /\ q[i + 1] = Own("irqs", d) /\ \A j \in 1 .. Len(q) : q[j] = q[i] => j = i
      <3>1. i = m + 2 /\ d = c
        BY <1>3, <2>1
      <3>2. \A j \in 1 .. Len(q) : q[j] = Own("list", d) => j = m + 2
        BY <1>3
      <3>. QED  BY <1>1, <2>1, <3>1, <3>2
    <2>2. ASSUME q[i] = Own("irqs", d) PROVE q[i - 1] = Own("list", d)
      <3>1. i = m + 3 /\ d = c
        BY <1>3, <2>2
      <3>. QED  BY <1>1, <3>1
    <2>. QED  BY <2>1, <2>2
  <1>5. UNION {StepsFor(d) : d \in {c}} = StepsFor(c)
    OBVIOUS
  <1>6. ASSUME NEW i \in 1 .. Len(q), NEW d \in Chips
        PROVE  /\ q[i] # Own("irqs", d) \/ i > 1
               /\ \A n \in Cell :
                    /\ q[i] = <<"cell", d, n>> => \E j \in 1 .. i - 1 : q[j] = Own("drvdata", d)
                    /\ q[i] # <<"probe", d, n>>
    <2>1. q[i] # Own("irqs", d) \/ i > 1
      BY <1>1, <1>3
    <2>2. ASSUME NEW n \in Cell, q[i] = <<"cell", d, n>> PROVE \E j \in 1 .. i - 1 : q[j] = Own("drvdata", d)
      <3>1. i \in 2 .. m + 1 /\ d = c
        BY <1>3, <2>2
      <3>2. 1 \in 1 .. i - 1
        BY <1>1, <3>1
      <3>. QED  BY <1>1, <3>1, <3>2
    <2>. QED  BY <1>3, <2>1, <2>2
  <1>7. /\ Has(q, Own("drvdata", c)) /\ Has(q, Own("list", c))
        /\ Has(q, Own("irqs", c)) /\ Has(q, Own("power", c))
    <2>1. {1, m + 2, m + 3, m + 4} \subseteq 1 .. Len(q)
      BY <1>1
    <2>. QED  BY <1>1, <2>1 DEF Has
  <1>8. Fresh(q, {c})
    BY <1>1, <1>4, <1>5, <1>6, <1>7 DEF Fresh
  <1>. QED  BY <1>8 DEF q

LEMMA FreshNothing == Fresh(<<>>, {})
  BY DEF Fresh, InOrder

LEMMA OwnOf ==
    ASSUME NEW C, NEW s \in UNION {StepsFor(c) : c \in C}, NEW kind, NEW d, s = Own(kind, d)
    PROVE  d \in C
  BY DEF StepsFor, Own

LEMMA FreshJoined ==
    ASSUME NEW C, NEW D, C \cap D = {}, NEW q, NEW r, Fresh(q, C), Fresh(r, D)
    PROVE  Fresh(q \o r, C \cup D)
  <1>. DEFINE p == q \o r  n == Len(q)
              S == UNION {StepsFor(c) : c \in C}  T == UNION {StepsFor(c) : c \in D}
              R == UNION {StepsFor(c) : c \in C \cup D}
  <1>1. q \in Seq(S) /\ r \in Seq(T) /\ S \subseteq R /\ T \subseteq R
    BY DEF Fresh
  <1>2. q \in Seq(R) /\ r \in Seq(R) /\ n \in Nat /\ Len(r) \in Nat
    BY <1>1
  <1>3. /\ p \in Seq(R) /\ Len(p) = n + Len(r)
        /\ \A i \in 1 .. n : p[i] = q[i]
        /\ \A i \in n + 1 .. n + Len(r) : p[i] = r[i - n]
    BY <1>2, Joined, Zenon
  <1>4. /\ \A i \in 1 .. n : q[i] \in S
        /\ \A i \in 1 .. Len(r) : r[i] \in T
    BY <1>1
  <1>. HIDE DEF p, n, S, T
  <1>5. ASSUME NEW i \in 1 .. Len(p)
        PROVE  \/ i \in 1 .. n /\ p[i] = q[i]
               \/ i - n \in 1 .. Len(r) /\ p[i] = r[i - n] /\ i > n
    <2>1. i \in 1 .. n \/ (i \in n + 1 .. n + Len(r) /\ i - n \in 1 .. Len(r) /\ i > n)
      BY <1>2, <1>3
    <2>. QED  BY <1>3, <2>1
  <1>6. \A i \in 1 .. n : \A kind, c : q[i] = Own(kind, c) => c \in C
    BY <1>4, OwnOf DEF S
  <1>7. \A i \in 1 .. Len(r) : \A kind, c : r[i] = Own(kind, c) => c \in D
    BY <1>4, OwnOf DEF T
  <1>8. InOrder(p)
    <2>. SUFFICES ASSUME NEW i \in 1 .. Len(p), NEW c \in Chips
                  PROVE  /\ p[i] = Own("list", c) =>
                              i < Len(p) /\ p[i + 1] = Own("irqs", c)
                                /\ \A j \in 1 .. Len(p) : p[j] = p[i] => j = i
                         /\ p[i] = Own("irqs", c) /\ i > 1 => p[i - 1] = Own("list", c)
      BY DEF InOrder
    <2>1. CASE i \in 1 .. n /\ p[i] = q[i]
      <3>1. /\ q[i] = Own("list", c) =>
                 i < n /\ q[i + 1] = Own("irqs", c) /\ \A j \in 1 .. n : q[j] = q[i] => j = i
            /\ q[i] = Own("irqs", c) /\ i > 1 => q[i - 1] = Own("list", c)
        BY <2>1 DEF Fresh, InOrder, n
      <3>2. ASSUME p[i] = Own("list", c), NEW j \in 1 .. Len(p), p[j] = p[i] PROVE j = i
        <4>1. c \in C /\ c \notin D
          BY <1>6, <2>1, <3>2
        <4>2. j \in 1 .. n /\ p[j] = q[j]
          BY <1>5, <1>7, <3>2, <4>1
        <4>. QED  BY <2>1, <3>1, <3>2, <4>2
      <3>3. i < n => p[i + 1] = q[i + 1]
        BY <1>2, <1>3, <2>1
      <3>4. i > 1 => p[i - 1] = q[i - 1]
        BY <1>2, <1>3, <2>1
      <3>. QED  BY <1>2, <1>3, <2>1, <3>1, <3>2, <3>3, <3>4
    <2>2. CASE i - n \in 1 .. Len(r) /\ p[i] = r[i - n] /\ i > n
      <3>. DEFINE k == i - n
      <3>1. /\ r[k] = Own("list", c) =>
                 k < Len(r) /\ r[k + 1] = Own("irqs", c) /\ \A j \in 1 .. Len(r) : r[j] = r[k] => j = k
            /\ r[k] = Own("irqs", c) /\ k > 1 => r[k - 1] = Own("list", c)
            /\ r[k] # Own("irqs", c) \/ k > 1
        BY <2>2 DEF Fresh, InOrder
      <3>2. ASSUME p[i] = Own("list", c), NEW j \in 1 .. Len(p), p[j] = p[i] PROVE j = i
        <4>1. c \in D /\ c \notin C
          BY <1>7, <2>2, <3>2
        <4>2. j - n \in 1 .. Len(r) /\ p[j] = r[j - n]
          BY <1>5, <1>6, <3>2, <4>1
        <4>3. j - n = k
          BY <2>2, <3>1, <3>2, <4>2
        <4>. QED  BY <1>2, <4>3
      <3>3. k < Len(r) => p[i + 1] = r[k + 1] /\ i < Len(p)
        <4>1. k < Len(r) => i + 1 \in n + 1 .. n + Len(r) /\ (i + 1) - n = k + 1
          BY <1>2, <2>2
        <4>. QED  BY <1>2, <1>3, <4>1
      <3>4. k > 1 => p[i - 1] = r[k - 1]
        <4>1. k > 1 => i - 1 \in n + 1 .. n + Len(r) /\ (i - 1) - n = k - 1
          BY <1>2, <2>2
        <4>. QED  BY <1>2, <1>3, <4>1
      <3>. QED  BY <2>2, <3>1, <3>2, <3>3, <3>4
    <2>. QED  BY <1>5, <2>1, <2>2
  <1>9. ASSUME NEW i \in 1 .. Len(p), NEW c \in Chips
        PROVE  /\ p[i] # Own("irqs", c) \/ i > 1
               /\ \A x \in Cell :
                    /\ p[i] = <<"cell", c, x>> => \E j \in 1 .. i - 1 : p[j] = Own("drvdata", c)
                    /\ p[i] # <<"probe", c, x>>
    <2>1. CASE i \in 1 .. n /\ p[i] = q[i]
      <3>1. \A j \in 1 .. i - 1 : p[j] = q[j]
        BY <1>2, <1>3, <2>1
      <3>. QED  BY <2>1, <3>1 DEF Fresh, n
    <2>2. CASE i - n \in 1 .. Len(r) /\ p[i] = r[i - n] /\ i > n
      <3>1. \A j \in 1 .. (i - n) - 1 : j + n \in 1 .. i - 1 /\ p[j + n] = r[j]
        <4>1. \A j \in 1 .. (i - n) - 1 :
                 j + n \in n + 1 .. n + Len(r) /\ (j + n) - n = j /\ j + n \in 1 .. i - 1
          BY <1>2, <2>2
        <4>. QED  BY <1>3, <4>1
      <3>2. /\ r[i - n] # Own("irqs", c) \/ i - n > 1
            /\ \A x \in Cell :
                 /\ r[i - n] = <<"cell", c, x>> => \E j \in 1 .. (i - n) - 1 : r[j] = Own("drvdata", c)
                 /\ r[i - n] # <<"probe", c, x>>
        BY <2>2 DEF Fresh
      <3>3. i - n > 1 => i > 1
        BY <1>2, <2>2
      <3>. QED  BY <2>2, <3>1, <3>2, <3>3
    <2>. QED  BY <1>5, <2>1, <2>2
  <1>10. ASSUME NEW s, Has(q, s) \/ Has(r, s) PROVE Has(p, s)
    <2>1. CASE Has(q, s)
      BY <1>2, <1>3, <2>1 DEF Has, n
    <2>2. CASE Has(r, s)
      <3>1. PICK j \in 1 .. Len(r) : r[j] = s
        BY <2>2 DEF Has
      <3>2. n + j \in n + 1 .. n + Len(r) /\ (n + j) - n = j /\ n + j \in 1 .. n + Len(r)
        BY <1>2
      <3>. QED  BY <1>3, <3>1, <3>2 DEF Has
    <2>. QED  BY <1>10, <2>1, <2>2
  <1>11. Fresh(p, C \cup D)
    <2>1. \A c \in C \cup D : /\ Has(p, Own("drvdata", c)) /\ Has(p, Own("list", c))
                              /\ Has(p, Own("irqs", c)) /\ Has(p, Own("power", c))
      BY <1>10 DEF Fresh
    <2>. QED  BY <1>3, <1>8, <1>9, <2>1 DEF Fresh
  <1>. QED  BY <1>11 DEF p
-----------------------------------------------------------------------------
(* The drivers of a board. *)
LEMMA OnBoard ==
    ASSUME BoardOK, NEW c \in Range(board)
    PROVE  /\ c \in Chips /\ c # "bus"
           /\ axp_get_pmu_num(c) \in 1 .. Len(board) /\ board[axp_get_pmu_num(c)] = c
  <1>1. DOMAIN board = 1 .. Len(board) /\ \A i \in 1 .. Len(board) : board[i] \in Chips
    BY DEF BoardOK
  <1>2. \E i \in DOMAIN board : board[i] = c
    BY DEF Range
  <1>. QED  BY <1>1, <1>2 DEF axp_get_pmu_num, Chips

LEMMA DriversOf ==
    ASSUME BoardOK
    PROVE  /\ Bus \in Drivers /\ LevelOf(Bus) = bus
           /\ \A c \in Range(board) :
                /\ Driver(c, "chip") \in Drivers /\ LevelOf(Driver(c, "chip")) = initcall_chip(c)
                /\ \A n \in Names(c) :
                     /\ n \in Cell /\ Driver(c, n) \in Drivers
                     /\ LevelOf(Driver(c, n)) = initcall_level(Driver(c, n))
           /\ \A d \in Drivers :
                /\ LevelOf(d) \in Levels
                /\ \/ d = Bus
                   \/ \E c \in Range(board) : d = Driver(c, "chip")
                   \/ \E c \in Range(board) : \E n \in Names(c) : d = Driver(c, n)
  <1>1. \A c \in Range(board) : \A x : Driver(c, x) # Bus
    BY OnBoard DEF Driver, Bus
  <1>2. \A c \in Range(board) : {n.name : n \in Range(Cells(c))} = Names(c)
    BY DEF Range, Names
  <1>3. \A d : d \in Drivers <=> \/ d = Bus
                                 \/ \E c \in Range(board) : d = Driver(c, "chip")
                                 \/ \E c \in Range(board) : \E n \in Names(c) : d = Driver(c, n)
    <2>1. \A c \in Range(board) :
            {Driver(c, x.name) : x \in Range(Cells(c))} = {Driver(c, n) : n \in Names(c)}
      BY <1>2
    <2>. QED  BY <2>1 DEF Drivers
  <1>4. \A c \in Range(board) : Names(c) \subseteq Cell
    BY OnBoard, CellsOf
  <1>5. LevelOf(Bus) = bus /\ bus \in Levels
    BY DEF LevelOf, BoardOK
  <1>6. ASSUME NEW c \in Range(board)
        PROVE  /\ LevelOf(Driver(c, "chip")) = initcall_chip(c) /\ initcall_chip(c) \in Levels
               /\ \A n \in Cell : /\ LevelOf(Driver(c, n)) = initcall_level(Driver(c, n))
                                  /\ LevelOf(Driver(c, n)) \in Levels
    BY <1>1, OnBoard, LevelsKnown DEF LevelOf
  <1>. QED  BY <1>3, <1>4, <1>5, <1>6

(* Before a cell that needs its PMIC, the PMIC and its bus.                    *)
LEMMA EarlyIsReady ==
    ASSUME BoardOK, Levelled, NEW c \in Range(board), NEW n \in Names(c), Needs(c, n),
           Driver(c, n) \in registered
    PROVE  Present(c)
  <1>1. c \in Chips
    BY OnBoard
  <1>2. /\ LatestBus[c] < initcall_level(Driver(c, n)) /\ initcall_chip(c) <= initcall_level(Driver(c, n))
        /\ LatestBus[c] \in Nat
    BY <1>1, LevelsSuffice, LevelsKnown
  <1>3. LevelOf(Driver(c, n)) = initcall_level(Driver(c, n)) /\ LevelOf(Driver(c, n)) \in Levels
        /\ LevelOf(Bus) = bus /\ Bus \in Drivers
    BY DriversOf
  <1>4. Driver(c, "chip") \in registered
    BY <1>2 DEF Levelled
  <1>5. bus <= LatestBus[c] /\ bus \in Nat
    BY DEF BoardOK, Levels
  <1>6. LevelOf(Driver(c, n)) <= level /\ level \in Nat
    BY DEF Levelled, Levels
  <1>7. LevelOf(Bus) < level
    BY <1>2, <1>3, <1>5, <1>6 DEF Levels
  <1>8. Bus \in registered
    BY <1>3, <1>7 DEF Levelled
  <1>. QED  BY <1>4, <1>8 DEF Present

LEMMA EmptySteps ==
    ASSUME NEW q, q = <<>>
    PROVE  Len(q) = 0 /\ \A s : ~Has(q, s)
  BY DEF Has

LEMMA InitInv == ASSUME Init PROVE Inv
  <1>1. BoardOK
    BY BootAssumption DEF Init, BoardOK
  <1>2. Levelled
    <2>1. \A d \in Drivers : LevelOf(d) \in Levels
      BY <1>1, DriversOf
    <2>. QED  BY <2>1 DEF Init, Levelled, Levels
  <1>3. InList = {}
    BY DEF Init, InList, Range
  <1>4. Sequenced
    BY EmptySteps DEF Init, Sequenced, InOrder
  <1>5. Probed
    BY <1>3 DEF Init, Probed, Present
  <1>6. Celled /\ Counted /\ CellsFindTheirChip
    BY <1>3 DEF Init, Celled, Settled, Counted, CellsFindTheirChip
  <1>7. Kinds
    <2>1. ap_ops \in [1 .. Len(board) -> Chips \cup {"none"}]
      BY DEF Init
    <2>. QED  BY <2>1 DEF Init, Kinds
  <1>. QED  BY <1>1, <1>2, <1>4, <1>5, <1>6, <1>7 DEF Inv
-----------------------------------------------------------------------------
(* The initcalls. *)
LEMMA NextLevelKeeps == ASSUME Inv, NextLevel PROVE Inv'
  <1>1. /\ UNCHANGED <<board, bus, slaves, registered, todo, devices, bound, asked, drvdata, irq_data,
                       axp_dev_list, axp_dev_register_count, lines, pm_power_off, ap_ops, faults>>
        /\ level' = level + 1 /\ level < 7 /\ Waiting = {}
    BY DEF NextLevel, fixed
  <1>2. BoardOK' /\ Drivers' = Drivers /\ \A d : LevelOf(d)' = LevelOf(d)
    BY <1>1 DEF Inv, BoardOK, Drivers, LevelOf
  <1>3. Levelled'
    <2>1. level \in 1 .. 7 /\ level' \in Levels
      BY <1>1 DEF Inv, Levelled, Levels
    <2>2. \A d \in Drivers : LevelOf(d) \in 1 .. 7
      BY DriversOf DEF Inv, Levels
    <2>3. \A d \in registered : LevelOf(d) <= level'
      BY <1>1, <2>1, <2>2 DEF Inv, Levelled
    <2>4. ASSUME NEW d \in Drivers, LevelOf(d) < level' PROVE d \in registered
      <3>1. LevelOf(d) < level \/ LevelOf(d) = level
        BY <1>1, <2>1, <2>2, <2>4
      <3>. QED  BY <1>1, <3>1 DEF Inv, Levelled, Waiting
    <2>. QED  BY <1>1, <1>2, <2>1, <2>3, <2>4 DEF Inv, Levelled
  <1>4. Sequenced' /\ Probed' /\ Celled'
    <2>1. Sequenced'
      BY <1>1 DEF Inv, Sequenced, Present, InList
    <2>2. Probed'
      BY <1>1 DEF Inv, Probed, Present, InList, Due, axp_get_pmu_num, PowersOff
    <2>3. Celled'
      <3>1. Celled
        BY DEF Inv
      <3>2. \A c, n : /\ Present(c)' <=> Present(c)
                      /\ Unnamed(c, n)' <=> Unnamed(c, n)
                      /\ Due(<<"probe", c, n>>)' <=> Due(<<"probe", c, n>>)
        BY <1>1 DEF Present, Due, Unnamed, Dual
      <3>. QED  BY <1>1, <3>1, <3>2, Zenon DEF Celled, Settled
    <2>. QED  BY <2>1, <2>2, <2>3
  <1>5. Counted' /\ Kinds' /\ CellsFindTheirChip'
    BY <1>1 DEF Inv, Counted, Kinds, CellsFindTheirChip, InList, PowersOff
  <1>. QED  BY <1>2, <1>3, <1>4, <1>5 DEF Inv

LEMMA RegisteredInOrder ==
    ASSUME Inv, NEW d \in Drivers, Initcall(d)
    PROVE  BoardOK' /\ Levelled'
  <1>1. /\ UNCHANGED <<board, bus, slaves, level>> /\ registered' = registered \cup {d}
        /\ d \in Waiting
        /\ d.name \notin {"chip", "bus"} => Driver(d.chip, "chip") \notin Waiting
    BY DEF Initcall, fixed
  <1>2. BoardOK' /\ Drivers' = Drivers /\ \A e : LevelOf(e)' = LevelOf(e)
    BY <1>1 DEF Inv, BoardOK, Drivers, LevelOf
  <1>3. /\ \A e \in registered' : LevelOf(e) <= level
        /\ \A e \in Drivers : LevelOf(e) < level => e \in registered'
        /\ registered' \subseteq Drivers /\ level \in Levels
    BY <1>1 DEF Inv, Levelled, Waiting, Levels
  <1>4. ASSUME NEW c \in Range(board), NEW n \in Names(c), Driver(c, n) \in registered',
               initcall_chip(c) <= initcall_level(Driver(c, n))
        PROVE  Driver(c, "chip") \in registered'
    <2>1. CASE Driver(c, n) \in registered
      BY <1>1, <1>4, <2>1 DEF Inv, Levelled
    <2>2. CASE Driver(c, n) = d
      <3>1. /\ n \in Cell /\ LevelOf(d) = initcall_level(d)
            /\ Driver(c, "chip") \in Drivers /\ LevelOf(Driver(c, "chip")) = initcall_chip(c)
            /\ initcall_chip(c) \in Levels /\ initcall_level(d) \in Levels
        BY <2>2, DriversOf DEF Inv
      <3>2. d.name = n /\ d.chip = c
        BY <2>2 DEF Driver
      <3>3. Driver(c, "chip") \notin Waiting /\ LevelOf(d) = level
        BY <1>1, <3>1, <3>2 DEF Cell, Waiting
      <3>4. LevelOf(Driver(c, "chip")) < level \/ LevelOf(Driver(c, "chip")) = level
        BY <1>4, <2>2, <3>1, <3>3 DEF Levels
      <3>5. Driver(c, "chip") \in registered
        BY <3>1, <3>3, <3>4 DEF Inv, Levelled, Waiting
      <3>. QED  BY <1>1, <3>5
    <2>. QED  BY <1>1, <1>4, <2>1, <2>2
  <1>. QED  BY <1>1, <1>2, <1>3, <1>4 DEF Levelled

(* The bus or the driver of a PMIC comes: probes begin, for the PMICs in C.    *)
LEMMA ProbesBegin ==
    ASSUME Inv, BoardOK', Levelled', todo = <<>>, NEW C \in SUBSET Range(board), Fresh(todo', C),
           \A c \in C : ~Present(c),
           \A c \in Range(board) : Present(c)' <=> Present(c) \/ c \in C,
           \A c \in Range(board) : \A n \in Names(c) :
              Driver(c, n) \in registered' <=> Driver(c, n) \in registered,
           UNCHANGED <<board, bus, slaves, devices, bound, asked, drvdata, irq_data, axp_dev_list,
                       axp_dev_register_count, lines, pm_power_off, ap_ops, faults>>
    PROVE  Inv'
  <1>1. C \subseteq Chips /\ \A c \in C : Names(c) \subseteq Cell
    BY OnBoard, CellsOf DEF Inv
  <1>2. InList' = InList
    BY DEF InList
  <1>3. Sequenced'
    <2>1. todo' \in Seq(UNION {StepsFor(c) : c \in C})
      BY DEF Fresh
    <2>2. todo' \in Seq(UNION {StepsFor(c) : c \in Range(board)}) /\ InOrder(todo')
      BY <2>1 DEF Fresh
    <2>3. ASSUME NEW i \in 1 .. Len(todo'), NEW c \in Range(board)
          PROVE  /\ \A n \in Names(c) :
                      /\ todo'[i] = <<"cell", c, n>> =>
                           /\ Present(c)'
                           /\ Needs(c, n) => Driver(c, n) \notin registered'
                           /\ \/ c = "axp202" \/ c \in drvdata'
                              \/ \E j \in 1 .. i - 1 : todo'[j] = Own("drvdata", c)
                      /\ todo'[i] = <<"probe", c, n>> => c \in drvdata' \cap irq_data'
                 /\ todo'[i] = Own("list", c) => Present(c)' /\ c \notin InList
                 /\ todo'[i] = Own("irqs", c) => i > 1 \/ c \in InList
      <3>1. todo'[i] \in UNION {StepsFor(e) : e \in C} /\ c \in Chips /\ Names(c) \subseteq Cell
        BY <2>1, OnBoard, CellsOf DEF Inv
      <3>2. ASSUME NEW n \in Names(c), todo'[i] = <<"cell", c, n>>
            PROVE  /\ Present(c)'
                   /\ Needs(c, n) => Driver(c, n) \notin registered'
                   /\ \E j \in 1 .. i - 1 : todo'[j] = Own("drvdata", c)
        <4>1. c \in C
          BY <3>1, <3>2 DEF StepsFor, Own
        <4>2. Needs(c, n) /\ Driver(c, n) \in registered => Present(c)
          BY EarlyIsReady DEF Inv
        <4>. QED  BY <3>1, <3>2, <4>1, <4>2 DEF Fresh
      <3>3. \A n \in Names(c) : todo'[i] # <<"probe", c, n>>
        BY <3>1 DEF Fresh
      <3>4. ASSUME todo'[i] = Own("list", c) PROVE Present(c)' /\ c \notin InList
        <4>1. c \in C
          BY <3>1, <3>4, OwnOf
        <4>. QED  BY <4>1 DEF Inv, Probed
      <3>5. todo'[i] = Own("irqs", c) => i > 1
        BY <3>1 DEF Fresh
      <3>. QED  BY <3>2, <3>3, <3>4, <3>5
    <2>. QED  BY <1>2, <2>2, <2>3 DEF Sequenced
  <1>4. Probed'
    <2>1. \A s : ~Due(s)
      BY EmptySteps DEF Due
    <2>2. \A c \in C : \A kind \in {"drvdata", "list", "irqs", "power"} : Due(Own(kind, c))'
      BY DEF Fresh, Due
    <2>3. ASSUME NEW c \in Range(board)
          PROVE  /\ Present(c)' =>
                     /\ c \in drvdata \/ Due(Own(IF c = "axp202" THEN "list" ELSE "drvdata", c))'
                     /\ c \in irq_data \/ Due(Own("irqs", c))'
                     /\ c \in InList \/ Due(Own("list", c))'
                     /\ \/ ap_ops[axp_get_pmu_num(c)] = c
                        \/ Due(Own(IF c \in {"axp22x", "axp803"} THEN "drvdata" ELSE "power", c))'
                     /\ PowersOff(c) => pm_power_off # "none" \/ Due(Own("power", c))'
                 /\ c \in InList => Present(c)'
      <3>1. CASE c \in C
        BY <2>2, <3>1 DEF Inv, Probed
      <3>2. CASE c \notin C
        BY <2>1, <3>2 DEF Inv, Probed
      <3>. QED  BY <3>1, <3>2
    <2>4. \A c : axp_get_pmu_num(c)' = axp_get_pmu_num(c) /\ PowersOff(c)' = PowersOff(c)
      BY DEF axp_get_pmu_num, PowersOff
    <2>. QED  BY <1>2, <2>3, <2>4 DEF Probed
  <1>5. Celled'
    <2>1. \A s : ~Due(s)
      BY EmptySteps DEF Due
    <2>2. \A c, n : Unnamed(c, n)' = Unnamed(c, n)
      BY DEF Unnamed, Dual
    <2>3. ASSUME NEW cell \in devices
          PROVE  \E c \in Range(board) : \E n \in Names(c) :
                    /\ cell = <<c, n>> /\ Present(c)'
                    /\ \/ Unnamed(c, n) \/ Driver(c, n) \notin registered'
                       \/ cell \in bound /\ \A i \in Irqs(c, n) : <<c, i>> \in asked
      BY <2>1 DEF Inv, Celled, Settled
    <2>. QED  BY <2>2, <2>3 DEF Celled, Settled
  <1>6. Counted'
    <2>1. \/ InList = {} /\ axp_dev_register_count = 0 /\ lines = {}
          \/ \E c \in Range(board) : InList = {c} /\ axp_dev_register_count = 1 /\ lines = {c}
          \/ \E c, d \in Range(board) :
               c # d /\ InList = {c, d} /\ axp_dev_register_count = 2 /\ lines \in {{c}, {d}}
      BY DEF Inv, Counted
    <2>. QED  BY <1>2, <2>1 DEF Counted
  <1>7. Kinds' /\ CellsFindTheirChip'
    BY DEF Inv, Kinds, CellsFindTheirChip, PowersOff
  <1>. QED  BY <1>3, <1>4, <1>5, <1>6, <1>7 DEF Inv

LEMMA BusComes == ASSUME Inv, Initcall(Bus) PROVE Inv'
  <1>. DEFINE C == {c \in Range(board) : Driver(c, "chip") \in registered}
  <1>1. /\ UNCHANGED <<board, bus, slaves, devices, bound, asked, drvdata, irq_data, axp_dev_list,
                       axp_dev_register_count, lines, pm_power_off, ap_ops, faults>>
        /\ registered' = registered \cup {Bus} /\ Bus \notin registered
        /\ todo = <<>> /\ todo' = Matched(Bus)
    BY DEF Initcall, fixed, Waiting
  <1>2. BoardOK' /\ Levelled'
    BY RegisteredInOrder, DriversOf DEF Inv
  <1>3. \A c \in Range(board) : \A n : Driver(c, n) # Bus
    BY OnBoard DEF Inv, Driver, Bus
  <1>4. Fresh(todo', C)
    <2>1. ASSUME NEW i \in 1 .. Len(board)
          PROVE  Fresh(OnBus(i), {c \in {board[i]} : Driver(c, "chip") \in registered})
      <3>1. board[i] \in Chips
        BY <2>1 DEF Inv, BoardOK
      <3>2. CASE Driver(board[i], "chip") \in registered
        <4>1. {c \in {board[i]} : Driver(c, "chip") \in registered} = {board[i]}
          BY <3>2
        <4>. QED  BY <3>1, <3>2, <4>1, FreshChip DEF OnBus
      <3>3. CASE Driver(board[i], "chip") \notin registered
        <4>1. {c \in {board[i]} : Driver(c, "chip") \in registered} = {}
          BY <3>3
        <4>. QED  BY <3>3, <4>1, FreshNothing DEF OnBus
      <3>. QED  BY <3>2, <3>3
    <2>2. CASE Dual
      <3>1. DOMAIN board = {1, 2} /\ board[1] # board[2]
        BY <2>2 DEF Dual, Inv, BoardOK, IsInjective
      <3>2. C = {c \in {board[1]} : Driver(c, "chip") \in registered}
                  \cup {c \in {board[2]} : Driver(c, "chip") \in registered}
        BY <3>1 DEF Range
      <3>3. 1 \in 1 .. Len(board) /\ 2 \in 1 .. Len(board)
        BY <2>2 DEF Dual
      <3>4. Fresh(OnBus(1) \o OnBus(2), {c \in {board[1]} : Driver(c, "chip") \in registered}
                                         \cup {c \in {board[2]} : Driver(c, "chip") \in registered})
        BY <2>1, <3>1, <3>3, FreshJoined
      <3>5. todo' = OnBus(1) \o OnBus(2)
        BY <1>1, <2>2 DEF Matched
      <3>. QED  BY <3>2, <3>4, <3>5
    <2>3. CASE ~Dual
      <3>1. DOMAIN board = {1} /\ 1 \in 1 .. Len(board)
        BY <2>3 DEF Dual, Inv, BoardOK
      <3>2. C = {c \in {board[1]} : Driver(c, "chip") \in registered}
        BY <3>1 DEF Range
      <3>. QED  BY <1>1, <2>1, <2>3, <3>1, <3>2 DEF Matched
    <2>. QED  BY <2>2, <2>3
  <1>. HIDE DEF C
  <1>5. /\ C \in SUBSET Range(board)
        /\ \A c \in C : ~Present(c)
        /\ \A c \in Range(board) : Present(c)' <=> Present(c) \/ c \in C
    BY <1>1, <1>3 DEF C, Present
  <1>6. \A c \in Range(board) : \A n \in Names(c) :
           Driver(c, n) \in registered' <=> Driver(c, n) \in registered
    BY <1>1, <1>3
  <1>. QED  BY <1>1, <1>2, <1>4, <1>5, <1>6, ProbesBegin

LEMMA ChipComes ==
    ASSUME Inv, NEW e \in Range(board), Initcall(Driver(e, "chip"))
    PROVE  Inv'
  <1>. DEFINE C == IF Bus \in registered THEN {e} ELSE {}
  <1>1. /\ UNCHANGED <<board, bus, slaves, devices, bound, asked, drvdata, irq_data, axp_dev_list,
                       axp_dev_register_count, lines, pm_power_off, ap_ops, faults>>
        /\ registered' = registered \cup {Driver(e, "chip")} /\ Driver(e, "chip") \notin registered
        /\ todo = <<>> /\ todo' = Matched(Driver(e, "chip"))
    BY DEF Initcall, fixed, Waiting
  <1>2. BoardOK' /\ Levelled'
    BY RegisteredInOrder, DriversOf DEF Inv
  <1>3. \A c \in Range(board) : \A n : Driver(c, n) # Bus
    BY OnBoard DEF Inv, Driver, Bus
  <1>4. Fresh(todo', C)
    <2>1. todo' = IF Bus \in registered THEN chip_probe(e) ELSE <<>>
      <3>1. Driver(e, "chip").name = "chip" /\ Driver(e, "chip").chip = e
        BY DEF Driver
      <3>. QED  BY <1>1, <1>3, <3>1 DEF Matched
    <2>. QED  BY <2>1, FreshChip, FreshNothing, OnBoard DEF Inv
  <1>. HIDE DEF C
  <1>5. /\ C \in SUBSET Range(board)
        /\ \A c \in C : ~Present(c)
        /\ \A c \in Range(board) : Present(c)' <=> Present(c) \/ c \in C
    BY <1>1, <1>3 DEF C, Present, Driver
  <1>6. \A c \in Range(board) : \A n \in Names(c) :
           Driver(c, n) \in registered' <=> Driver(c, n) \in registered
    <2>1. \A c \in Range(board) : \A n \in Names(c) : n # "chip"
      BY OnBoard, CellsOf DEF Inv, Cell
    <2>. QED  BY <1>1, <2>1 DEF Driver
  <1>. QED  BY <1>1, <1>2, <1>4, <1>5, <1>6, ProbesBegin

(* The driver of a cell comes: its device, if it is there, is probed.          *)
LEMMA CellComes ==
    ASSUME Inv, NEW e \in Range(board), NEW x \in Names(e), Initcall(Driver(e, x))
    PROVE  Inv'
  <1>1. /\ UNCHANGED <<board, bus, slaves, devices, bound, asked, drvdata, irq_data, axp_dev_list,
                       axp_dev_register_count, lines, pm_power_off, ap_ops, faults>>
        /\ registered' = registered \cup {Driver(e, x)}
        /\ todo = <<>> /\ todo' = Matched(Driver(e, x))
    BY DEF Initcall, fixed
  <1>2. BoardOK' /\ Levelled'
    BY RegisteredInOrder, DriversOf DEF Inv
  <1>3. \A c \in Range(board) : \A n : Driver(c, n) # Bus
    BY OnBoard DEF Inv, Driver, Bus
  <1>4. x \in Cell /\ x # "chip"
    BY OnBoard, CellsOf DEF Inv, Cell
  <1>5. \A c \in Range(board) : Present(c)' <=> Present(c)
    BY <1>1, <1>3, <1>4 DEF Present, Driver
  <1>6. todo' = IF <<e, x>> \in devices THEN <<<<"probe", e, x>>>> ELSE <<>>
    <2>1. Driver(e, x).name = x /\ Driver(e, x).chip = e
      BY DEF Driver
    <2>. QED  BY <1>1, <1>3, <1>4, <2>1 DEF Matched
  <1>7. \A s : ~Due(s)
    BY <1>1, EmptySteps DEF Due
  <1>8. InList' = InList
    BY <1>1 DEF InList
  <1>9. <<e, x>> \in devices => e \in drvdata \cap irq_data
    <2>1. ASSUME <<e, x>> \in devices PROVE Present(e)
      <3>1. PICK c \in Range(board) : \E n \in Names(c) : <<e, x>> = <<c, n>> /\ Present(c)
        BY <2>1 DEF Inv, Celled, Settled
      <3>. QED  BY <3>1
    <2>. QED  BY <1>7, <2>1 DEF Inv, Probed
  <1>10. Sequenced'
    <2>1. CASE <<e, x>> \in devices
      <3>1. todo' = <<<<"probe", e, x>>>> /\ <<"probe", e, x>> \in StepsFor(e)
        BY <1>6, <2>1 DEF StepsFor
      <3>2. Len(todo') = 1 /\ todo'[1] = <<"probe", e, x>> /\ \A i \in 1 .. Len(todo') : i = 1
        BY <3>1
      <3>3. todo' \in Seq(UNION {StepsFor(c) : c \in Range(board)})
        BY <3>1
      <3>. QED  BY <1>1, <1>9, <2>1, <3>2, <3>3 DEF Sequenced, InOrder, Own
    <2>2. CASE <<e, x>> \notin devices
      <3>1. todo' = <<>>
        BY <1>6, <2>2
      <3>. QED  BY <3>1, EmptySteps DEF Sequenced, InOrder
    <2>. QED  BY <2>1, <2>2
  <1>11. Probed'
    <2>1. \A c : axp_get_pmu_num(c)' = axp_get_pmu_num(c) /\ PowersOff(c)' = PowersOff(c)
      BY <1>1 DEF axp_get_pmu_num, PowersOff
    <2>. QED  BY <1>1, <1>5, <1>7, <1>8, <2>1 DEF Inv, Probed
  <1>12. Celled'
    <2>1. \A c, n : Unnamed(c, n)' = Unnamed(c, n)
      BY <1>1 DEF Unnamed, Dual
    <2>2. ASSUME NEW cell \in devices
          PROVE  \E c \in Range(board) : \E n \in Names(c) :
                    /\ cell = <<c, n>> /\ Present(c)'
                    /\ \/ Unnamed(c, n) \/ Driver(c, n) \notin registered' \/ Due(<<"probe", c, n>>)'
                       \/ cell \in bound /\ \A i \in Irqs(c, n) : <<c, i>> \in asked
      <3>1. PICK c \in Range(board) : \E n \in Names(c) :
               /\ cell = <<c, n>> /\ Present(c)
               /\ \/ Unnamed(c, n) \/ Driver(c, n) \notin registered
                  \/ cell \in bound /\ \A i \in Irqs(c, n) : <<c, i>> \in asked
        BY <1>7 DEF Inv, Celled, Settled
      <3>2. PICK n \in Names(c) :
               /\ cell = <<c, n>> /\ Present(c)
               /\ \/ Unnamed(c, n) \/ Driver(c, n) \notin registered
                  \/ cell \in bound /\ \A i \in Irqs(c, n) : <<c, i>> \in asked
        BY <3>1
      <3>3. CASE c = e /\ n = x
        <4>1. todo' = <<<<"probe", c, n>>>>
          BY <1>6, <2>2, <3>2, <3>3
        <4>2. Due(<<"probe", c, n>>)'
          BY <4>1 DEF Due, Has
        <4>. QED  BY <1>5, <3>2, <4>2
      <3>4. CASE ~(c = e /\ n = x)
        <4>1. Driver(c, n) \in registered' => Driver(c, n) \in registered
          BY <1>1, <3>4 DEF Driver
        <4>. QED  BY <1>5, <3>2, <4>1
      <3>. QED  BY <3>3, <3>4
    <2>. QED  BY <1>1, <2>1, <2>2 DEF Celled, Settled
  <1>13. Counted'
    <2>1. \/ InList = {} /\ axp_dev_register_count = 0 /\ lines = {}
          \/ \E c \in Range(board) : InList = {c} /\ axp_dev_register_count = 1 /\ lines = {c}
          \/ \E c, d \in Range(board) :
               c # d /\ InList = {c, d} /\ axp_dev_register_count = 2 /\ lines \in {{c}, {d}}
      BY <1>1 DEF Inv, Counted
    <2>. QED  BY <1>1, <1>8, <2>1 DEF Counted
  <1>14. Kinds' /\ CellsFindTheirChip'
    BY <1>1 DEF Inv, Kinds, CellsFindTheirChip, PowersOff
  <1>. QED  BY <1>2, <1>10, <1>11, <1>12, <1>13, <1>14 DEF Inv
-----------------------------------------------------------------------------
(* The steps of the probes. *)
LEMMA OneDone ==
    ASSUME NEW S, NEW q \in Seq(S), q # <<>>
    PROVE  /\ Tail(q) \in Seq(S) /\ Len(Tail(q)) = Len(q) - 1 /\ Len(q) \in Nat \ {0}
           /\ \A i \in 1 .. Len(q) - 1 : Tail(q)[i] = q[i + 1]
           /\ \A s : Has(q, s) => s = q[1] \/ Has(Tail(q), s)
  <1>1. /\ Tail(q) \in Seq(S) /\ Len(Tail(q)) = Len(q) - 1 /\ Len(q) \in Nat \ {0}
        /\ \A i \in 1 .. Len(q) - 1 : Tail(q)[i] = q[i + 1]
    BY HeadTailProperties, EmptySeq
  <1>2. ASSUME NEW s, NEW i \in 1 .. Len(q), q[i] = s, s # q[1] PROVE Has(Tail(q), s)
    <2>1. i - 1 \in 1 .. Len(q) - 1 /\ (i - 1) + 1 = i
      BY <1>1, <1>2
    <2>. QED  BY <1>1, <1>2, <2>1 DEF Has
  <1>. QED  BY <1>1, <1>2 DEF Has

LEMMA InOrderTail ==
    ASSUME NEW S, NEW q \in Seq(S), q # <<>>, InOrder(q)
    PROVE  InOrder(Tail(q))
  <1>1. /\ Len(Tail(q)) = Len(q) - 1 /\ Len(q) \in Nat \ {0}
        /\ \A i \in 1 .. Len(q) - 1 : Tail(q)[i] = q[i + 1]
    BY OneDone
  <1>. DEFINE r == Tail(q)
  <1>. HIDE DEF r
  <1>2. Len(r) = Len(q) - 1 /\ \A i \in 1 .. Len(r) : i + 1 \in 1 .. Len(q) /\ r[i] = q[i + 1]
    BY <1>1 DEF r
  <1>3. ASSUME NEW i \in 1 .. Len(r), NEW c \in Chips
        PROVE  /\ r[i] = Own("list", c) =>
                    i < Len(r) /\ r[i + 1] = Own("irqs", c) /\ \A j \in 1 .. Len(r) : r[j] = r[i] => j = i
               /\ r[i] = Own("irqs", c) /\ i > 1 => r[i - 1] = Own("list", c)
    <2>1. r[i] = q[i + 1] /\ i + 1 \in 1 .. Len(q)
      BY <1>2
    <2>2. /\ q[i + 1] = Own("list", c) =>
               i + 1 < Len(q) /\ q[(i + 1) + 1] = Own("irqs", c)
                 /\ \A j \in 1 .. Len(q) : q[j] = q[i + 1] => j = i + 1
          /\ q[i + 1] = Own("irqs", c) /\ i + 1 > 1 => q[(i + 1) - 1] = Own("list", c)
      BY <2>1 DEF InOrder
    <2>3. i + 1 < Len(q) => i < Len(r) /\ r[i + 1] = q[(i + 1) + 1]
      BY <1>1, <1>2
    <2>4. i > 1 => r[i - 1] = q[(i + 1) - 1] /\ i + 1 > 1
      <3>1. i > 1 => i - 1 \in 1 .. Len(r) /\ (i - 1) + 1 = (i + 1) - 1
        BY <1>1, <1>2
      <3>. QED  BY <1>2, <3>1
    <2>5. ASSUME r[i] = Own("list", c), NEW j \in 1 .. Len(r), r[j] = r[i] PROVE j = i
      <3>1. j + 1 \in 1 .. Len(q) /\ q[j + 1] = q[i + 1]
        BY <1>2, <2>1, <2>5
      <3>2. j + 1 = i + 1
        BY <2>1, <2>2, <2>5, <3>1
      <3>. QED  BY <3>2
    <2>. QED  BY <2>1, <2>2, <2>3, <2>4, <2>5
  <1>. QED  BY <1>3 DEF InOrder, r

(* What every step of a probe keeps. *)
StepDone ==
    /\ todo # <<>> /\ todo' = Tail(todo)
    /\ UNCHANGED <<board, bus, slaves, level, registered>>
    /\ drvdata \subseteq drvdata' /\ irq_data \subseteq irq_data'

LEMMA SequencedKept ==
    ASSUME Inv, StepDone,
           \A c \in Range(board) : todo[1] = Own("drvdata", c) /\ c # "axp202" => c \in drvdata',
           \A c \in Range(board) : c \in InList' <=> c \in InList \/ todo[1] = Own("list", c)
    PROVE  BoardOK' /\ Levelled' /\ Sequenced'
  <1>. DEFINE R == UNION {StepsFor(c) : c \in Range(board)}
  <1>1. BoardOK' /\ Levelled'
    <2>1. Drivers' = Drivers /\ \A d : LevelOf(d)' = LevelOf(d)
      BY DEF StepDone, Drivers, LevelOf
    <2>. QED  BY <2>1 DEF Inv, StepDone, BoardOK, Levelled
  <1>2. todo \in Seq(R) /\ todo # <<>> /\ todo' = Tail(todo)
    BY DEF Inv, Sequenced, StepDone
  <1>3. /\ todo' \in Seq(R) /\ Len(todo') = Len(todo) - 1 /\ Len(todo) \in Nat \ {0}
        /\ \A i \in 1 .. Len(todo) - 1 : todo'[i] = todo[i + 1]
    BY <1>2, OneDone, Zenon
  <1>4. InOrder(todo')
    BY <1>2, InOrderTail DEF Inv, Sequenced
  <1>5. ASSUME NEW i \in 1 .. Len(todo'), NEW c \in Range(board)
        PROVE  /\ \A n \in Names(c) :
                    /\ todo'[i] = <<"cell", c, n>> =>
                         /\ Present(c)'
                         /\ Needs(c, n) => Driver(c, n) \notin registered'
                         /\ \/ c = "axp202" \/ c \in drvdata'
                            \/ \E j \in 1 .. i - 1 : todo'[j] = Own("drvdata", c)
                    /\ todo'[i] = <<"probe", c, n>> => c \in drvdata' \cap irq_data'
               /\ todo'[i] = Own("list", c) => Present(c)' /\ c \notin InList'
               /\ todo'[i] = Own("irqs", c) => i > 1 \/ c \in InList'
    <2>1. i + 1 \in 1 .. Len(todo) /\ todo'[i] = todo[i + 1] /\ 1 \in 1 .. Len(todo) /\ i + 1 # 1
          /\ i \in Nat \ {0} /\ i + 1 > 1 /\ (i + 1) - 1 = i
      BY <1>3
    <2>2. Present(c)' <=> Present(c)
      BY DEF StepDone, Present
    <2>3. c \in Chips
      BY OnBoard DEF Inv
    <2>4. /\ \A n \in Names(c) :
               /\ todo[i + 1] = <<"cell", c, n>> =>
                    /\ Present(c)
                    /\ Needs(c, n) => Driver(c, n) \notin registered
                    /\ c = "axp202" \/ c \in drvdata \/ \E j \in 1 .. (i + 1) - 1 : todo[j] = Own("drvdata", c)
               /\ todo[i + 1] = <<"probe", c, n>> => c \in drvdata \cap irq_data
          /\ todo[i + 1] = Own("list", c) => Present(c) /\ c \notin InList
      BY <2>1 DEF Inv, Sequenced
    <2>5. ASSUME NEW j \in 1 .. (i + 1) - 1, todo[j] = Own("drvdata", c), c # "axp202"
          PROVE  c \in drvdata' \/ \E k \in 1 .. i - 1 : todo'[k] = Own("drvdata", c)
      <3>1. CASE j = 1
        BY <2>5, <3>1
      <3>2. CASE j # 1
        <4>1. j - 1 \in 1 .. i - 1 /\ j - 1 \in 1 .. Len(todo) - 1 /\ (j - 1) + 1 = j
          BY <1>3, <2>1, <3>2
        <4>. QED  BY <1>3, <2>5, <4>1
      <3>. QED  BY <3>1, <3>2
    <2>6. ASSUME todo'[i] = Own("list", c) PROVE todo[1] # Own("list", c)
      BY <2>1, <2>3, <2>6 DEF Inv, Sequenced, InOrder
    <2>7. ASSUME todo'[i] = Own("irqs", c), i = 1 PROVE todo[1] = Own("list", c)
      <3>1. i + 1 = 2
        BY <2>7
      <3>2. 2 \in 1 .. Len(todo) /\ todo[2] = Own("irqs", c)
        BY <2>1, <2>7, <3>1, Zenon
      <3>3. todo[2] = Own("irqs", c) /\ 2 > 1 => todo[2 - 1] = Own("list", c)
        BY <2>3, <3>2 DEF Inv, Sequenced, InOrder
      <3>. QED  BY <3>2, <3>3
    <2>8. ASSUME NEW n \in Names(c), todo'[i] = <<"cell", c, n>>
          PROVE  /\ Present(c)'
                 /\ Needs(c, n) => Driver(c, n) \notin registered'
                 /\ \/ c = "axp202" \/ c \in drvdata'
                    \/ \E j \in 1 .. i - 1 : todo'[j] = Own("drvdata", c)
      BY <2>1, <2>2, <2>4, <2>5, <2>8 DEF StepDone
    <2>9. \A n \in Names(c) : todo'[i] = <<"probe", c, n>> => c \in drvdata' \cap irq_data'
      BY <2>1, <2>4 DEF StepDone
    <2>10. todo'[i] = Own("list", c) => Present(c)' /\ c \notin InList'
      BY <2>1, <2>2, <2>4, <2>6
    <2>11. todo'[i] = Own("irqs", c) => i > 1 \/ c \in InList'
      BY <2>1, <2>7
    <2>. QED  BY <2>8, <2>9, <2>10, <2>11
  <1>6. Sequenced'
    <2>1. Range(board)' = Range(board)
      BY DEF StepDone
    <2>. QED  BY <1>3, <1>4, <1>5, <2>1 DEF Sequenced
  <1>. QED  BY <1>1, <1>6

LEMMA DueKept ==
    ASSUME Inv, StepDone
    PROVE  \A s : Due(s) => s = todo[1] \/ Due(s)'
  <1>1. todo \in Seq(UNION {StepsFor(c) : c \in Range(board)}) /\ todo # <<>> /\ todo' = Tail(todo)
    BY DEF Inv, Sequenced, StepDone
  <1>2. \A s : Has(todo, s) => s = todo[1] \/ Has(Tail(todo), s)
    BY <1>1, OneDone, Zenon
  <1>. QED  BY <1>1, <1>2 DEF Due

(* What becomes of the cells, but for one that the step adds. *)
LEMMA CelledKept ==
    ASSUME Inv, StepDone, \A cell \in devices' : cell \in devices \/ Settled(cell)', bound \subseteq bound', asked \subseteq asked',
           \A c \in Range(board) : \A n \in Names(c) : todo[1] = <<"probe", c, n>> =>
              Unnamed(c, n) \/ (<<c, n>> \in bound' /\ \A i \in Irqs(c, n) : <<c, i>> \in asked')
    PROVE  Celled'
  <1>1. ASSUME NEW cell \in devices
        PROVE  \E c \in Range(board) : \E n \in Names(c) :
                  /\ cell = <<c, n>> /\ Present(c)
                  /\ \/ Unnamed(c, n) \/ Driver(c, n) \notin registered \/ Due(<<"probe", c, n>>)'
                     \/ cell \in bound' /\ \A i \in Irqs(c, n) : <<c, i>> \in asked'
    <2>1. PICK c \in Range(board) : \E n \in Names(c) :
             /\ cell = <<c, n>> /\ Present(c)
             /\ \/ Unnamed(c, n) \/ Driver(c, n) \notin registered \/ Due(<<"probe", c, n>>)
                \/ cell \in bound /\ \A i \in Irqs(c, n) : <<c, i>> \in asked
      BY DEF Inv, Celled, Settled
    <2>2. PICK n \in Names(c) :
             /\ cell = <<c, n>> /\ Present(c)
             /\ \/ Unnamed(c, n) \/ Driver(c, n) \notin registered \/ Due(<<"probe", c, n>>)
                \/ cell \in bound /\ \A i \in Irqs(c, n) : <<c, i>> \in asked
      BY <2>1
    <2>3. Due(<<"probe", c, n>>) => <<"probe", c, n>> = todo[1] \/ Due(<<"probe", c, n>>)'
      BY DueKept
    <2>. QED  BY <2>2, <2>3
  <1>2. \A c, n : /\ Present(c)' <=> Present(c)
                  /\ Unnamed(c, n)' <=> Unnamed(c, n)
    BY DEF StepDone, Present, Unnamed, Dual
  <1>3. Range(board)' = Range(board) /\ registered' = registered
    BY DEF StepDone
  <1>4. \A cell \in devices : Settled(cell)'
    BY <1>1, <1>2, <1>3 DEF Settled
  <1>. QED  BY <1>4 DEF Celled

LEMMA CountedKept ==
    ASSUME Inv, StepDone, UNCHANGED <<axp_dev_list, axp_dev_register_count, lines>>,
           \A c : todo[1] # Own("irqs", c)
    PROVE  Counted' /\ InList' = InList
  <1>1. InList' = InList /\ Range(board)' = Range(board)
    BY DEF InList, StepDone
  <1>2. \/ InList = {} /\ axp_dev_register_count = 0 /\ lines = {}
        \/ \E c \in Range(board) : InList = {c} /\ axp_dev_register_count = 1 /\ lines = {c}
        \/ \E c, d \in Range(board) :
             c # d /\ InList = {c, d} /\ axp_dev_register_count = 2 /\ lines \in {{c}, {d}}
    BY DEF Inv, Counted
  <1>. QED  BY <1>1, <1>2 DEF Counted

(* What a step leaves behind of a PMIC, when it is a step of its probe. *)
Leaves(c) ==
    /\ ap_ops[axp_get_pmu_num(c)] = c => ap_ops'[axp_get_pmu_num(c)] = c
    /\ todo[1] = Own(IF c = "axp202" THEN "list" ELSE "drvdata", c) => c \in drvdata'
    /\ todo[1] = Own("irqs", c) => c \in irq_data'
    /\ todo[1] = Own("list", c) => c \in InList'
    /\ (todo[1] = Own(IF c \in {"axp22x", "axp803"} THEN "drvdata" ELSE "power", c))
         => ap_ops'[axp_get_pmu_num(c)] = c
    /\ todo[1] = Own("power", c) /\ PowersOff(c) => pm_power_off' # "none"
    /\ c \in InList' => c \in InList \/ Present(c)

LEMMA ProbedKept ==
    ASSUME Inv, StepDone, InList \subseteq InList',
           pm_power_off # "none" => pm_power_off' # "none",
           \A c \in Range(board) : Leaves(c)
    PROVE  Probed'
  <1>1. \A c : /\ Present(c)' <=> Present(c)
               /\ PowersOff(c)' <=> PowersOff(c)
               /\ axp_get_pmu_num(c)' = axp_get_pmu_num(c)
    BY DEF StepDone, Present, PowersOff, axp_get_pmu_num
  <1>2. ASSUME NEW c \in Range(board), Present(c)
        PROVE  /\ c \in drvdata' \/ Due(Own(IF c = "axp202" THEN "list" ELSE "drvdata", c))'
               /\ c \in irq_data' \/ Due(Own("irqs", c))'
               /\ c \in InList' \/ Due(Own("list", c))'
               /\ \/ ap_ops'[axp_get_pmu_num(c)] = c
                  \/ Due(Own(IF c \in {"axp22x", "axp803"} THEN "drvdata" ELSE "power", c))'
               /\ PowersOff(c) => pm_power_off' # "none" \/ Due(Own("power", c))'
    <2>0. Leaves(c)
      OBVIOUS
    <2>1. /\ c \in drvdata \/ Due(Own(IF c = "axp202" THEN "list" ELSE "drvdata", c))
          /\ c \in irq_data \/ Due(Own("irqs", c))
          /\ c \in InList \/ Due(Own("list", c))
          /\ \/ ap_ops[axp_get_pmu_num(c)] = c
             \/ Due(Own(IF c \in {"axp22x", "axp803"} THEN "drvdata" ELSE "power", c))
          /\ PowersOff(c) => pm_power_off # "none" \/ Due(Own("power", c))
      BY <1>2 DEF Inv, Probed
    <2>2. c \in drvdata' \/ Due(Own(IF c = "axp202" THEN "list" ELSE "drvdata", c))'
      BY <1>2, <2>0, <2>1, DueKept DEF Leaves, StepDone
    <2>3. c \in irq_data' \/ Due(Own("irqs", c))'
      BY <2>0, <2>1, DueKept DEF Leaves, StepDone
    <2>4. c \in InList' \/ Due(Own("list", c))'
      BY <2>0, <2>1, DueKept DEF Leaves
    <2>5. \/ ap_ops'[axp_get_pmu_num(c)] = c
          \/ Due(Own(IF c \in {"axp22x", "axp803"} THEN "drvdata" ELSE "power", c))'
      BY <2>0, <2>1, DueKept DEF Leaves
    <2>6. PowersOff(c) => pm_power_off' # "none" \/ Due(Own("power", c))'
      BY <2>0, <2>1, DueKept DEF Leaves
    <2>. QED  BY <2>2, <2>3, <2>4, <2>5, <2>6
  <1>3. \A c \in Range(board) : c \in InList' => Present(c)
    BY DEF Inv, Probed, Leaves
  <1>4. Range(board)' = Range(board)
    BY DEF StepDone
  <1>. QED  BY <1>1, <1>2, <1>3, <1>4 DEF Probed

LEMMA Installed ==
    ASSUME Inv, NEW c \in Range(board), ap_ops' = axp_platform_ops_set(c)
    PROVE  /\ ap_ops' \in [1 .. Len(board) -> Chips \cup {"none"}] /\ ap_ops'[axp_get_pmu_num(c)] = c
           /\ \A d \in Range(board) :
                ap_ops[axp_get_pmu_num(d)] = d => ap_ops'[axp_get_pmu_num(d)] = d
  <1>1. \A d \in Range(board) :
           axp_get_pmu_num(d) \in 1 .. Len(board) /\ board[axp_get_pmu_num(d)] = d
    BY OnBoard DEF Inv
  <1>2. ap_ops \in [1 .. Len(board) -> Chips \cup {"none"}] /\ c \in Chips
    BY OnBoard DEF Inv, Kinds
  <1>. QED  BY <1>1, <1>2 DEF axp_platform_ops_set
-----------------------------------------------------------------------------
LEMMA DrvdataKeeps ==
    ASSUME Inv, StepDone, NEW c \in Range(board), todo[1] = Own("drvdata", c), SetDrvdata(c)
    PROVE  Inv'
  <1>1. /\ UNCHANGED <<devices, bound, asked, irq_data, axp_dev_list, axp_dev_register_count, lines,
                       pm_power_off, faults>>
        /\ drvdata' = IF c = "axp202" THEN drvdata ELSE drvdata \cup {c}
        /\ ap_ops' = IF c \in {"axp22x", "axp803"} THEN axp_platform_ops_set(c) ELSE ap_ops
    BY DEF SetDrvdata
  <1>2. \A d : Own("drvdata", c) = Own("drvdata", d) => d = c
    BY DEF Own
  <1>3. \A d : Own("drvdata", c) # Own("list", d) /\ Own("drvdata", c) # Own("irqs", d)
                 /\ Own("drvdata", c) # Own("power", d)
    BY DEF Own
  <1>4. Counted' /\ InList' = InList
    BY <1>1, <1>3, CountedKept
  <1>5. BoardOK' /\ Levelled' /\ Sequenced'
    BY <1>1, <1>2, <1>3, <1>4, SequencedKept
  <1>6. Celled'
    BY <1>1, CelledKept DEF Own
  <1>7. /\ ap_ops' \in [1 .. Len(board) -> Chips \cup {"none"}]
        /\ \A d \in Range(board) : ap_ops[axp_get_pmu_num(d)] = d => ap_ops'[axp_get_pmu_num(d)] = d
        /\ c \in {"axp22x", "axp803"} => ap_ops'[axp_get_pmu_num(c)] = c
    BY <1>1, Installed DEF Inv, Kinds
  <1>8. Probed'
    <2>1. \A d \in Range(board) : Leaves(d)
      BY <1>1, <1>2, <1>3, <1>4, <1>7 DEF Leaves
    <2>. QED  BY <1>1, <1>4, <2>1, ProbedKept
  <1>9. Kinds' /\ CellsFindTheirChip'
    BY <1>1, <1>7 DEF Inv, Kinds, CellsFindTheirChip, StepDone, PowersOff
  <1>. QED  BY <1>4, <1>5, <1>6, <1>8, <1>9 DEF Inv

LEMMA PowerKeeps ==
    ASSUME Inv, StepDone, NEW c \in Range(board), todo[1] = Own("power", c), SetPowerOff(c)
    PROVE  Inv'
  <1>1. /\ UNCHANGED <<devices, bound, asked, drvdata, irq_data, axp_dev_list, axp_dev_register_count,
                       lines, faults>>
        /\ pm_power_off' = IF PowersOff(c) /\ pm_power_off = "none" THEN c ELSE pm_power_off
        /\ ap_ops' = IF c \in {"axp22x", "axp803"} THEN ap_ops ELSE axp_platform_ops_set(c)
    BY DEF SetPowerOff
  <1>2. \A d : Own("power", c) = Own("power", d) => d = c
    BY DEF Own
  <1>3. \A d : Own("power", c) # Own("list", d) /\ Own("power", c) # Own("irqs", d)
                 /\ Own("power", c) # Own("drvdata", d)
    BY DEF Own
  <1>4. Counted' /\ InList' = InList
    BY <1>1, <1>3, CountedKept
  <1>5. BoardOK' /\ Levelled' /\ Sequenced'
    BY <1>1, <1>3, <1>4, SequencedKept
  <1>6. Celled'
    BY <1>1, CelledKept DEF Own
  <1>7. /\ ap_ops' \in [1 .. Len(board) -> Chips \cup {"none"}]
        /\ \A d \in Range(board) : ap_ops[axp_get_pmu_num(d)] = d => ap_ops'[axp_get_pmu_num(d)] = d
        /\ c \notin {"axp22x", "axp803"} => ap_ops'[axp_get_pmu_num(c)] = c
    BY <1>1, Installed DEF Inv, Kinds
  <1>8. c \in Chips /\ c # "none"
    BY OnBoard DEF Inv, Chips
  <1>9. Probed'
    <2>1. \A d \in Range(board) : Leaves(d)
      BY <1>1, <1>2, <1>3, <1>4, <1>7, <1>8 DEF Leaves
    <2>. QED  BY <1>1, <1>4, <1>8, <2>1, ProbedKept
  <1>10. Kinds' /\ CellsFindTheirChip'
    BY <1>1, <1>7, <1>8 DEF Inv, Kinds, CellsFindTheirChip, StepDone, PowersOff
  <1>. QED  BY <1>4, <1>5, <1>6, <1>9, <1>10 DEF Inv
(* The PMIC heads the list. *)
LEMMA Headed ==
    ASSUME NEW S, NEW q \in Seq(S), NEW c \in S
    PROVE  <<c>> \o q \in Seq(S) /\ Range(<<c>> \o q) = Range(q) \cup {c}
  <1>. DEFINE first == <<c>>  p == first \o q
  <1>1. first \in Seq(S) /\ Len(first) = 1 /\ first[1] = c /\ Len(q) \in Nat
    OBVIOUS
  <1>. HIDE DEF first
  <1>2. /\ p \in Seq(S) /\ Len(p) = 1 + Len(q)
        /\ \A i \in 1 .. 1 : p[i] = first[i]
        /\ \A i \in 1 + 1 .. 1 + Len(q) : p[i] = q[i - 1]
    <2>1. /\ p \in Seq(S) /\ Len(p) = Len(first) + Len(q)
          /\ \A i \in 1 .. Len(first) : p[i] = first[i]
          /\ \A i \in Len(first) + 1 .. Len(first) + Len(q) : p[i] = q[i - Len(first)]
      BY <1>1, Joined, Zenon
    <2>. QED  BY <1>1, <2>1, Zenon
  <1>. HIDE DEF p
  <1>3. DOMAIN p = 1 .. 1 + Len(q) /\ DOMAIN q = 1 .. Len(q)
    BY <1>2
  <1>4. p[1] = c /\ 1 \in DOMAIN p
    BY <1>1, <1>2, <1>3
  <1>5. \A i \in DOMAIN p : i = 1 \/ (i - 1 \in DOMAIN q /\ p[i] = q[i - 1])
    BY <1>1, <1>2, <1>3
  <1>6. \A i \in DOMAIN q : i + 1 \in DOMAIN p /\ p[i + 1] = q[i]
    <2>1. \A i \in DOMAIN q : i + 1 \in 1 + 1 .. 1 + Len(q) /\ (i + 1) - 1 = i /\ i + 1 \in DOMAIN p
      BY <1>1, <1>3
    <2>. QED  BY <1>2, <2>1
  <1>7. Range(p) = Range(q) \cup {c}
    BY <1>4, <1>5, <1>6 DEF Range
  <1>. QED  BY <1>2, <1>7 DEF p, first

LEMMA TwoAtMost ==
    ASSUME BoardOK, NEW c \in Range(board), NEW d \in Range(board), c # d
    PROVE  Dual /\ \A e \in Range(board) : e \in {c, d}
  <1>1. DOMAIN board = 1 .. Len(board) /\ Len(board) \in {1, 2}
    BY DEF BoardOK
  <1>2. Len(board) = 2
    BY <1>1 DEF Range
  <1>3. Range(board) = {board[1], board[2]}
    BY <1>1, <1>2 DEF Range
  <1>. QED  BY <1>2, <1>3 DEF Dual

LEMMA ListKeeps ==
    ASSUME Inv, StepDone, NEW c \in Range(board), todo[1] = Own("list", c), axp_mfd_list(c)
    PROVE  Inv'
  <1>1. /\ UNCHANGED <<devices, bound, asked, irq_data, lines, pm_power_off, ap_ops, faults>>
        /\ drvdata' = drvdata \cup {c} /\ axp_dev_list' = <<c>> \o axp_dev_list
        /\ axp_dev_register_count' = axp_dev_register_count + 1
    BY DEF axp_mfd_list
  <1>2. \A d : /\ Own("list", c) = Own("list", d) => d = c
               /\ Own("list", c) # Own("drvdata", d)
               /\ Own("list", c) # Own("irqs", d)
               /\ Own("list", c) # Own("power", d)
    BY DEF Own
  <1>3. axp_dev_list' \in Seq(Range(board)) /\ InList' = InList \cup {c}
    BY <1>1, Headed DEF Inv, Kinds, InList
  <1>4. todo \in Seq(UNION {StepsFor(d) : d \in Range(board)}) /\ todo # <<>> /\ todo' = Tail(todo)
    BY DEF Inv, Sequenced, StepDone
  <1>5. /\ Len(todo') = Len(todo) - 1 /\ Len(todo) \in Nat \ {0}
        /\ \A i \in 1 .. Len(todo) - 1 : todo'[i] = todo[i + 1]
    BY <1>4, OneDone, Zenon
  <1>6. Present(c) /\ c \notin InList
    BY <1>5 DEF Inv, Sequenced
  <1>7. todo' # <<>> /\ todo'[1] = Own("irqs", c)
    <2>1. c \in Chips /\ 1 \in 1 .. Len(todo)
      BY <1>5, OnBoard DEF Inv
    <2>2. 1 < Len(todo) /\ todo[1 + 1] = Own("irqs", c)
      BY <2>1 DEF Inv, Sequenced, InOrder
    <2>3. 1 \in 1 .. Len(todo) - 1 /\ Len(todo') # 0
      BY <1>5, <2>2
    <2>. QED  BY <1>5, <2>2, <2>3
  <1>8. BoardOK' /\ Levelled' /\ Sequenced'
    BY <1>2, <1>3, SequencedKept
  <1>9. Probed'
    <2>1. \A d \in Range(board) : Leaves(d)
      BY <1>1, <1>2, <1>3, <1>6 DEF Leaves
    <2>. QED  BY <1>1, <1>3, <2>1, ProbedKept
  <1>10. Celled'
    BY <1>1, CelledKept DEF Own
  <1>11. Counted'
    <2>1. CASE InList = {} /\ axp_dev_register_count = 0 /\ lines = {}
      <3>1. InList' = {c} /\ axp_dev_register_count' = 1 /\ lines' = {}
        BY <1>1, <1>3, <2>1
      <3>. QED  BY <1>7, <3>1 DEF Counted, StepDone
    <2>2. ASSUME NEW d \in Range(board), InList = {d}, axp_dev_register_count = 1,
                 lines = {d} \/ (lines = {} /\ todo # <<>> /\ todo[1] = Own("irqs", d))
          PROVE  Counted'
      <3>1. d # c /\ InList' = {d, c} /\ axp_dev_register_count' = 2 /\ lines' = {d}
        BY <1>1, <1>2, <1>3, <1>6, <2>2
      <3>. QED  BY <3>1 DEF Counted, StepDone
    <2>3. ASSUME NEW d \in Range(board), NEW e \in Range(board), d # e, InList = {d, e}
          PROVE  FALSE
      BY <1>6, <2>3, TwoAtMost DEF Inv
    <2>. QED  BY <2>1, <2>2, <2>3 DEF Inv, Counted
  <1>12. Kinds' /\ CellsFindTheirChip'
    BY <1>1, <1>3 DEF Inv, Kinds, CellsFindTheirChip, StepDone, PowersOff
  <1>. QED  BY <1>8, <1>9, <1>10, <1>11, <1>12 DEF Inv

LEMMA IrqsKeeps ==
    ASSUME Inv, StepDone, NEW c \in Range(board), todo[1] = Own("irqs", c), axp_irq_chip_register(c)
    PROVE  Inv'
  <1>1. /\ UNCHANGED <<devices, bound, asked, drvdata, axp_dev_list, axp_dev_register_count,
                       pm_power_off, ap_ops, faults>>
        /\ irq_data' = irq_data \cup {c}
        /\ lines' = IF Dual /\ axp_dev_register_count # 1 THEN lines ELSE lines \cup {c}
    BY DEF axp_irq_chip_register
  <1>2. \A d : /\ Own("irqs", c) = Own("irqs", d) => d = c
               /\ Own("irqs", c) # Own("drvdata", d)
               /\ Own("irqs", c) # Own("list", d)
               /\ Own("irqs", c) # Own("power", d)
    BY DEF Own
  <1>3. InList' = InList
    BY <1>1 DEF InList
  <1>4. c \in InList
    <2>1. 1 \in 1 .. Len(todo)
      BY EmptySeq DEF Inv, Sequenced, StepDone
    <2>. QED  BY <2>1 DEF Inv, Sequenced
  <1>5. BoardOK' /\ Levelled' /\ Sequenced'
    BY <1>2, <1>3, SequencedKept
  <1>6. Probed'
    <2>1. \A d \in Range(board) : Leaves(d)
      BY <1>1, <1>2, <1>3 DEF Leaves
    <2>. QED  BY <1>1, <1>3, <2>1, ProbedKept
  <1>7. Celled'
    BY <1>1, CelledKept DEF Own
  <1>8. Counted'
    <2>1. ASSUME NEW d \in Range(board), InList = {d}, axp_dev_register_count = 1, lines \in {{}, {d}}
          PROVE  Counted'
      <3>1. d = c /\ lines' = {c}
        BY <1>1, <1>4, <2>1
      <3>. QED  BY <1>1, <1>3, <2>1, <3>1 DEF Counted, StepDone
    <2>2. ASSUME NEW d \in Range(board), NEW e \in Range(board), d # e, InList = {d, e},
                 axp_dev_register_count = 2, lines \in {{d}, {e}}
          PROVE  Counted'
      <3>1. lines' = lines
        BY <1>1, <2>2, TwoAtMost DEF Inv
      <3>. QED  BY <1>1, <1>3, <2>2, <3>1 DEF Counted, StepDone
    <2>. QED  BY <1>4, <2>1, <2>2 DEF Inv, Counted
  <1>9. Kinds' /\ CellsFindTheirChip'
    BY <1>1 DEF Inv, Kinds, CellsFindTheirChip, StepDone, PowersOff
  <1>. QED  BY <1>5, <1>6, <1>7, <1>8, <1>9 DEF Inv

LEMMA CellKeeps ==
    ASSUME Inv, StepDone, NEW c \in Range(board), NEW n \in Names(c),
           todo[1] = <<"cell", c, n>>, AddCell(c, n)
    PROVE  Inv'
  <1>1. /\ UNCHANGED <<drvdata, irq_data, axp_dev_list, axp_dev_register_count, lines,
                       pm_power_off, ap_ops>>
        /\ devices' = devices \cup {<<c, n>>}
    BY DEF AddCell
  <1>2. \A d, kind : Own(kind, d) # <<"cell", c, n>>
    <2>1. n # "chip"
      BY OnBoard, CellsOf DEF Inv, Cell
    <2>. QED  BY <2>1 DEF Own
  <1>3. 1 \in 1 .. Len(todo) /\ 1 .. 1 - 1 = {}
    BY EmptySeq DEF Inv, Sequenced, StepDone
  <1>4. /\ Present(c)
        /\ Needs(c, n) => Driver(c, n) \notin registered
        /\ c = "axp202" \/ c \in drvdata
    BY <1>3 DEF Inv, Sequenced
  <1>5. /\ UNCHANGED faults
        /\ bound \subseteq bound' /\ asked \subseteq asked'
        /\ \/ Driver(c, n) \notin registered \/ Unnamed(c, n)
           \/ <<c, n>> \in bound' /\ \A i \in Irqs(c, n) : <<c, i>> \in asked'
    <2>1. CASE Driver(c, n) \notin registered
      BY <2>1 DEF AddCell
    <2>2. CASE Driver(c, n) \in registered
      <3>1. c \in drvdata /\ Irqs(c, n) = {}
        BY <1>4, <2>2 DEF Needs
      <3>. QED  BY <2>2, <3>1 DEF AddCell, cell_probe
    <2>. QED  BY <2>1, <2>2
  <1>6. Counted' /\ InList' = InList
    BY <1>1, <1>2, CountedKept
  <1>7. BoardOK' /\ Levelled' /\ Sequenced'
    BY <1>2, <1>6, SequencedKept
  <1>8. Probed'
    <2>1. \A d \in Range(board) : Leaves(d)
      BY <1>1, <1>2, <1>6 DEF Leaves
    <2>. QED  BY <1>1, <1>6, <2>1, ProbedKept
  <1>9. Celled'
    <2>1. Settled(<<c, n>>)'
      <3>1. /\ Present(c)' <=> Present(c)
            /\ Unnamed(c, n)' <=> Unnamed(c, n)
            /\ registered' = registered /\ Range(board)' = Range(board)
        BY DEF StepDone, Present, Unnamed, Dual
      <3>. QED  BY <1>4, <1>5, <3>1 DEF Settled
    <2>2. \A e \in Range(board) : \A x \in Names(e) : todo[1] # <<"probe", e, x>>
      OBVIOUS
    <2>. QED  BY <1>1, <1>5, <2>1, <2>2, CelledKept
  <1>10. Kinds' /\ CellsFindTheirChip'
    BY <1>1, <1>5 DEF Inv, Kinds, CellsFindTheirChip, StepDone, PowersOff
  <1>. QED  BY <1>6, <1>7, <1>8, <1>9, <1>10 DEF Inv

LEMMA ProbeKeeps ==
    ASSUME Inv, StepDone, NEW c \in Range(board), NEW n \in Names(c),
           todo[1] = <<"probe", c, n>>, ProbeCell(c, n)
    PROVE  Inv'
  <1>1. UNCHANGED <<devices, drvdata, irq_data, axp_dev_list, axp_dev_register_count, lines,
                    pm_power_off, ap_ops>>
    BY DEF ProbeCell
  <1>2. \A d, kind : Own(kind, d) # <<"probe", c, n>>
    <2>1. n # "chip"
      BY OnBoard, CellsOf DEF Inv, Cell
    <2>. QED  BY <2>1 DEF Own
  <1>3. c \in drvdata \cap irq_data
    <2>1. 1 \in 1 .. Len(todo)
      BY EmptySeq DEF Inv, Sequenced, StepDone
    <2>. QED  BY <2>1 DEF Inv, Sequenced
  <1>4. /\ UNCHANGED faults
        /\ bound \subseteq bound' /\ asked \subseteq asked'
        /\ \/ Unnamed(c, n)
           \/ <<c, n>> \in bound' /\ \A i \in Irqs(c, n) : <<c, i>> \in asked'
    BY <1>3 DEF ProbeCell, cell_probe
  <1>5. Counted' /\ InList' = InList
    BY <1>1, <1>2, CountedKept
  <1>6. BoardOK' /\ Levelled' /\ Sequenced'
    BY <1>2, <1>5, SequencedKept
  <1>7. Probed'
    <2>1. \A d \in Range(board) : Leaves(d)
      BY <1>1, <1>2, <1>5 DEF Leaves
    <2>. QED  BY <1>1, <1>5, <2>1, ProbedKept
  <1>8. Celled'
    <2>1. \A e \in Range(board) : \A x \in Names(e) : todo[1] = <<"probe", e, x>> => e = c /\ x = n
      OBVIOUS
    <2>. QED  BY <1>1, <1>4, <2>1, CelledKept
  <1>9. Kinds' /\ CellsFindTheirChip'
    BY <1>1, <1>4 DEF Inv, Kinds, CellsFindTheirChip, StepDone, PowersOff
  <1>. QED  BY <1>5, <1>6, <1>7, <1>8, <1>9 DEF Inv

LEMMA StepKeeps == ASSUME Inv, ProbeStep PROVE Inv'
  <1>1. /\ todo # <<>> /\ todo' = Tail(todo)
        /\ UNCHANGED <<board, bus, slaves, level, registered>>
    BY DEF ProbeStep, fixed
  <1>2. PICK c \in Range(board) : todo[1] \in StepsFor(c)
    <2>1. todo \in Seq(UNION {StepsFor(d) : d \in Range(board)})
      BY DEF Inv, Sequenced
    <2>2. 1 \in 1 .. Len(todo)
      BY <1>1, <2>1, EmptySeq
    <2>3. todo[1] \in UNION {StepsFor(d) : d \in Range(board)}
      BY <2>1, <2>2
    <2>. QED  BY <2>3
  <1>3. \/ \E kind \in {"drvdata", "list", "irqs", "power"} : todo[1] = Own(kind, c)
        \/ \E n \in Names(c) : todo[1] = <<"cell", c, n>> \/ todo[1] = <<"probe", c, n>>
    BY <1>2 DEF StepsFor
  <1>4. CASE todo[1] = Own("drvdata", c)
    <2>1. SetDrvdata(c)
      BY <1>4 DEF ProbeStep, Own
    <2>. QED  BY <1>1, <1>4, <2>1, DrvdataKeeps DEF StepDone, SetDrvdata
  <1>5. CASE todo[1] = Own("list", c)
    <2>1. axp_mfd_list(c)
      BY <1>5 DEF ProbeStep, Own
    <2>. QED  BY <1>1, <1>5, <2>1, ListKeeps DEF StepDone, axp_mfd_list
  <1>6. CASE todo[1] = Own("irqs", c)
    <2>1. axp_irq_chip_register(c)
      BY <1>6 DEF ProbeStep, Own
    <2>. QED  BY <1>1, <1>6, <2>1, IrqsKeeps DEF StepDone, axp_irq_chip_register
  <1>7. CASE todo[1] = Own("power", c)
    <2>1. SetPowerOff(c)
      BY <1>7 DEF ProbeStep, Own
    <2>. QED  BY <1>1, <1>7, <2>1, PowerKeeps DEF StepDone, SetPowerOff
  <1>8. ASSUME NEW n \in Names(c), todo[1] = <<"cell", c, n>> PROVE Inv'
    <2>1. AddCell(c, n)
      BY <1>8 DEF ProbeStep
    <2>. QED  BY <1>1, <1>8, <2>1, CellKeeps DEF StepDone, AddCell
  <1>9. ASSUME NEW n \in Names(c), todo[1] = <<"probe", c, n>> PROVE Inv'
    <2>1. ProbeCell(c, n)
      BY <1>9 DEF ProbeStep
    <2>. QED  BY <1>1, <1>9, <2>1, ProbeKeeps DEF StepDone, ProbeCell
  <1>. QED  BY <1>3, <1>4, <1>5, <1>6, <1>7, <1>8, <1>9

LEMMA NextKeeps == ASSUME Inv, [Next]_vars PROVE Inv'
  <1>1. ASSUME NEW d \in Drivers, Initcall(d) PROVE Inv'
    <2>1. \/ d = Bus
          \/ \E c \in Range(board) : d = Driver(c, "chip")
          \/ \E c \in Range(board) : \E n \in Names(c) : d = Driver(c, n)
      BY DriversOf DEF Inv
    <2>. QED  BY <1>1, <2>1, BusComes, ChipComes, CellComes
  <1>2. ASSUME UNCHANGED vars PROVE Inv'
    <2>1. /\ UNCHANGED <<board, bus, slaves, level, registered, todo, devices, bound, asked>>
          /\ UNCHANGED <<drvdata, irq_data, axp_dev_list, axp_dev_register_count, lines, pm_power_off,
                         ap_ops, faults>>
      BY <1>2 DEF vars
    <2>2. BoardOK' /\ Levelled'
      <3>1. Drivers' = Drivers /\ \A d : LevelOf(d)' = LevelOf(d)
        BY <2>1 DEF Drivers, LevelOf
      <3>. QED  BY <2>1, <3>1 DEF Inv, BoardOK, Levelled
    <2>3. Sequenced'
      BY <2>1 DEF Inv, Sequenced, Present, InList
    <2>4. Probed'
      BY <2>1 DEF Inv, Probed, Present, InList, Due, axp_get_pmu_num, PowersOff
    <2>5. Celled'
      <3>1. Celled
        BY DEF Inv
      <3>2. \A c, n : /\ Present(c)' <=> Present(c)
                      /\ Unnamed(c, n)' <=> Unnamed(c, n)
                      /\ Due(<<"probe", c, n>>)' <=> Due(<<"probe", c, n>>)
        BY <2>1 DEF Present, Due, Unnamed, Dual
      <3>. QED  BY <2>1, <3>1, <3>2, Zenon DEF Celled, Settled
    <2>6. Counted' /\ Kinds' /\ CellsFindTheirChip'
      BY <2>1 DEF Inv, Counted, Kinds, CellsFindTheirChip, InList, PowersOff
    <2>. QED  BY <2>2, <2>3, <2>4, <2>5, <2>6 DEF Inv
  <1>. QED  BY <1>1, <1>2, NextLevelKeeps, StepKeeps DEF Next, Stopped

LEMMA Invariance == Spec => []Inv
  <1>. QED  BY InitInv, NextKeeps, PTL DEF Spec

(* When the boot is over, every driver is there and no probe is under way.     *)
LEMMA AllRegistered ==
    ASSUME Inv, Booted
    PROVE  /\ \A s : ~Due(s)
           /\ \A c \in Range(board) : Present(c) /\ \A n \in Names(c) : Driver(c, n) \in registered
  <1>1. level = 7 /\ Waiting = {} /\ todo = <<>>
    BY DEF Booted
  <1>2. \A d \in Drivers : d \in registered
    <2>1. \A d \in Drivers : LevelOf(d) < 7 \/ LevelOf(d) = 7
      BY DriversOf DEF Inv, Levels
    <2>. QED  BY <1>1, <2>1 DEF Inv, Levelled, Waiting
  <1>3. \A s : ~Due(s)
    BY <1>1, EmptySteps DEF Due
  <1>4. \A c \in Range(board) : Present(c) /\ \A n \in Names(c) : Driver(c, n) \in registered
    BY <1>2, DriversOf DEF Inv, Present
  <1>. QED  BY <1>3, <1>4

LEMMA BootServes == ASSUME Inv PROVE EachServed
  <1>. SUFFICES ASSUME Booted
                PROVE  /\ InList = Range(board) /\ irq_data = Range(board) /\ ap_ops = board
                       /\ \A cell \in devices :
                             \/ Unnamed(cell[1], cell[2])
                             \/ cell \in bound
                                /\ \A i \in Irqs(cell[1], cell[2]) : <<cell[1], i>> \in asked
                       /\ IF Dual THEN Cardinality(lines) = 1 ELSE lines = Range(board)
    BY DEF EachServed, InList
  <1>1. /\ \A s : ~Due(s)
        /\ \A c \in Range(board) : Present(c) /\ \A n \in Names(c) : Driver(c, n) \in registered
    BY AllRegistered
  <1>2. \A c \in Range(board) : c \in irq_data /\ c \in InList /\ ap_ops[axp_get_pmu_num(c)] = c
    BY <1>1 DEF Inv, Probed
  <1>3. InList = Range(board) /\ irq_data = Range(board)
    <2>1. InList \subseteq Range(board)
      BY DEF Inv, Counted
    <2>. QED  BY <1>2, <2>1 DEF Inv, Kinds
  <1>4. ap_ops = board
    <2>1. /\ DOMAIN board = 1 .. Len(board) /\ DOMAIN ap_ops = 1 .. Len(board)
          /\ board = [i \in DOMAIN board |-> board[i]]
      BY DEF Inv, Kinds, BoardOK
    <2>2. ap_ops = [i \in DOMAIN ap_ops |-> ap_ops[i]]
      BY DEF Inv, Kinds
    <2>3. ASSUME NEW i \in 1 .. Len(board) PROVE ap_ops[i] = board[i]
      <3>1. board[i] \in Range(board)
        BY <2>1 DEF Range
      <3>2. axp_get_pmu_num(board[i]) = i
        BY <2>1, <3>1, OnBoard DEF Inv, BoardOK, IsInjective
      <3>. QED  BY <1>2, <3>1, <3>2
    <2>. QED  BY <2>1, <2>2, <2>3
  <1>5. ASSUME NEW cell \in devices
        PROVE  \/ Unnamed(cell[1], cell[2])
               \/ cell \in bound /\ \A i \in Irqs(cell[1], cell[2]) : <<cell[1], i>> \in asked
    <2>1. PICK c \in Range(board), n \in Cell :
             /\ cell = <<c, n>>
             /\ Unnamed(c, n) \/ (cell \in bound /\ \A i \in Irqs(c, n) : <<c, i>> \in asked)
      BY <1>1, DriversOf DEF Inv, Celled, Settled
    <2>2. cell[1] = c /\ cell[2] = n
      BY <2>1
    <2>. QED  BY <2>1, <2>2
  <1>6. IF Dual THEN Cardinality(lines) = 1 ELSE lines = Range(board)
    <2>1. todo = <<>>
      BY DEF Booted
    <2>2. PICK c \in Range(board) : lines = {c} /\ (Range(board) = {c} \/ Dual)
      <3>1. Range(board) # {}
        BY DEF Inv, BoardOK, Range
      <3>. QED  BY <1>3, <2>1, <3>1, TwoAtMost DEF Inv, Counted
    <2>3. Cardinality({c}) = 1
      BY FS_Singleton
    <2>. QED  BY <2>2, <2>3
  <1>. QED  BY <1>3, <1>4, <1>5, <1>6
-----------------------------------------------------------------------------
(* Over every execution, on every board of one PMIC or of two: no probe of a  *)
(* cell goes through a pointer that its PMIC has not set (axp-core.c:753).     *)
THEOREM CellsInTime == Spec => []CellsFindTheirChip
  <1>1. Inv => CellsFindTheirChip
    BY DEF Inv
  <1>. QED  BY <1>1, Invariance, PTL

(* When the boot is over, every PMIC is in the list that the interrupt walks   *)
(* and has its operations under its own number, every cell has its driver and  *)
(* its interrupts, and the line has been requested (axp-core.c:691).           *)
THEOREM AllServed == Spec => []EachServed
  <1>. QED  BY BootServes, Invariance, PTL

(* No slave switches the board off, and one of the PMICs does whenever one of  *)
(* them can (axp15060.c:284, and the probes like it).                         *)
THEOREM MasterPowersOff == Spec => []PowerOffByMaster
  <1>1. ASSUME Inv PROVE PowerOffByMaster
    <2>. SUFFICES ASSUME Booted
                  PROVE  /\ pm_power_off # "none" => pm_power_off \notin slaves
                         /\ (\E c \in Range(board) : c \notin slaves \cup {"axp2585"})
                              => pm_power_off # "none"
      BY DEF PowerOffByMaster
    <2>1. pm_power_off # "none" => pm_power_off \notin slaves
      BY <1>1 DEF Inv, Kinds, PowersOff
    <2>2. ASSUME NEW c \in Range(board), c \notin slaves \cup {"axp2585"} PROVE pm_power_off # "none"
      <3>1. Present(c) /\ ~Due(Own("power", c))
        BY <1>1, AllRegistered
      <3>. QED  BY <1>1, <2>2, <3>1 DEF Inv, Probed, PowersOff
    <2>. QED  BY <2>1, <2>2
  <1>. QED  BY <1>1, Invariance, PTL
=============================================================================
