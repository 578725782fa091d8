------------------------------ MODULE MCDrivers -----------------------------
(* Two slots of two functions; one or two segments; a table of kernel       *)
(* symbols with gaps; modules that link, and that fail in every way.        *)
EXTENDS Drivers

Plain == [multi |-> FALSE, secondary |-> NONE, bars |-> <<>>]
Multi == [Plain EXCEPT !.multi = TRUE]
Bridge(bus) == [Plain EXCEPT !.secondary = bus]
WithBars(bars) == [Plain EXCEPT !.bars = bars]
Bar(kind, size, address) == [kind |-> kind, size |-> size, address |-> address]
Bars == << Bar(1, 8, 24), Bar(0, 32, 64), Bar(4, 64, 128), Bar(0, 1, 5), Bar(2, 32, 32), Bar(0, 256, 0) >>

F(b, s, f) == At(0, b, s, f)
Legacy(functions) == [pcie |-> FALSE, segments |-> <<[base |-> 0, start_bus |-> 0]>>, functions |-> functions]
Pcie(functions) ==
  [pcie |-> TRUE, segments |-> <<[base |-> 100, start_bus |-> 0], [base |-> 200, start_bus |-> 0]>>,
   functions |-> functions]

Pair == Legacy(F(0, 0, 0) :> Plain @@ F(0, 1, 0) :> Plain @@ F(0, 1, 1) :> Plain)
PciePair ==
  Pcie(F(0, 0, 0) :> Plain @@ F(0, 1, 0) :> Multi @@ F(0, 1, 1) :> Plain @@ At(1, 0, 0, 0) :> Plain)
MCMachine == { Pair, PciePair,
  Legacy(F(0, 0, 0) :> WithBars(Bars) @@ F(0, 1, 0) :> Multi @@ F(0, 1, 1) :> Plain),
  Legacy(F(0, 0, 0) :> Multi @@ F(0, 0, 1) :> Plain @@ F(1, 1, 0) :> Multi),
  Legacy(F(0, 0, 0) :> Multi @@ F(1, 0, 0) :> Plain),
  Legacy(F(0, 1, 0) :> Plain),
  Legacy(F(0, 0, 0) :> Plain @@ F(0, 1, 0) :> Bridge(1) @@ F(1, 0, 0) :> Plain),
  Pcie(F(0, 0, 0) :> Multi @@ F(0, 0, 1) :> Plain @@ F(1, 1, 0) :> Plain @@ At(1, 0, 0, 0) :> Plain) }

Line(gsi, polarity, trigger) == [gsi |-> gsi, polarity |-> polarity, trigger |-> trigger]
MCIrq == {0, 1, 2}
MCLegacy == {0, 1}
MCOverride == { <<>>, 0 :> Line(2, "conforms", "conforms") @@ 1 :> Line(1, "low", "level") }

Symbol(name, global, value, size) == [name |-> name, global |-> global, value |-> value, size |-> size]
MCKernelTable == { << Symbol("local", FALSE, 2, 2), Symbol("log", TRUE, 5, 0), Symbol("local", TRUE, 6, 1) >>,
                   << Symbol("log", TRUE, 3, 1) >> }

Null == [type |-> "null", size |-> 1, write |-> FALSE, exec |-> FALSE, alloc |-> FALSE, link |-> 0, info |-> 0,
         relas |-> <<>>, filled |-> {}]
Text == [Null EXCEPT !.type = "progbits", !.exec = TRUE, !.alloc = TRUE]
Data == [Null EXCEPT !.type = "progbits", !.write = TRUE, !.alloc = TRUE, !.filled = {1}]
Bss == [Null EXCEPT !.type = "nobits", !.write = TRUE, !.alloc = TRUE]
Symtab == [Null EXCEPT !.type = "symtab"]
Rela(info, link, relas) == [Null EXCEPT !.type = "rela", !.info = info, !.link = link, !.relas = relas]
R(symbol, offset, type, addend) == [symbol |-> symbol, offset |-> offset, type |-> type, addend |-> addend]
S(name, shndx, value) == [name |-> name, shndx |-> shndx, value |-> value]
Module(header, sections, symbols) ==
  [header |-> header, sections |-> sections, symbols |-> symbols, extent |-> 5]

Common == << S("log", 0, 0), S("data", 2, 1), S("__module_initialize", 1, 2), S("file", -1, 7) >>
Linked(relas) == Module("ok", << Text, Data, Symtab, Rela(1, 3, relas) >>, Common)
MCModuleFile == {
  Linked(<< R(1, 0, "pc32", -1), R(2, 1, "abs64", 0), R(4, 3, "abs32", 0), R(4, 4, "abs32s", 0), R(0, 3, "none", 0) >>),
  Linked(<< R(1, 0, "pc64", 0), R(0, 2, "abs32s", -1), R(3, 3, "pc32", 0) >>),
  Linked(<< R(2, 0, "abs32", 0) >>),
  Linked(<< R(2, 0, "abs32s", 0) >>),
  Linked(<< R(2, 0, "abs64", 0), R(1, 1, "pc32", 0) >>),
  Linked(<< R(2, 0, "got", 0) >>),
  Module("ok", << Data, Symtab, Rela(1, 2, << R(1, 1, "abs64", 0) >>) >>, << S("log", 0, 0) >>),
  Module("ok", << [Text EXCEPT !.size = 0], Symtab, Rela(1, 2, <<>>) >>, << S("local", 0, 0) >>),
  Module("ok", << Text, Bss, Symtab >>, << S("buffer", 2, 0) >>),
  Module("ok", << Text, Bss, Symtab, Rela(2, 3, << R(1, 0, "abs64", 0) >>) >>, << S("x", -2, 0) >>),
  Module("ok", << Text, Data, Symtab, Rela(4, 3, << R(1, 0, "got", 0) >>) >>, << S("x", 1, 0) >>),
  Module("ok", << Text, Data >>, <<>>),
  Module("ok", << Text, [Null EXCEPT !.type = "rel"] >>, <<>>),
  Module("INVALID_TYPE", <<>>, <<>>) }
MCBase == {10, 20, 30}

Exec(entry, valid, phdrs) == [entry |-> entry, valid |-> valid, phdrs |-> phdrs]
P(type, value) == [type |-> type, value |-> value]
MCExecutable == {
  [init |-> Exec(1, TRUE, << P("load", 0) >>)],
  [init |-> Exec(1, TRUE, << P("phdr", 9), P("interp", "ld"), P("load", 0), P("interp", "none") >>),
   ld |-> Exec(2, TRUE, << P("load", 0) >>)] }

(* One of the interrupt lines, the modules, the first program, the PCI      *)
(* handles of uACPI and the base addresses is looked at a time; the modules *)
(* and the program on the smallest machine.                                 *)
Busy == << ioredtbl # <<>>, g_kernel_symbols # NULL \/ result # NULL, program.pc # "read", opened # {},
           bar_read # NONE >>
OneConcern ==
  /\ Cardinality({i \in DOMAIN Busy : Busy[i]}) <= 1
  /\ Busy[1] \/ Busy[4] => machine \in {Pair, PciePair} /\ DOMAIN program.fs = {"init"}
  /\ Busy[2] \/ Busy[3] => machine = Pair /\ g_legacy_irq_map[0].gsi = 0
  /\ Busy[2] => DOMAIN program.fs = {"init"}
============================================================================
