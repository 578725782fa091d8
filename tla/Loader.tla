------------------------------- MODULE Loader -------------------------------
(* Linking a kernel module into the kernel (sys/module.c, kernel_symbol.c,  *)
(* arch/x86_64/abi/sysv/elf.c) and starting the first program               *)
(* (abi/sysv/elf.c, the target init_program of arch/x86_64/init.c).         *)
EXTENDS Integers, FiniteSets, SequencesExt

CONSTANTS
  ModuleFile,       \* files that module_load is given
  KernelTable,      \* symbol tables of the kernel, in the order of the addresses
  BASE,             \* addresses vm_map_anon has room at
  MAX32,            \* values of a word of 32 bits; addresses have two words
  LOADS,            \* modules that are loaded
  Executable,       \* file system: the executables by path
  NULL

ASSUME LoaderAssumption == BASE \subseteq Nat \ {0} /\ MAX32 \in Nat \ {0} /\ LOADS \in Nat

VARIABLES
  g_kernel_symbols, \* the loaded table, NULL before kernel_symbols_load
  load,             \* the call of module_load in progress, IDLE if there is none
  regions,          \* mapped regions of the global address space: rights by base
  memory,           \* words of 32 bits that relocations wrote, by address
  modules,          \* modules that are loaded
  result,           \* what module_load last returned
  program,          \* the progress of init_program
  panicked

loaderVars == <<g_kernel_symbols, load, regions, memory, modules, result, program, panicked>>
linkVars == <<load, regions, memory, modules, result>>

IDLE == [pc |-> "idle"]
RW == [write |-> TRUE, exec |-> FALSE]
UNDEF == 0
ABS == -1
COMMON == -2

----------------------------------------------------------------------------
(* Kernel symbols. *)
Prev(table, i) == IF i = 1 THEN NULL ELSE table[i - 1]

(* The scan stops at the first symbol that starts behind the address, with  *)
(* the symbol before it, or at the first that holds the address.            *)
kernel_symbol_lookup_by_address(table, address) ==
  LET stops == {i \in DOMAIN table : table[i].value > address \/ address < table[i].value + table[i].size}
      stop == CHOOSE i \in stops : \A j \in stops : i <= j
  IN IF stops = {} THEN NULL
     ELSE IF table[stop].value > address THEN Prev(table, stop) ELSE table[stop]

kernel_symbol_lookup_by_name(table, name) ==
  LET found == {i \in DOMAIN table : table[i].global /\ table[i].name = name}
  IN IF found = {} THEN NULL ELSE table[CHOOSE i \in found : \A j \in found : i <= j]

(* The wrong identifier or too new a revision stops the kernel. *)
kernel_symbols_load ==
  /\ ~panicked /\ load = IDLE
  /\ \/ panicked' = TRUE /\ UNCHANGED g_kernel_symbols
     \/ (\E table \in KernelTable : g_kernel_symbols' = table) /\ UNCHANGED panicked
  /\ UNCHANGED <<linkVars, program>>

----------------------------------------------------------------------------
(* module_load.  Every return passes auto_free_module, which unmaps the     *)
(* regions of a module that did not get through.                            *)

(* Mutant: the error path unmaps one region.                                *)
auto_free_module_once(mine) == IF mine = <<>> THEN {} ELSE {mine[1].base}

auto_free_module(mine) == {mine[i].base : i \in DOMAIN mine}

Gone(base, address) == \E s \in 0..(load.file.extent - 1) : address = base + s

Fail(r) ==
  /\ result' = r /\ load' = IDLE
  /\ LET freed == auto_free_module(load.regions)
     IN /\ regions' = [b \in DOMAIN regions \ freed |-> regions[b]]
        /\ memory' = [a \in {a \in DOMAIN memory : \A b \in freed : ~Gone(b, a)} |-> memory[a]]
  /\ UNCHANGED <<modules, panicked>>

AssertFails == panicked' = TRUE /\ UNCHANGED linkVars

Continue(l) == load' = l /\ UNCHANGED <<regions, memory, modules, result, panicked>>

Section == load.file.sections[load.i]
NextSection == [load EXCEPT !.i = @ + 1]

(* The header and the section headers are read and checked.                 *)
module_load(file) ==
  /\ load = IDLE /\ ~panicked /\ Cardinality(modules) < LOADS
  /\ \/ /\ g_kernel_symbols = NULL /\ result' = "NO_KERNEL_SYMBOLS" /\ load' = load
     \/ /\ g_kernel_symbols # NULL
        /\ \/ result' = "FS" /\ load' = load
           \/ file.header # "ok" /\ result' = file.header /\ load' = load
           \/ /\ file.header = "ok" /\ UNCHANGED result
              /\ load' = [pc |-> "sections", file |-> file, i |-> 1, regions |-> <<>>,
                          address |-> [s \in DOMAIN file.sections |-> 0], symtab |-> UNDEF, values |-> <<>>]
  /\ UNCHANGED <<regions, memory, modules, g_kernel_symbols, program, panicked>>

(* A section with contents gets a region of its own, writable until the     *)
(* module is linked, ...                                                    *)
map_section ==
  /\ load.pc = "sections" /\ load.i <= Len(load.file.sections) /\ Section.type = "progbits" /\ Section.size > 0
  /\ \/ BASE \subseteq DOMAIN regions /\ Fail("VM")
     \/ \E base \in BASE \ DOMAIN regions :
          /\ regions' = [b \in {base} \union DOMAIN regions |-> IF b = base THEN RW ELSE regions[b]]
          /\ load' = [load EXCEPT !.pc = "contents", !.regions = <<[base |-> base, section |-> load.i]>> \o @]
          /\ UNCHANGED <<memory, modules, result, panicked>>
  /\ UNCHANGED <<g_kernel_symbols, program>>

(* ... and its contents are read. *)
read_contents ==
  /\ load.pc = "contents"
  /\ Fail("FS") \/ Continue([NextSection EXCEPT !.pc = "sections", !.address[load.i] = load.regions[1].base])
  /\ UNCHANGED <<g_kernel_symbols, program>>

(* The other types of section. *)
note_section ==
  /\ load.pc = "sections" /\ load.i <= Len(load.file.sections)
  /\ \/ Section.type = "rel" /\ Fail("UNSUPPORTED")
     \/ Section.type = "symtab" /\ Continue([NextSection EXCEPT !.symtab = load.i])
     \/ /\ Section.type \notin {"rel", "symtab"} /\ (Section.type = "progbits" => Section.size = 0)
        /\ Continue(NextSection)
  /\ UNCHANGED <<g_kernel_symbols, program>>

(* read_section of the symbols and of their names. *)
read_symtab ==
  /\ load.pc = "sections" /\ load.i > Len(load.file.sections)
  /\ IF load.symtab = UNDEF THEN Fail("MISSING_SYMTAB")
     ELSE \/ Fail("FS")
          \/ Continue([load EXCEPT !.pc = "symbols", !.i = 1,
                                   !.values = [k \in DOMAIN load.file.symbols |-> load.file.symbols[k].value]])
  /\ UNCHANGED <<g_kernel_symbols, program>>

(* Mutant: the section's address is not added.                              *)
SymbolValue_unplaced(symbol) ==
  IF symbol.shndx = UNDEF THEN kernel_symbol_lookup_by_name(g_kernel_symbols, symbol.name).value ELSE symbol.value

SymbolValue(symbol) ==
  CASE symbol.shndx = UNDEF -> kernel_symbol_lookup_by_name(g_kernel_symbols, symbol.name).value
    [] symbol.shndx \in {ABS, COMMON} -> symbol.value
    [] OTHER -> symbol.value + load.address[symbol.shndx]

(* A symbol of a section without contents trips an assertion. *)
resolve_symbol ==
  LET symbol == load.file.symbols[load.i]
  IN /\ load.pc = "symbols" /\ load.i <= Len(load.file.symbols)
     /\ IF symbol.shndx = UNDEF /\ kernel_symbol_lookup_by_name(g_kernel_symbols, symbol.name) = NULL
        THEN Fail("UNRESOLVED_SYMBOL")
        ELSE IF symbol.shndx > 0 /\ load.address[symbol.shndx] = 0 THEN AssertFails
        ELSE Continue([NextSection EXCEPT !.values[load.i] = SymbolValue(symbol)])
     /\ UNCHANGED <<g_kernel_symbols, program>>

symbols_resolved ==
  /\ load.pc = "symbols" /\ load.i > Len(load.file.symbols)
  /\ Continue([load EXCEPT !.pc = "relocations", !.i = 1])
  /\ UNCHANGED <<g_kernel_symbols, program>>

MAX64 == MAX32 * MAX32

(* Symbol 0 is the null symbol. *)
ValueOf(rela) == ((IF rela.symbol = 0 THEN 0 ELSE load.values[rela.symbol]) + rela.addend) % MAX64

(* The 32 bits of a word as a signed number of 64 bits. *)
SignExtended(word) == IF 2 * word < MAX32 THEN word ELSE MAX64 - MAX32 + word

(* The words a relocation takes: pc32 stands for PC32 and PLT32. *)
WordsOf(type) == IF type \in {"abs64", "pc64"} THEN 0..1 ELSE {0}

(* arch_elf_do_relocation_addend: m is the memory, NULL once one failed.    *)
(* A value is stored in its low words; only the absolute ones are checked   *)
(* to fit, and a distance of 32 bits is cut off.  The words written must be *)
(* zero before.                                                             *)
arch_elf_do_relocation_addend(m, rela, base, filled) ==
  LET address == base + rela.offset
      value == IF rela.type \in {"pc32", "pc64"} THEN (ValueOf(rela) - address) % MAX64 ELSE ValueOf(rela)
      words == {address + w : w \in WordsOf(rela.type)}
      nonzero == \E a \in words : a - base \in filled \/ (a \in DOMAIN m /\ m[a] # 0)
  IN CASE m = NULL -> NULL
       [] rela.type = "none" -> m
       [] rela.type \notin {"none", "abs64", "abs32", "abs32s", "pc32", "pc64"} -> NULL
       [] rela.type = "abs32" /\ value # value % MAX32 -> NULL
       [] rela.type = "abs32s" /\ value # SignExtended(value % MAX32) -> NULL
       [] nonzero -> NULL
       [] OTHER -> [a \in words |-> IF a = address THEN value % MAX32 ELSE value \div MAX32] @@ m

(* Relocations count for sections that are allocated, with the symbols of   *)
(* the module's table.                                                      *)
Relocates(file, symtab, i) ==
  /\ file.sections[i].type = "rela" /\ file.sections[file.sections[i].info].alloc
  /\ file.sections[i].link = symtab

relocate_section ==
  /\ load.pc = "relocations" /\ load.i <= Len(load.file.sections)
  /\ IF ~Relocates(load.file, load.symtab, load.i) THEN Continue(NextSection)
     ELSE LET base == load.address[Section.info]
              filled == load.file.sections[Section.info].filled
              after == FoldLeft(LAMBDA m, r : arch_elf_do_relocation_addend(m, r, base, filled), memory, Section.relas)
          IN \/ Fail("FS")
             \/ base = 0 /\ Section.relas # <<>> /\ AssertFails
             \/ base # 0 /\ after = NULL /\ Fail("INVALID_RELOCATION")
             \/ /\ (base = 0 => Section.relas = <<>>) /\ after # NULL
                /\ memory' = after /\ load' = NextSection /\ UNCHANGED <<regions, modules, result, panicked>>
  /\ UNCHANGED <<g_kernel_symbols, program>>

ProtectionOf(section) == [write |-> section.write, exec |-> section.exec]

Entry(name) ==
  LET named == {k \in DOMAIN load.file.symbols : load.file.symbols[k].name = name}
  IN IF named = {} THEN NULL ELSE load.values[CHOOSE k \in named : \A j \in named : j <= k]

(* The regions get their rights and the module its entry points. *)
finish_module ==
  /\ load.pc = "relocations" /\ load.i > Len(load.file.sections)
  /\ regions' = [b \in DOMAIN regions |->
       IF \E r \in ToSet(load.regions) : r.base = b
       THEN ProtectionOf(load.file.sections[(CHOOSE r \in ToSet(load.regions) : r.base = b).section])
       ELSE regions[b]]
  /\ modules' = modules \union {[file |-> load.file, address |-> load.address, regions |-> ToSet(load.regions),
                                 symbols |-> g_kernel_symbols, symtab |-> load.symtab,
                                 initialize |-> Entry("__module_initialize"),
                                 uninitialize |-> Entry("__module_uninitialize")]}
  /\ result' = "OK" /\ load' = IDLE
  /\ UNCHANGED <<memory, panicked, g_kernel_symbols, program>>

ModuleStep == ~panicked /\
              (\/ map_section \/ read_contents \/ note_section \/ read_symtab \/ resolve_symbol
              \/ symbols_resolved \/ relocate_section \/ finish_module)

----------------------------------------------------------------------------
(* init_program: /usr/bin/init, its interpreter and its first thread.       *)
Steps(pc) == ~panicked /\ program.pc = pc
PanicAt == panicked' = TRUE /\ UNCHANGED program
First(exec, type) ==
  LET found == {i \in DOMAIN exec.phdrs : exec.phdrs[i].type = type}
  IN IF found = {} THEN NULL ELSE exec.phdrs[CHOOSE i \in found : \A j \in found : i <= j].value

(* vfs_lookup and elf_read: a file that is missing, cannot be read or is    *)
(* not an executable for this machine stops the kernel.                     *)
elf_read(path) ==
  \/ PanicAt
  \/ /\ path \in DOMAIN program.fs /\ program.fs[path].valid
     /\ program' = [program EXCEPT !.pc = IF @ = "read" THEN "load" ELSE "load_interpreter", !.live = @ \union {<<"file", path>>}]
     /\ UNCHANGED panicked

read_init == Steps("read") /\ elf_read("init") /\ UNCHANGED <<g_kernel_symbols, linkVars>>

load_init ==
  /\ Steps("load")
  /\ PanicAt \/ (program' = [program EXCEPT !.pc = "interpreter", !.loaded = <<"init">>] /\ UNCHANGED panicked)
  /\ UNCHANGED <<g_kernel_symbols, linkVars>>

(* The path of the interpreter is allocated here, and never freed. *)
elf_lookup_interpreter ==
  LET path == First(program.fs["init"], "interp")
  IN /\ Steps("interpreter")
     /\ \/ PanicAt
        \/ /\ program' = IF path = NULL THEN [program EXCEPT !.pc = "phdr", !.entry = program.fs["init"].entry]
                         ELSE [program EXCEPT !.pc = "read_interpreter", !.interpreter = path,
                                              !.live = @ \union {<<"path", path>>}]
           /\ UNCHANGED panicked
     /\ UNCHANGED <<g_kernel_symbols, linkVars>>

read_interpreter == Steps("read_interpreter") /\ elf_read(program.interpreter) /\ UNCHANGED <<g_kernel_symbols, linkVars>>

load_interpreter ==
  /\ Steps("load_interpreter")
  /\ \/ PanicAt
     \/ /\ program' = [program EXCEPT !.pc = "phdr", !.loaded = Append(@, program.interpreter),
                                      !.entry = program.fs[program.interpreter].entry, !.live = @ \ {<<"file", program.interpreter>>}]
        /\ UNCHANGED panicked
  /\ UNCHANGED <<g_kernel_symbols, linkVars>>

(* elf_lookup_phdr_address, whose failure is not an error, then the thread. *)
start_program ==
  /\ Steps("phdr")
  /\ \E found \in {NULL, First(program.fs["init"], "phdr")} :
       program' = [program EXCEPT !.pc = "started", !.live = @ \ {<<"file", "init">>},
                                  !.auxv = [entry |-> program.fs["init"].entry, phdr |-> found]]
  /\ UNCHANGED <<panicked, g_kernel_symbols, linkVars>>

ProgramStep == \/ read_init \/ load_init \/ elf_lookup_interpreter \/ read_interpreter \/ load_interpreter
               \/ start_program

LoaderInit ==
  /\ g_kernel_symbols = NULL /\ load = IDLE /\ regions = <<>> /\ memory = <<>> /\ modules = {} /\ result = NULL
  /\ \E fs \in Executable :
       program = [pc |-> "read", fs |-> fs, interpreter |-> NULL, entry |-> NULL, auxv |-> NULL,
                  live |-> {}, loaded |-> <<>>]
  /\ panicked = FALSE

LoaderNext == kernel_symbols_load \/ (\E file \in ModuleFile : module_load(file)) \/ ModuleStep \/ ProgramStep

----------------------------------------------------------------------------
(* The symbol an address is reported as starts at or before the address,    *)
(* with no other symbol between them, and is missing only in front of the   *)
(* first symbol and behind the last.                                        *)
SymbolsFound ==
  g_kernel_symbols # NULL =>
    LET table == g_kernel_symbols
        last == table[Len(table)]
    IN \A address \in 0..(last.value + last.size + 1) :
         LET symbol == kernel_symbol_lookup_by_address(table, address)
         IN IF symbol = NULL THEN address < table[1].value \/ address >= last.value + last.size
            ELSE symbol.value <= address /\ \A i \in DOMAIN table :
                   table[i].value \in symbol.value..address => table[i] = symbol

(* The module regions of the kernel's address space are exactly those of    *)
(* the modules that are loaded and of the one being loaded: whichever read, *)
(* mapping, symbol or relocation fails, what was mapped is given back.      *)
RegionsOwned ==
  ~panicked =>
    LET mine == IF load = IDLE THEN {} ELSE {r.base : r \in ToSet(load.regions)}
        theirs == UNION {{r.base : r \in m.regions} : m \in modules}
    IN DOMAIN regions = mine \union theirs /\ mine \intersect theirs = {}

(* The address a symbol of a loaded module stands for. *)
Placed(m, symbol) ==
  CASE symbol.shndx = UNDEF -> (CHOOSE k \in ToSet(m.symbols) : k.global /\ k.name = symbol.name).value
    [] symbol.shndx \in {ABS, COMMON} -> symbol.value
    [] OTHER -> symbol.value + m.address[symbol.shndx]

(* What the processor makes of a linked word, or two: a distance counts     *)
(* from its own address.                                                    *)
LinkTarget(type, address) ==
  LET low == memory[address]
  IN CASE type = "abs64" -> low + MAX32 * memory[address + 1]
       [] type = "abs32" -> low
       [] type = "abs32s" -> SignExtended(low)
       [] type = "pc64" -> (low + MAX32 * memory[address + 1] + address) % MAX64
       [] type = "pc32" -> (SignExtended(low) + address) % MAX64

(* The target is less than half the range of a word away. *)
Near(address, target) == 2 * (target - address) \in (-MAX32)..(MAX32 - 1)

(* No two relocations of a section write the same word; the code refuses    *)
(* the second only if the first left something else than zero there.        *)
Apart(relas) ==
  \A q, r \in {r \in ToSet(relas) : r.type # "none"} : q = r \/
    \A u \in WordsOf(q.type), w \in WordsOf(r.type) : q.offset + u # r.offset + w

(* In a loaded module, whatever is loaded or fails to load after it, every  *)
(* relocation of an allocated section leads to its symbol, but for a        *)
(* distance of 32 bits to a symbol that is too far: such a link, which      *)
(* arch_elf_do_relocation_addend does not refuse (elf.c:37-41), is the only *)
(* one that leads astray.  The entry points are those of the module.        *)
ModulesLinked ==
  \A m \in modules :
    /\ \A i \in DOMAIN m.file.sections : Relocates(m.file, m.symtab, i) /\ Apart(m.file.sections[i].relas) =>
         \A r \in ToSet(m.file.sections[i].relas) : r.type # "none" =>
           LET address == m.address[m.file.sections[i].info] + r.offset
               target == (IF r.symbol = 0 THEN 0 ELSE Placed(m, m.file.symbols[r.symbol])) + r.addend
           IN LinkTarget(r.type, address) = target % MAX64 <=> (r.type = "pc32" => Near(address, target))
    /\ m.initialize # NULL => \E s \in ToSet(m.file.symbols) :
                                s.name = "__module_initialize" /\ m.initialize = Placed(m, s)

(* The regions of a loaded module have the rights of their sections, and    *)
(* nothing is executable while it is still being linked.                    *)
RightsAsLinked ==
  /\ \A m \in modules : \A r \in m.regions :
       regions[r.base] = [write |-> m.file.sections[r.section].write, exec |-> m.file.sections[r.section].exec]
  /\ load # IDLE => \A r \in ToSet(load.regions) : regions[r.base] = RW

(* A loaded module is linked against the right symbols of the kernel and   *)
(* of its own sections, with the rights of those sections.                 *)
ModulesReady == SymbolsFound /\ ModulesLinked /\ RightsAsLinked
============================================================================
