---------------------------------- MODULE Elf -------------------------------
(***************************************************************************)
(* kylin_core_module_elf.c: how the symbols of a module's file are found,  *)
(* for files of 32 and 64 bits and of both byte orders. A file is a        *)
(* sequence of bytes. It is put together here by what a linker does, field *)
(* by field in the order of the ELF structures, while the walk reads it as *)
(* the code does, by the offsets of the fields. A number that is read from *)
(* a file is the sequence of its bytes, the lowest first.                  *)
(***************************************************************************)
EXTENDS Integers, Sequences, SequencesExt, FiniteSetsExt

CONSTANTS
    ElfNames,    \* names of symbols, as the bytes they stand for; 0 is the empty name
    ElfValues,   \* values of symbols
    MaxSymbols   \* bound on the symbols of a file

VARIABLES image  \* the file that was linked: class, byte order, tables of symbols

elf_vars == <<image>>

Padded(v, w) == [i \in 1..w |-> IF i <= Len(v) THEN v[i] ELSE 0]
ToNat(v) == v[1] + 256 * v[2]
IsZero(v) == \A i \in DOMAIN v : v[i] = 0

-----------------------------------------------------------------------------
(* The linker. A structure is a sequence of fields, each a width and a value.*)
Field(w, v) == [w |-> w, v |-> v]
Num(w, n) == Field(w, <<n % 256, n \div 256>>)
Skip(w) == Field(w, <<>>)
Encoded(data, fields) == FlattenSeq([i \in DOMAIN fields |->
    LET bytes == Padded(fields[i].v, fields[i].w) IN IF data = "MSB" THEN Reverse(bytes) ELSE bytes])

Wide(im) == IF im.class = 64 THEN 8 ELSE 4

EhdrFields(im, shoff, shentsize, shnum, shstrndx) ==
    <<Skip(16), Num(2, 3), Num(2, 62), Num(4, 1), Num(Wide(im), 0), Num(Wide(im), 64), Num(Wide(im), shoff),
      Num(4, 0), Num(2, 64), Num(2, 56), Num(2, 1), Num(2, shentsize), Num(2, shnum), Num(2, shstrndx)>>

ShdrFields(im, name, type, offset, size, entsize) ==
    <<Num(4, name), Num(4, type), Num(Wide(im), 7), Num(Wide(im), 9), Num(Wide(im), offset),
      Num(Wide(im), size), Num(4, 1), Num(4, 1), Num(Wide(im), 8), Num(Wide(im), entsize)>>

SymFields(im, s, k) ==
    IF im.class = 64
    THEN <<Num(4, k), Num(1, s.info), Num(1, 0), Num(2, 258), Field(8, s.value), Num(8, 11)>>
    ELSE <<Num(4, k), Field(4, s.value), Num(4, 11), Num(1, s.info), Num(1, 0), Num(2, 258)>>

\* Names of sections by their byte: 1 is ".strtab", 2 is the name of any other
shstrtab_bytes == <<0, 1, 0, 2, 0>>

\* The names of a file's symbols: the name of the k-th symbol is at 2 * k
strtab_bytes(im) == <<0, 0>> \o FlattenSeq([k \in DOMAIN im.syms |-> <<im.syms[k].name, 0>>])

SHT_SYMTAB == 2

\* The sections: a table of symbols for those before im.cut and one for the others, the
\* names, and the names of sections. The headers of the sections are the last.
LinkedFile(im) ==
    LET table(a, b) == FlattenSeq([i \in 1..b - a + 1 |->
                          Encoded(im.data, SymFields(im, im.syms[a + i - 1], 2 * (a + i - 1)))])
        entsize == IF im.class = 64 THEN 24 ELSE 16
        bodies == <<table(1, im.cut), strtab_bytes(im), table(im.cut + 1, Len(im.syms)), shstrtab_bytes>>
        ehsize == IF im.class = 64 THEN 64 ELSE 52
        offset[i \in 1..5] == IF i = 1 THEN ehsize ELSE offset[i - 1] + Len(bodies[i - 1])
        header(i) == Encoded(im.data, ShdrFields(im, IF i = 2 THEN 1 ELSE 3, IF i \in {1, 3} THEN SHT_SYMTAB ELSE 3,
                                                 offset[i], Len(bodies[i]), IF i \in {1, 3} THEN entsize ELSE 0))
    IN  Encoded(im.data, EhdrFields(im, offset[5], IF im.class = 64 THEN 64 ELSE 40, 4, 3))
          \o FlattenSeq(bodies) \o FlattenSeq([i \in 1..4 |-> header(i)])

-----------------------------------------------------------------------------
(* The walk. ed is the class and the byte order, which are bytes of e_ident, and the *)
(* bytes of the file; base is an offset in it.                                       *)

\* (mutant of elf32_offsets: st_other is taken for st_info)
elf32_offsets_other ==
    [E_SHOFF |-> 32, E_SHENTSIZE |-> 46, E_SHNUM |-> 48, E_SHSTRNDX |-> 50,
     SH_NAME |-> 0, SH_TYPE |-> 4, SH_OFFSET |-> 16, SH_SIZE |-> 20, SH_ENTSIZE |-> 36,
     ST_NAME |-> 0, ST_VALUE |-> 4, ST_SIZE |-> 8, ST_INFO |-> 13, ST_SHNDX |-> 14]

elf32_offsets ==
    [E_SHOFF |-> 32, E_SHENTSIZE |-> 46, E_SHNUM |-> 48, E_SHSTRNDX |-> 50,
     SH_NAME |-> 0, SH_TYPE |-> 4, SH_OFFSET |-> 16, SH_SIZE |-> 20, SH_ENTSIZE |-> 36,
     ST_NAME |-> 0, ST_VALUE |-> 4, ST_SIZE |-> 8, ST_INFO |-> 12, ST_SHNDX |-> 14]

elf64_offsets ==
    [E_SHOFF |-> 40, E_SHENTSIZE |-> 58, E_SHNUM |-> 60, E_SHSTRNDX |-> 62,
     SH_NAME |-> 0, SH_TYPE |-> 4, SH_OFFSET |-> 24, SH_SIZE |-> 32, SH_ENTSIZE |-> 56,
     ST_NAME |-> 0, ST_VALUE |-> 8, ST_SIZE |-> 16, ST_INFO |-> 4, ST_SHNDX |-> 6]

Place(ed, base, member) == base + (IF ed.class = 64 THEN elf64_offsets ELSE elf32_offsets)[member]

\* le16dec, be32dec and so on: the bytes from offset p, in a file of no byte order 0
Decoded(ed, p, w) ==
    LET bytes == SubSeq(ed.file, p + 1, p + w)
    IN  CASE ed.data = "MSB" -> Reverse(bytes) [] ed.data = "LSB" -> bytes [] OTHER -> Padded(<<>>, w)

__elf_get_byte(ed, base, member) == ed.file[Place(ed, base, member) + 1]
__elf_get_quarter(ed, base, member) == Decoded(ed, Place(ed, base, member), 2)
__elf_get_word(ed, base, member) == Decoded(ed, Place(ed, base, member), 4)
__elf_get_quad(ed, base, member) == Decoded(ed, Place(ed, base, member), IF ed.class = 64 THEN 8 ELSE 4)

Off(ed, base, member) == ToNat(__elf_get_quad(ed, base, member))
StringAt(ed, p) == ed.file[p + 1]

\* The offsets of the symbols in the table that the section header at sh describes
Symbols(ed, sh) ==
    [i \in 1..Off(ed, sh, "SH_SIZE") \div Off(ed, sh, "SH_ENTSIZE") |->
        Off(ed, sh, "SH_OFFSET") + (i - 1) * Off(ed, sh, "SH_ENTSIZE")]

NameOf(ed, st, str) == StringAt(ed, str + ToNat(__elf_get_word(ed, st, "ST_NAME")))

\* (mutant of __elf_symtab_get: a value is taken to have 32 bits)
__elf_symtab_get_word(ed, sh, str) ==
    LET call(st) == [name |-> NameOf(ed, st, str), value |-> Padded(__elf_get_word(ed, st, "ST_VALUE"), Wide(ed))]
    IN  SelectSeq([i \in DOMAIN Symbols(ed, sh) |-> call(Symbols(ed, sh)[i])],
                  LAMBDA c : c.name # 0 /\ ~IsZero(c.value))

\* What is called back for one table: the symbols with a name and a value
__elf_symtab_get(ed, sh, str) ==
    LET call(st) == [name |-> NameOf(ed, st, str), value |-> __elf_get_quad(ed, st, "ST_VALUE")]
    IN  SelectSeq([i \in DOMAIN Symbols(ed, sh) |-> call(Symbols(ed, sh)[i])],
                  LAMBDA c : c.name # 0 /\ ~IsZero(c.value))

\* What is written for one table
__elf_symtab_print(ed, sh, str) ==
    [i \in DOMAIN Symbols(ed, sh) |->
        LET st == Symbols(ed, sh)[i]
        IN  [name |-> NameOf(ed, st, str), value |-> __elf_get_quad(ed, st, "ST_VALUE"),
             size |-> Off(ed, st, "ST_SIZE"), info |-> __elf_get_byte(ed, st, "ST_INFO"),
             shndx |-> ToNat(__elf_get_quarter(ed, st, "ST_SHNDX"))]]

\* Every table of symbols in turn, with the names of the last section called .strtab
__elf_symtab_process(ed, dump) ==
    LET quarter(m) == ToNat(__elf_get_quarter(ed, 0, m))
        sh(i) == Off(ed, 0, "E_SHOFF") + i * quarter("E_SHENTSIZE")
        names == Off(ed, sh(quarter("E_SHSTRNDX")), "SH_OFFSET")
        indices == 0..quarter("E_SHNUM") - 1
        strtab == Off(ed, sh(Max({i \in indices :
                     StringAt(ed, names + ToNat(__elf_get_word(ed, sh(i), "SH_NAME"))) = 1})), "SH_OFFSET")
        tables == SelectSeq([i \in 1..quarter("E_SHNUM") |-> sh(i - 1)],
                            LAMBDA s : ToNat(__elf_get_word(ed, s, "SH_TYPE")) = SHT_SYMTAB)
    IN  FlattenSeq([i \in DOMAIN tables |-> IF dump THEN __elf_symtab_print(ed, tables[i], strtab)
                                            ELSE __elf_symtab_get(ed, tables[i], strtab)])

kylin_elf_create(im) == [class |-> im.class, data |-> im.data, file |-> LinkedFile(im)]
kylin_elf_symbol(ed) == __elf_symtab_process(ed, FALSE)
kylin_elf_dump(ed) == __elf_symtab_process(ed, TRUE)

-----------------------------------------------------------------------------
ElfInit == image \in [class : {32, 64}, data : {"LSB", "MSB"}, syms : {<<>>}, cut : {0}]

\* The linker adds a symbol, to the first table of symbols or the second
Link(s, first) ==
    /\ Len(image.syms) < MaxSymbols /\ Len(s.value) <= Wide(image)
    /\ first => image.cut = Len(image.syms)
    /\ image' = [image EXCEPT !.syms = Append(@, s), !.cut = IF first THEN @ + 1 ELSE @]

ElfNext == \E s \in [name : ElfNames, value : ElfValues, info : {2, 18}], first \in BOOLEAN : Link(s, first)

-----------------------------------------------------------------------------
(***************************************************************************)
(* kylin_elf_symbol calls its hook for exactly the symbols that have a name*)
(* and a value, in the order of the file, whatever the class and the byte  *)
(* order and however the symbols are spread over the tables. The loader    *)
(* finds the modules that a module depends on in this way.                 *)
(***************************************************************************)
ElfSymbolsExact ==
    image.syms # <<>> => kylin_elf_symbol(kylin_elf_create(image)) =
        LET named == SelectSeq(image.syms, LAMBDA s : s.name # 0 /\ ~IsZero(s.value))
        IN  [i \in DOMAIN named |-> [name |-> named[i].name, value |-> Padded(named[i].value, Wide(image))]]

(***************************************************************************)
(* kylin_elf_dump writes every symbol with the fields that the file has.   *)
(***************************************************************************)
ElfDumpExact ==
    image.syms # <<>> => kylin_elf_dump(kylin_elf_create(image)) =
        [i \in DOMAIN image.syms |->
            [name |-> image.syms[i].name, value |-> Padded(image.syms[i].value, Wide(image)),
             size |-> 11, info |-> image.syms[i].info, shndx |-> 258]]

(***************************************************************************)
(* What kylin_elf_symbol and kylin_elf_dump read is what is in the file.   *)
(***************************************************************************)
ElfReadsExactly == ElfSymbolsExact /\ ElfDumpExact
=============================================================================
