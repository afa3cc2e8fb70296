--------------------------- MODULE MCBiosScripts ---------------------------
(* BiosScripts with images made from small tables: every table of four      *)
(* opcodes that steer the parser, every opcode executed and skipped, and    *)
(* tables for two outputs.                                                  *)
EXTENDS BiosScripts, SequencesExt

CONSTANTS t1, t2, o1, o2

O(op, n) == [op |-> op, n |-> n, to |-> 0, rel |-> FALSE]
Rel(op) == [O(op, 1) EXCEPT !.rel = TRUE]
Sub(op, table) == [O(op, 1) EXCEPT !.to = table]

\* The layout of the opcodes, from the comments above their handlers: a fixed
\* part and, for each of the n pieces of data, its length.
Layouts ==
  << <<"END_REPEAT", 1, 0>>, <<"NOT", 1, 0>>, <<"COMPUTE_MEM", 1, 0>>,
     <<"CONFIGURE_MEM", 1, 0>>, <<"CONFIGURE_CLK", 1, 0>>,
     <<"CONFIGURE_PREINIT", 1, 0>>, <<"DONE", 1, 0>>, <<"RESUME", 1, 0>>,
     <<"8C", 1, 0>>, <<"8D", 1, 0>>, <<"GPIO", 1, 0>>, <<"RESERVED", 1, 0>>,
     <<"BAD", 1, 0>>, <<"REPEAT", 2, 0>>, <<"IO_FLAG_CONDITION", 2, 0>>,
     <<"3B", 2, 0>>, <<"3C", 2, 0>>, <<"SUB", 2, 0>>, <<"MACRO", 2, 0>>,
     <<"CONDITION", 2, 0>>, <<"IO_CONDITION", 2, 0>>,
     <<"DP_CONDITION", 3, 0>>, <<"ZM_CR", 3, 0>>, <<"CONDITION_TIME", 3, 0>>,
     <<"LTIME", 3, 0>>, <<"SUB_DIRECT", 3, 0>>, <<"RAM_CONDITION", 3, 0>>,
     <<"TIME", 3, 0>>, <<"CR", 4, 0>>, <<"TMDS", 5, 0>>,
     <<"ZM_INDEX_IO", 5, 0>>, <<"IO", 5, 0>>, <<"I2C_IF", 6, 0>>,
     <<"INDEX_IO", 6, 0>>, <<"PLL", 7, 0>>, <<"I2C_LONG_IF", 7, 0>>,
     <<"PLL2", 9, 0>>, <<"ZM_REG", 9, 0>>, <<"COPY_ZM_REG", 9, 0>>,
     <<"COPY", 11, 0>>, <<"NV_REG", 13, 0>>, <<"RESET", 13, 0>>,
     <<"97", 13, 0>>, <<"96", 17, 0>>, <<"COPY_NV_REG", 22, 0>>,
     <<"IO_RESTRICT_PROG", 11, 4>>, <<"IO_RESTRICT_PLL", 12, 2>>,
     <<"INDEX_ADDRESS_LATCHED", 18, 2>>, <<"IO_RESTRICT_PLL2", 11, 4>>,
     <<"I2C_BYTE", 4, 3>>, <<"ZM_I2C_BYTE", 4, 2>>, <<"ZM_I2C", 4, 1>>,
     <<"ZM_TMDS_GROUP", 3, 2>>, <<"CR_INDEX_ADDRESS_LATCHED", 5, 1>>,
     <<"ZM_CR_GROUP", 2, 2>>, <<"ZM_REG_SEQUENCE", 6, 4>>,
     <<"RAM_RESTRICT_PLL", 2, 0>>, <<"RAM_RESTRICT_ZM_REG_GROUP", 7, 0>>,
     <<"ZM_REG_GROUP_ADDRESS_LATCHED", 6, 4>>, <<"AUXCH", 6, 2>>,
     <<"ZM_AUXCH", 6, 1>> >>

\* The lengths; two opcodes have as many pieces as another table says.
Layout == [op \in {Layouts[i][1] : i \in DOMAIN Layouts} |->
             CHOOSE l \in {Layouts[i] : i \in DOMAIN Layouts} : l[1] = op]
Size(o, group) ==
  Layout[o.op][2] + Layout[o.op][3] * o.n
    + CASE o.op = "RAM_RESTRICT_PLL" -> 4 * group
        [] o.op = "RAM_RESTRICT_ZM_REG_GROUP" -> 4 * group * o.n
        [] OTHER -> 0

\* Where the opcodes of a sequence begin, and where it ends.
Offsets(ops, group) ==
  FoldLeft(LAMBDA offs, o : Append(offs, Last(offs) + Size(o, group)), <<1>>, ops)

\* An image with these tables; the first inits of them are init tables.
Image(progs, inits, mem, major, group) ==
  LET ops == FlattenSeq(progs)
      off == Offsets(ops, group)
      first == FoldLeft(LAMBDA is, p : Append(is, Last(is) + Len(p)), <<1>>, progs)
      start == [k \in DOMAIN progs |-> off[first[k]]]
  IN [code |-> [o \in {off[i] : i \in DOMAIN ops} |->
                  LET i == CHOOSE j \in DOMAIN ops : off[j] = o
                  IN [ops[i] EXCEPT !.to = IF @ = 0 THEN 0 ELSE start[@]]],
      len |-> Last(off),
      tables |-> SubSeq(start, 1, inits), some |-> 0,
      disp |-> [out \in Outputs |-> Null], dcb |-> <<>>,
      dp |-> {}, pm |-> {}, start |-> start,
      nv50 |-> TRUE, dpt |-> major > 2, major |-> major, mem |-> mem, group |-> group]

Done == O("DONE", 1)
Steer == <<O("REPEAT", 3), O("END_REPEAT", 1), O("CONDITION", 1),
           O("NOT", 1), O("RESUME", 1), Sub("SUB", 2)>>
SubTable == <<O("RESUME", 1), O("CONDITION", 1), Done>>

\* Every table of four opcodes that steer the parser, by the digits of k.
SteerRom(k) ==
  LET p == [i \in 1 .. 4 |-> Steer[1 + ((k \div (6 ^ (i - 1))) % 6)]]
  IN Image(<<Append(p, Done), SubTable>>, 1, "none", 5, 1)
SteerRoms == {SteerRom(k) : k \in 0 .. 6 ^ 4 - 1}

\* Every opcode after a condition, with and without data, on two cards.
EachRom(k) ==
  LET op == Layouts[1 + (k % Len(Layouts))][1]
      p == <<O("CONDITION", 1), O(op, IF k % 2 = 0 THEN 0 ELSE 2), O("NV_REG", 1), Done>>
  IN IF k \div Len(Layouts) < 2 THEN Image(<<p>>, 1, "none", 5, 2)
     ELSE Image(<<p>>, 1, "nv04", 2, 0)
EachRoms == {EachRom(k) : k \in 0 .. 4 * Len(Layouts) - 1}

\* The other memory probes, waiting, blocks around subroutines, shared flags, a
\* table that is cut off.
OtherRoms ==
  {Image(<<<<O("COMPUTE_MEM", 1), Sub("SUB_DIRECT", 2), Done>>,
           <<O("I2C_LONG_IF", 1), O("BAD", 1)>>>>, 1, mem, 2, 1) :
     mem \in {"nv05", "nv10", "nv20"}}
  \cup {Image(<<<<O("REPEAT", 2), Sub("SUB", 3), O("CONDITION_TIME", 2),
                  O("IO_CONDITION", 1), O("CR", 1), O("END_REPEAT", 1),
                  O("ZM_REG", 1), Done>>,
                <<O("NOT", 1), O("RAM_CONDITION", 1), O("PLL", 1), Done>>,
                <<O("ZM_I2C", 2), O("I2C_IF", 1), O("TMDS", 1), Done>>>>,
              2, "none", 5, 1),
        Image(<<<<O("NV_REG", 1), O("REPEAT", 0), O("CONDITION", 1), O("COPY", 1),
                  O("END_REPEAT", 1), O("CR", 1), Done>>>>, 1, "none", 5, 1),
        Image(<<<<O("NV_REG", 1), O("CONDITION", 1), O("COPY", 1)>>>>,
              1, "none", 5, 1),
        Image(<<<<O("CONDITION", 1), Rel("ZM_REG"), Done>>>>, 1, "none", 5, 1)}

\* Two outputs: table 1 is an init table, 2 some script, 3 to 5 are scripts of
\* the first output, 6 of the second, 7 and 8 of the power management, the
\* latter one with a register that only an output has.
Outs ==
  LET rom0 == Image(<<<<O("NV_REG", 1), Done>>, <<O("ZM_REG", 1), Done>>,
                      <<O("AUXCH", 1), Done>>,
                      <<O("3B", 1), O("DP_CONDITION", 1), O("ZM_AUXCH", 1), Done>>,
                      <<O("NV_REG", 1), Done>>,
                      <<O("3C", 1), O("CONDITION_TIME", 1), Rel("NV_REG"), Done>>,
                      <<O("NV_REG", 1), O("TIME", 1), Done>>,
                      <<O("CONDITION", 1), Rel("ZM_REG"), Done>>>>, 1, "none", 5, 1)
      s == rom0.start
      at(n, m) == <<[clk |-> 2, script |-> s[n]], [clk |-> 0, script |-> s[m]]>>
      conf(match, on, off) == [match |-> match, on |-> on, off |-> off]
  IN [rom0 EXCEPT
        !.some = s[2], !.dcb = <<o1, o2>>, !.dp = {s[4]}, !.pm = {s[7], s[8]},
        !.disp = [out \in Outputs |->
           IF out = o1
             THEN [scripts |-> <<s[3], s[4], 0>>,
                   confs |-> <<conf(0, at(4, 5), <<>>), conf(1, at(5, 4), at(4, 3))>>]
             ELSE [scripts |-> <<s[6], 0, s[6]>>,
                   confs |-> <<conf(7, at(6, 6), at(5, 6))>>]]]

Clks == -3 .. 2

OutsRoms == {Outs}
AllRoms == SteerRoms \cup EachRoms \cup OtherRoms \cup {Outs}
=============================================================================
