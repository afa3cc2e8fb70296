---------------------------- MODULE BiosScripts ----------------------------
(***************************************************************************)
(* The init script interpreter of nouveau_bios.c.  The video BIOS holds    *)
(* tables of opcodes that set the card up; the driver runs some of them    *)
(* when it loads, and others when an output or the clocks change.          *)
(*                                                                         *)
(* A table is parsed by a loop that looks an opcode up and calls its       *)
(* handler, which returns the length of the opcode, 0 to end the table or  *)
(* an error.  Two flags are handed down: "execute", which conditions clear *)
(* so that the opcodes after them are skipped, and "repeat", which tells   *)
(* the end of a repeated block that it is one.  A flag of the device,      *)
(* bios->execute, says whether the writes of a script reach the card.      *)
(*                                                                         *)
(* What registers hold is left out: a condition may come out either way    *)
(* each time it is looked at, and of a write only the opcode is kept.      *)
(***************************************************************************)
EXTENDS Integers, Sequences, FiniteSets, FiniteSetsExt

CONSTANTS
  Threads, Boot,         \* the threads, and the one that loads the driver
  Outputs,               \* the display outputs
  Roms,                  \* the images of the BIOS to look at
  MaxTableOps,           \* MAX_TABLE_OPS
  RetryUnit, RetryMax,   \* INIT_CONDITION_TIME: 50 and 100 in the code
  MaxCalls,              \* bound: the table runs of a thread
  PxClks,                \* the clocks that outputs are set to, in both signs
  Null

ASSUME ScriptsAssumption ==
  /\ Boot \in Threads /\ Null \notin Threads \cup Outputs
  /\ MaxTableOps \in Nat \ {0} /\ MaxCalls \in Nat
  /\ RetryUnit \in Nat \ {0} /\ RetryMax \in Nat \ {0}
  /\ PxClks \subseteq Int

VARIABLES
  rom,      \* the image of the BIOS that the card has
  execute,  \* bios->execute
  output,   \* bios->display.output
  lock,     \* the thread that holds bios->lock
  booted,   \* whether nouveau_bios_init is over
  jobs,     \* of a thread: the tables it has still to run
  run,      \* of a thread: the table it runs, Null for none
  iexec,    \* of a thread: its struct init_exec
  frames,   \* of a thread: its calls of parse_init_table, innermost first
  calls,    \* history: the table runs of a thread
  dead,     \* the threads that an oops has ended
  parsed,   \* history: how often the opcodes of a table run were parsed
  hw        \* history: the opcodes that wrote to the card

biosvars == <<rom, execute, output, lock, booted>>
vars == <<biosvars, jobs, run, iexec, frames, calls, dead, parsed, hw>>

\* An image is a record: its opcodes by their offsets (code) and its length, the
\* init tables and the script after them (tables, some), the scripts of the
\* outputs and the outputs in the order of the DCB (disp, dcb), the scripts of
\* DisplayPort and of the power management (dp, pm), and what handlers look at
\* (nv50, major, mem, group, and dpt for the table of DisplayPort).  An opcode
\* has a name (op), the number of its data (n, 1 when it has no list), the table
\* it calls (to) and whether its register is one of the output's (rel).

\* A table run: where it starts, the output it is for, whether it goes through
\* nouveau_bios_run_init_table, and whether its flags are fresh.
Job(table, out, locked, fresh) ==
  [table |-> table, out |-> out, locked |-> locked, fresh |-> fresh]

\* A call of parse_init_table: where it is, where it began and how often it is
\* to be called in a row, and what its caller will go on with.
Frame(at, again, len, rep) ==
  [at |-> at, start |-> at, again |-> again, len |-> len, rep |-> rep,
   n |-> 0, tries |-> 0]

Ended == 0
Top(t) == Head(frames[t])
Parsing(t) ==
  /\ frames[t] # <<>> /\ Top(t).at \in DOMAIN rom.code
  /\ Top(t).n < MaxTableOps
Op(t) == rom.code[Top(t).at]
At(t, op) == Op(t).op = op
Skipping(t) == ~iexec[t].execute

SetTop(t, f) == frames' = [frames EXCEPT ![t] = <<f>> \o Tail(@)]
Advance(t, len) == SetTop(t, [Top(t) EXCEPT !.at = @ + len, !.n = @ + 1, !.tries = 0])
Stop(t) == SetTop(t, [Top(t) EXCEPT !.at = Ended])
Count(t) == parsed' = [parsed EXCEPT ![t][Top(t).at] = @ + 1]
SetExecute(t, e) == iexec' = [iexec EXCEPT ![t].execute = e]
Rest == UNCHANGED <<biosvars, jobs, run, calls, dead>>

\* An oops or a BUG_ON: the thread ends where it is, with what it has locked.
Dies(t) ==
  /\ dead' = dead \cup {t}
  /\ UNCHANGED <<biosvars, jobs, run, iexec, frames, calls, parsed, hw>>

-----------------------------------------------------------------------------
(* Writes: bios_wr32, bios_idxprt_wr, bios_port_wr and setPLL look at      *)
(* bios->execute, and so do the handlers that drive the I2C buses.         *)

Write(t, faked) == hw' = hw \cup {[at |-> Top(t).at, faked |-> faked]}
Wrote(t) == IF execute THEN Write(t, FALSE) ELSE UNCHANGED hw

\* A handler that writes unless it is to be skipped.
Writes(t, op, len) ==
  /\ At(t, op) /\ Advance(t, len) /\ Count(t)
  /\ IF Skipping(t) \/ Op(t).n = 0 THEN UNCHANGED hw ELSE Wrote(t)
  /\ UNCHANGED iexec /\ Rest

\* The same, when it may find that it has nothing to write or cannot.
MayWrite(t, op, len) ==
  /\ At(t, op) /\ Advance(t, len) /\ Count(t)
  /\ UNCHANGED hw \/ (~Skipping(t) /\ Wrote(t))
  /\ UNCHANGED iexec /\ Rest

\* The same for a list, which may be empty.
MayWriteList(t, op, len) ==
  MayWrite(t, op, len) /\ (Op(t).n = 0 => UNCHANGED hw)

\* A handler that writes nothing.
Reads(t, op, len) ==
  At(t, op) /\ Advance(t, len) /\ Count(t) /\ UNCHANGED <<hw, iexec>> /\ Rest

\* A handler that clears the flag when its condition is not met.
Tests(t, op, len) ==
  /\ At(t, op) /\ Advance(t, len) /\ Count(t)
  /\ UNCHANGED iexec \/ (~Skipping(t) /\ SetExecute(t, FALSE))
  /\ UNCHANGED hw /\ Rest

\* A handler that returns 0 or an error: the table ends.
Leaves(t) == Stop(t) /\ Count(t) /\ UNCHANGED <<hw, iexec>> /\ Rest

-----------------------------------------------------------------------------
(* The handlers, in the order of the code                                  *)

init_io_restrict_prog(t) == MayWrite(t, "IO_RESTRICT_PROG", 11 + 4 * Op(t).n)

\* count - 1 calls of parse_init_table for the block; the flag is set before
\* the first and cleared after the last of them (Return).
init_repeat(t) ==
  /\ At(t, "REPEAT") /\ Count(t)
  /\ IF Op(t).n > 1
       THEN /\ iexec' = [iexec EXCEPT ![t].repeat = TRUE]
            /\ frames' = [frames EXCEPT
                 ![t] = <<Frame(Top(t).at + 2, Op(t).n - 1, 2, TRUE)>> \o @]
       ELSE /\ iexec' = [iexec EXCEPT ![t].repeat = FALSE]
            /\ Advance(t, 2)
  /\ UNCHANGED hw /\ Rest

init_io_restrict_pll(t) == MayWrite(t, "IO_RESTRICT_PLL", 12 + 2 * Op(t).n)

init_end_repeat(t) ==
  /\ At(t, "END_REPEAT") /\ Count(t)
  /\ IF iexec[t].repeat THEN Stop(t) ELSE Advance(t, 1)
  /\ UNCHANGED <<hw, iexec>> /\ Rest

init_copy(t) == Writes(t, "COPY", 11)

init_not(t) ==
  /\ At(t, "NOT") /\ Advance(t, 1) /\ Count(t)
  /\ SetExecute(t, Skipping(t))
  /\ UNCHANGED hw /\ Rest

init_io_flag_condition(t) == Tests(t, "IO_FLAG_CONDITION", 2)

\* The entry of the output in the table of DisplayPort is looked up, and
\* bios_output_config_match takes it that there is an output.
init_dp_condition(t) ==
  \/ /\ Skipping(t) \/ ~rom.dpt
     /\ Reads(t, "DP_CONDITION", 3)
  \/ /\ ~Skipping(t) /\ rom.dpt /\ output # Null
     /\ Tests(t, "DP_CONDITION", 3)
  \/ /\ ~Skipping(t) /\ rom.dpt /\ output = Null
     /\ At(t, "DP_CONDITION") /\ Dies(t)

\* The output is looked at before the flag, and without a test.
init_op_3b(t) ==
  \/ output # Null /\ Writes(t, "3B", 2)
  \/ output = Null /\ At(t, "3B") /\ Dies(t)
init_op_3c(t) ==
  \/ output # Null /\ Writes(t, "3C", 2)
  \/ output = Null /\ At(t, "3C") /\ Dies(t)
init_idx_addr_latched(t) == Writes(t, "INDEX_ADDRESS_LATCHED", 18 + 2 * Op(t).n)
init_io_restrict_pll2(t) == MayWrite(t, "IO_RESTRICT_PLL2", 11 + 4 * Op(t).n)
init_pll2(t) == MayWrite(t, "PLL2", 9)

\* The bus may be missing, and a transfer may fail part of the way.
init_i2c_byte(t) == MayWriteList(t, "I2C_BYTE", 4 + 3 * Op(t).n)
init_zm_i2c_byte(t) == MayWriteList(t, "ZM_I2C_BYTE", 4 + 2 * Op(t).n)

\* Faulty variant: forgets to skip the data.
init_zm_i2c_short(t) == MayWrite(t, "ZM_I2C", 4)
init_zm_i2c(t) == MayWrite(t, "ZM_I2C", 4 + Op(t).n)

init_tmds(t) == MayWrite(t, "TMDS", 5)
init_zm_tmds_group(t) == MayWriteList(t, "ZM_TMDS_GROUP", 3 + 2 * Op(t).n)
init_cr_idx_adr_latch(t) == Writes(t, "CR_INDEX_ADDRESS_LATCHED", 5 + Op(t).n)
init_cr(t) == Writes(t, "CR", 4)
init_zm_cr(t) == Writes(t, "ZM_CR", 3)
init_zm_cr_group(t) == Writes(t, "ZM_CR_GROUP", 2 + 2 * Op(t).n)

\* How often the condition is looked at before the handler gives up.
Retries(t) ==
  LET asked == RetryUnit * Op(t).n
  IN IF ~execute THEN 1 ELSE IF asked > RetryMax THEN RetryMax ELSE asked

\* Faulty variant: does not count how often it has looked.
init_condition_time_forever(t) ==
  /\ At(t, "CONDITION_TIME") /\ ~Skipping(t)
  /\ SetTop(t, [Top(t) EXCEPT !.tries = (@ + 1) % 2])
  /\ UNCHANGED <<hw, iexec, parsed>> /\ Rest

\* Not met yet: the handler sleeps.
init_condition_time_wait(t) ==
  /\ At(t, "CONDITION_TIME") /\ ~Skipping(t)
  /\ Top(t).tries < Retries(t)
  /\ SetTop(t, [Top(t) EXCEPT !.tries = @ + 1])
  /\ UNCHANGED <<hw, iexec, parsed>> /\ Rest

\* It leaves the loop when the condition is met or the retries are used up,
\* and looks at the condition once more.
init_condition_time(t) == Tests(t, "CONDITION_TIME", 3)

init_ltime(t) == Reads(t, "LTIME", 3)
init_zm_reg_sequence(t) == Writes(t, "ZM_REG_SEQUENCE", 6 + 4 * Op(t).n)

\* A call of parse_init_table for another table, with the same flags.
Calls(t, op, len) ==
  /\ At(t, op) /\ Count(t)
  /\ IF Skipping(t) THEN Advance(t, len)
     ELSE frames' = [frames EXCEPT ![t] = <<Frame(Op(t).to, 1, len, FALSE)>> \o @]
  /\ UNCHANGED <<hw, iexec>> /\ Rest

init_sub_direct(t) == Calls(t, "SUB_DIRECT", 3)

\* No test of the flag, by design: it says what the device says.
Asks(t, op, len) ==
  \/ /\ At(t, op) /\ Advance(t, len) /\ Count(t)
     /\ \E met \in BOOLEAN : SetExecute(t, met)
     /\ UNCHANGED hw /\ Rest
  \/ At(t, op) /\ Leaves(t)

init_i2c_if(t) == Asks(t, "I2C_IF", 6)
init_copy_nv_reg(t) == Writes(t, "COPY_NV_REG", 22)
init_zm_index_io(t) == Writes(t, "ZM_INDEX_IO", 5)

\* Probing the memory: what goes through bios_md32 depends on bios->execute,
\* the sequencer and the pokes into the memory do not.
nv04_init_compute_mem(t) == Write(t, ~execute)
nv05_init_compute_mem(t) == Write(t, ~execute)
nv10_init_compute_mem(t) == Write(t, ~execute)
nv20_init_compute_mem(t) == Write(t, ~execute)

\* No test of the flag, by design.  The aperture may fail to be mapped.
init_compute_mem(t) ==
  \/ /\ At(t, "COMPUTE_MEM") /\ Advance(t, 1) /\ Count(t)
     /\ CASE rom.mem = "nv20" -> nv20_init_compute_mem(t)
          [] rom.mem = "nv10" -> nv10_init_compute_mem(t)
          [] rom.mem = "nv05" -> nv05_init_compute_mem(t)
          [] rom.mem = "nv04" -> nv04_init_compute_mem(t)
          [] OTHER -> UNCHANGED hw
     /\ UNCHANGED iexec /\ Rest
  \/ At(t, "COMPUTE_MEM") /\ rom.mem # "none" /\ Leaves(t)

\* A handler that writes whether or not it is to be skipped.
WritesAnyway(t, op, len) ==
  /\ At(t, op) /\ Advance(t, len) /\ Count(t) /\ Wrote(t)
  /\ UNCHANGED iexec /\ Rest

init_reset(t) == WritesAnyway(t, "RESET", 13)

\* The end of a table from version 3 on.
EndsFrom3(t, op) ==
  \/ rom.major <= 2 /\ WritesAnyway(t, op, 1)
  \/ rom.major > 2 /\ At(t, op) /\ Leaves(t)

init_configure_mem(t) == EndsFrom3(t, "CONFIGURE_MEM")
init_configure_clk(t) == EndsFrom3(t, "CONFIGURE_CLK")
init_configure_preinit(t) == EndsFrom3(t, "CONFIGURE_PREINIT")

init_io(t) == Writes(t, "IO", 5)
init_sub(t) == Calls(t, "SUB", 2)
init_ram_condition(t) == Tests(t, "RAM_CONDITION", 3)
init_nv_reg(t) == Writes(t, "NV_REG", 13)
init_macro(t) == Writes(t, "MACRO", 2)

init_done(t) == At(t, "DONE") /\ Leaves(t)

init_resume(t) ==
  /\ At(t, "RESUME") /\ Advance(t, 1) /\ Count(t)
  /\ SetExecute(t, TRUE)
  /\ UNCHANGED hw /\ Rest

init_time(t) == Reads(t, "TIME", 3)
init_condition(t) == Tests(t, "CONDITION", 2)
init_io_condition(t) == Tests(t, "IO_CONDITION", 2)
init_index_io(t) == Writes(t, "INDEX_IO", 6)
init_pll(t) == MayWrite(t, "PLL", 7)
init_zm_reg(t) == Writes(t, "ZM_REG", 9)

\* The table of PLL limits may lack the PLL.
init_ram_restrict_pll(t) == MayWrite(t, "RAM_RESTRICT_PLL", 2 + 4 * rom.group)

init_8c(t) == Reads(t, "8C", 1)
init_8d(t) == Reads(t, "8D", 1)

\* n is the number of entries of the GPIO table.
init_gpio(t) == Writes(t, "GPIO", 1)

\* The length depends on a value of another table.
init_ram_restrict_zm_reg_group(t) ==
  \/ /\ rom.group > 0
     /\ Writes(t, "RAM_RESTRICT_ZM_REG_GROUP", 7 + 4 * rom.group * Op(t).n)
  \/ rom.group = 0 /\ At(t, "RAM_RESTRICT_ZM_REG_GROUP") /\ Leaves(t)

init_copy_zm_reg(t) == Writes(t, "COPY_ZM_REG", 9)
init_zm_reg_group_addr_latched(t) ==
  Writes(t, "ZM_REG_GROUP_ADDRESS_LATCHED", 6 + 4 * Op(t).n)
init_reserved(t) == Reads(t, "RESERVED", 1)
init_96(t) == Writes(t, "96", 17)
init_97(t) == Writes(t, "97", 13)

\* Bytes sent to the output over its AUX channel, unless there is no output,
\* no channel, or the transfer fails; bios->execute is not looked at.
Sends(t, op, len) ==
  /\ At(t, op) /\ Advance(t, len) /\ Count(t)
  /\ \/ UNCHANGED hw
     \/ (output # Null /\ ~Skipping(t) /\ Op(t).n > 0 /\ Write(t, ~execute))
  /\ UNCHANGED iexec /\ Rest

init_auxch(t) == Sends(t, "AUXCH", 6 + 2 * Op(t).n)
init_zm_auxch(t) == Sends(t, "ZM_AUXCH", 6 + Op(t).n)
init_i2c_long_if(t) == Asks(t, "I2C_LONG_IF", 7)

-----------------------------------------------------------------------------
(* parse_init_table                                                        *)

\* No handler has this opcode.
NotFound(t) == At(t, "BAD") /\ Leaves(t)

\* Faulty variant: the flag stays when the block has been repeated.
ReturnKeepsRepeat(t) ==
  /\ frames[t] # <<>> /\ ~Parsing(t)
  /\ frames' = [frames EXCEPT ![t] =
       IF Top(t).again > 1
         THEN <<Frame(Top(t).start, Top(t).again - 1, Top(t).len, Top(t).rep)>>
                \o Tail(@)
       ELSE IF Len(@) = 1 THEN <<>>
       ELSE <<[@[2] EXCEPT !.at = @ + Top(t).len, !.n = @ + 1]>>
              \o SubSeq(@, 3, Len(@))]
  /\ UNCHANGED <<hw, parsed, iexec>> /\ Rest

\* The loop is left.  Whatever it returned, the caller goes on: with the next
\* call for its block, or with the opcode after its own.
Return(t) ==
  /\ frames[t] # <<>> /\ ~Parsing(t)
  /\ frames' = [frames EXCEPT ![t] =
       IF Top(t).again > 1
         THEN <<Frame(Top(t).start, Top(t).again - 1, Top(t).len, Top(t).rep)>>
                \o Tail(@)
       ELSE IF Len(@) = 1 THEN <<>>
       ELSE <<[@[2] EXCEPT !.at = @ + Top(t).len, !.n = @ + 1]>>
              \o SubSeq(@, 3, Len(@))]
  /\ iexec' = IF Top(t).rep /\ Top(t).again = 1
                THEN [iexec EXCEPT ![t].repeat = FALSE] ELSE iexec
  /\ UNCHANGED <<hw, parsed>> /\ Rest

\* itbl_entry.
Handler(t) ==
  \/ init_io_restrict_prog(t) \/ init_repeat(t)
  \/ init_io_restrict_pll(t) \/ init_end_repeat(t) \/ init_copy(t)
  \/ init_not(t) \/ init_io_flag_condition(t) \/ init_dp_condition(t)
  \/ init_op_3b(t) \/ init_op_3c(t) \/ init_idx_addr_latched(t)
  \/ init_io_restrict_pll2(t) \/ init_pll2(t) \/ init_i2c_byte(t)
  \/ init_zm_i2c_byte(t) \/ init_zm_i2c(t) \/ init_tmds(t)
  \/ init_zm_tmds_group(t) \/ init_cr_idx_adr_latch(t) \/ init_cr(t)
  \/ init_zm_cr(t) \/ init_zm_cr_group(t) \/ init_condition_time_wait(t)
  \/ init_condition_time(t) \/ init_ltime(t) \/ init_zm_reg_sequence(t)
  \/ init_sub_direct(t) \/ init_i2c_if(t) \/ init_copy_nv_reg(t)
  \/ init_zm_index_io(t) \/ init_compute_mem(t) \/ init_reset(t)
  \/ init_configure_mem(t) \/ init_configure_clk(t)
  \/ init_configure_preinit(t) \/ init_io(t) \/ init_sub(t)
  \/ init_ram_condition(t) \/ init_nv_reg(t) \/ init_macro(t)
  \/ init_done(t) \/ init_resume(t) \/ init_time(t) \/ init_condition(t)
  \/ init_io_condition(t) \/ init_index_io(t) \/ init_pll(t)
  \/ init_zm_reg(t) \/ init_ram_restrict_pll(t) \/ init_8c(t)
  \/ init_8d(t) \/ init_gpio(t) \/ init_ram_restrict_zm_reg_group(t)
  \/ init_copy_zm_reg(t) \/ init_zm_reg_group_addr_latched(t)
  \/ init_reserved(t) \/ init_96(t) \/ init_97(t) \/ init_auxch(t)
  \/ init_zm_auxch(t) \/ init_i2c_long_if(t)

\* munge_reg: a register of the output's, and no output: a BUG_ON.
munge_reg(t) ==
  rom.nv50 /\ Op(t).rel /\ ~Skipping(t) /\ output = Null

\* An opcode is looked up and its handler called.
Parse(t) ==
  /\ Parsing(t)
  /\ \/ ~munge_reg(t) /\ (Handler(t) \/ NotFound(t))
     \/ munge_reg(t) /\ Dies(t)

-----------------------------------------------------------------------------
(* Table runs                                                              *)

\* clkcmptable: the first entry that the clock is not below.
clkcmptable(tbl, pxclk) ==
  LET at == {i \in DOMAIN tbl : pxclk >= tbl[i].clk}
  IN IF at = {} THEN 0 ELSE tbl[Min(at)].script

\* The configuration that matches, or else the first.
Config(ot, sub) ==
  LET at == {i \in DOMAIN ot.confs : ot.confs[i].match = sub}
  IN ot.confs[IF at = {} THEN 1 ELSE Min(at)]

\* The script of nouveau_bios_run_display_table, 0 for none.
DisplayScript(out, sub, pxclk) ==
  LET ot == rom.disp[out] IN
  CASE ot = Null   -> 0
    [] pxclk = 0   -> ot.scripts[1]
    [] pxclk = -1  -> ot.scripts[2]
    [] pxclk = -2  -> ot.scripts[3]
    [] pxclk > 0   -> clkcmptable(Config(ot, sub).on, pxclk)
    [] OTHER       -> clkcmptable(Config(ot, sub).off, -pxclk)

DisplayJobs(out, sub, pxclk) ==
  IF DisplayScript(out, sub, pxclk) = 0 THEN <<>>
  ELSE <<Job(DisplayScript(out, sub, pxclk), out, TRUE, TRUE)>>

\* parse_init_tables: all of them share the flags.
InitTables ==
  [i \in DOMAIN rom.tables |-> Job(rom.tables[i], Null, FALSE, i = 1)]

\* nouveau_run_vbios_init: the init tables, some script, and from NV50 on the
\* first script of each output.
VbiosInit ==
  InitTables
  \o (IF rom.some = 0 THEN <<>> ELSE <<Job(rom.some, Null, FALSE, TRUE)>>)
  \o SelectSeq([i \in DOMAIN rom.dcb |->
                 Job(DisplayScript(rom.dcb[i], 0, 0), rom.dcb[i], TRUE, TRUE)],
               LAMBDA j : rom.nv50 /\ j.table # 0)

Fresh == [execute |-> TRUE, repeat |-> FALSE]

\* nouveau_bios_init runs the tables; unless the card was set up already, or
\* the user forces it, only to follow them.
Init ==
  /\ rom \in Roms
  /\ execute \in BOOLEAN
  /\ output = Null /\ lock = Null /\ booted = FALSE
  /\ jobs = [t \in Threads |-> IF t = Boot THEN VbiosInit ELSE <<>>]
  /\ run = [t \in Threads |-> Null]
  /\ iexec = [t \in Threads |-> Fresh]
  /\ frames = [t \in Threads |-> <<>>]
  /\ calls = [t \in Threads |-> 0]
  /\ dead = {}
  /\ parsed = [t \in Threads |-> [o \in DOMAIN rom.code |-> 0]]
  /\ hw = {}

\* Faulty variant: does not take the lock.
BeginUnlocked(t) ==
  /\ run[t] = Null /\ jobs[t] # <<>>
  /\ LET job == Head(jobs[t]) IN
       /\ run' = [run EXCEPT ![t] = job]
       /\ IF job.locked THEN lock' = t /\ output' = job.out
                        ELSE UNCHANGED <<lock, output>>
       /\ iexec' = [iexec EXCEPT ![t] = IF job.fresh THEN Fresh ELSE @]
       /\ frames' = [frames EXCEPT ![t] = <<Frame(job.table, 1, 0, FALSE)>>]
  /\ jobs' = [jobs EXCEPT ![t] = Tail(@)]
  /\ parsed' = [parsed EXCEPT ![t] = [o \in DOMAIN rom.code |-> 0]]
  /\ UNCHANGED <<rom, execute, booted, calls, dead, hw>>

\* A table is run: nouveau_bios_run_init_table, or its callers' own calls of
\* parse_init_table when the driver loads.
Begin(t) ==
  /\ run[t] = Null /\ jobs[t] # <<>>
  /\ LET job == Head(jobs[t]) IN
       /\ run' = [run EXCEPT ![t] = job]
       /\ IF job.locked THEN lock = Null /\ lock' = t /\ output' = job.out
                        ELSE UNCHANGED <<lock, output>>
       /\ iexec' = [iexec EXCEPT ![t] = IF job.fresh THEN Fresh ELSE @]
       /\ frames' = [frames EXCEPT ![t] = <<Frame(job.table, 1, 0, FALSE)>>]
  /\ jobs' = [jobs EXCEPT ![t] = Tail(@)]
  /\ parsed' = [parsed EXCEPT ![t] = [o \in DOMAIN rom.code |-> 0]]
  /\ UNCHANGED <<rom, execute, booted, calls, dead, hw>>

\* The table has been run.
End(t) ==
  /\ run[t] # Null /\ frames[t] = <<>>
  /\ run' = [run EXCEPT ![t] = Null]
  /\ IF run[t].locked THEN output' = Null /\ lock' = Null
                      ELSE UNCHANGED <<lock, output>>
  /\ UNCHANGED <<rom, execute, booted, jobs, iexec, frames, calls, dead, parsed, hw>>

\* The end of nouveau_bios_init: later scripts are executed.
Booted ==
  /\ ~booted /\ run[Boot] = Null /\ jobs[Boot] = <<>>
  /\ booted' = TRUE /\ execute' = TRUE
  /\ UNCHANGED <<rom, output, lock, jobs, run, iexec, frames, calls, dead, parsed, hw>>

Idle(t) == booted /\ run[t] = Null /\ jobs[t] = <<>> /\ calls[t] < MaxCalls
Call(t, js) ==
  /\ jobs' = [jobs EXCEPT ![t] = js]
  /\ calls' = [calls EXCEPT ![t] = @ + 1]
  /\ UNCHANGED <<biosvars, run, iexec, frames, dead, parsed, hw>>

\* The display code sets an output up or down.
nouveau_bios_run_display_table(t, out, sub, pxclk) ==
  /\ Idle(t) /\ DisplayScript(out, sub, pxclk) # 0
  /\ Call(t, DisplayJobs(out, sub, pxclk))

\* DisplayPort link training and the power management run scripts of their own.
nouveau_bios_run_init_table(t, table, out) ==
  /\ Idle(t) /\ Call(t, <<Job(table, out, TRUE, TRUE)>>)

Step(t) == t \notin dead /\ (Begin(t) \/ Parse(t) \/ Return(t) \/ End(t))

Next ==
  \/ Booted
  \/ \E t \in Threads :
       \/ Step(t)
       \/ \E out \in Outputs :
            \/ \E sub \in {0, 1}, pxclk \in PxClks :
                 nouveau_bios_run_display_table(t, out, sub, pxclk)
            \/ \E table \in rom.dp : nouveau_bios_run_init_table(t, table, out)
       \/ \E table \in rom.pm : nouveau_bios_run_init_table(t, table, Null)

Spec == Init /\ [][Next]_vars

\* A thread that runs a table goes on, and one that waits for the lock gets it
\* when it is free: the bound on the calls stands for the order in which a
\* mutex serves who waits.
FairSpec ==
  /\ Spec /\ WF_vars(Booted)
  /\ \A t \in Threads : WF_vars(Step(t))
-----------------------------------------------------------------------------
(* Properties                                                              *)

Runs == [table : Nat, out : Outputs \cup {Null}, locked : BOOLEAN, fresh : BOOLEAN]

\* The variables stay in their types; a block or a subroutine is entered at
\* most as deep as the frames of one table run (parse_init_table).
TypeOK ==
  /\ execute \in BOOLEAN /\ booted \in BOOLEAN
  /\ output \in Outputs \cup {Null} /\ lock \in Threads \cup {Null}
  /\ iexec \in [Threads -> [execute : BOOLEAN, repeat : BOOLEAN]]
  /\ calls \in [Threads -> 0 .. MaxCalls] /\ dead \subseteq Threads
  /\ hw \subseteq [at : DOMAIN rom.code, faked : BOOLEAN]
  /\ \A t \in Threads :
       /\ run[t] \in Runs \cup {Null}
       /\ \A i \in DOMAIN jobs[t] : jobs[t][i] \in Runs
       /\ \A i \in DOMAIN frames[t] :
            /\ frames[t][i].n <= MaxTableOps
            /\ frames[t][i].again >= 1 /\ frames[t][i].tries <= RetryMax
       /\ run[t] = Null => frames[t] = <<>>
       /\ DOMAIN parsed[t] = DOMAIN rom.code

\* "init script execution disabled" (nouveau_bios_init): on a card that is set
\* up already, loading the driver only follows the scripts; the handlers of three
\* opcodes do not look at bios->execute in all that they do.
OnlyFaked ==
  \A w \in hw : w.faked => rom.code[w.at].op \in {"AUXCH", "ZM_AUXCH", "COMPUTE_MEM"}

\* Every path through a handler that returns returns the length of its opcode,
\* skipped or not, failed or not, so that the parser stands at an opcode and the calls it
\* came from will go on at one; only an image that is cut off may be left at
\* its end (the loop of parse_init_table adds what the handler returns).
InSync ==
  TypeOK /\ OnlyFaked /\ \A t \in Threads : \A i \in DOMAIN frames[t] :
    LET f == frames[t][i] IN
    /\ f.at \in DOMAIN rom.code \cup {Ended, rom.len}
    /\ i < Len(frames[t]) =>
         LET caller == frames[t][i + 1] IN
         /\ rom.code[caller.at].op \in {"REPEAT", "SUB", "SUB_DIRECT"}
         /\ caller.at + f.len \in DOMAIN rom.code \cup {rom.len}

\* The opcodes of a table: up to the first that ends it.
Table(s) ==
  {o \in DOMAIN rom.code :
     o >= s /\ \A d \in DOMAIN rom.code :
                 d \in s .. (o - 1) => rom.code[d].op # "DONE"}
Are(os, ops) == {o \in os : rom.code[o].op \in ops}

\* A table that nothing but its last opcode ends, with no repeated block inside
\* another, its subroutines included.
MayEnd == {"BAD", "COMPUTE_MEM", "CONFIGURE_MEM", "CONFIGURE_CLK",
           "CONFIGURE_PREINIT", "I2C_IF", "I2C_LONG_IF",
           "RAM_RESTRICT_ZM_REG_GROUP"}
Plain(s) ==
  /\ Are(Table(s), MayEnd) = {} /\ Are(Table(s), {"DONE"}) # {}
  /\ \A o \in Are(Table(s), {"SUB", "SUB_DIRECT"}) :
       Are(Table(rom.code[o].to), {"REPEAT", "SUB", "SUB_DIRECT"}) = {}
  /\ \A r \in Are(Table(s), {"REPEAT"}) :
       LET ends == {e \in Are(Table(s), {"END_REPEAT"}) : e > r}
       IN ends # {} /\ Are(Table(s), {"REPEAT"}) \cap (r + 1) .. Min(ends) = {}

\* How often a repeated block is run, 1 outside of blocks.
Times(s, o) ==
  LET r == {b \in Are(Table(s), {"REPEAT"}) :
              /\ b < o
              /\ Are(Table(s), {"END_REPEAT"}) \cap b .. (o - 1) = {}}
  IN IF r = {} THEN 1 ELSE Max({1, rom.code[Max(r)].n})

\* A block between REPEAT and END_REPEAT is run as often as its count says,
\* once for 0, and what is before and after it once, however its conditions
\* come out (init_repeat and init_end_repeat share a flag; blocks inside
\* blocks are not covered).
BlocksRepeat ==
  \A t \in Threads :
    (run[t] # Null /\ frames[t] = <<>> /\ Plain(run[t].table)) =>
      \A o \in Table(run[t].table) : parsed[t][o] = Times(run[t].table, o)

\* While a script runs for an output, the handlers see that output, and none
\* when no such script runs: bios->display.output is one for all threads and is
\* guarded by bios->lock (nouveau_bios_run_init_table).  So a handler misses the
\* output, and its thread dies, only in a table that is run for none: the init
\* tables, the script after them, those of the power management.
OwnOutput ==
  /\ lock = Null => output = Null
  /\ \A t \in Threads :
       (run[t] # Null /\ run[t].locked) => lock = t /\ output = run[t].out
  /\ \A t \in dead : run[t] # Null /\ run[t].out = Null

\* Every table that is called for is run and comes to its end, and the driver
\* gets through loading: blocks are repeated finitely often, a condition is
\* waited for a bounded number of times, and the lock is given back; unless the
\* thread, or the one that has the lock, died for want of an output.  Tables
\* that call themselves, whose depth the code does not bound, are left out.
RunsEnd ==
  \A t \in Threads :
    (run[t] # Null \/ jobs[t] # <<>>)
      ~> (\/ run[t] = Null /\ jobs[t] = <<>>
          \/ t \in dead \/ lock \in dead)
=============================================================================
