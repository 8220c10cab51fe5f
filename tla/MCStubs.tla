------------------------------ MODULE MCStubs ------------------------------
(* Words of every kind Classify tells apart, addresses and deltas whose halves   *)
(* carry, and modules in reach of the site, at the ends of a branch's reach, and  *)
(* out of it.                                                                    *)
EXTENDS Stubs

MCWords ==
  {Addi(3, 3, 8), Lis(3, 0), Ori(3, 0), Lwz(3, 1, 8), Lwz(3, 3, 8), Stw(11, 1, 8), Stwu(1, 1, -16),
   Addi(11, 11, -4),
   Spr(339, 0, 8), MtLr(3), Spr(339, 3, 9), MtCtr(3), Bctr,
   [Blank EXCEPT !.op = 19, !.xo = 193],                          \* crxor
   [Blank EXCEPT !.op = 19, !.xo = 16],                           \* blr
   [Blank EXCEPT !.op = 19, !.xo = 16, !.cond = TRUE],            \* beqlr
   [Blank EXCEPT !.op = 19, !.xo = 16, !.dec = TRUE],             \* bdnzlr
   [Blank EXCEPT !.op = 18, !.imm = 292],                         \* b
   [Blank EXCEPT !.op = 18, !.imm = 292, !.link = TRUE],          \* bl
   [Blank EXCEPT !.op = 18, !.imm = 1193048, !.abs = TRUE],       \* ba
   [Blank EXCEPT !.op = 18, !.imm = 1193048, !.abs = TRUE, !.link = TRUE],
   [Blank EXCEPT !.op = 16, !.imm = 20, !.cond = TRUE],           \* beq
   [Blank EXCEPT !.op = 16, !.imm = 65516, !.dec = TRUE],         \* bdnz
   Blank, [Blank EXCEPT !.op = 17]}                               \* 0, sc

MCReplacements == {DForm(24, 0, 0, 0), Addi(11, 11, -4), [Blank EXCEPT !.op = 18, !.imm = 292]}

\* 0x1000FFF0 and 0x10008004, whose halves carry at once or with the delta.
MCLinked == {268500976, 268468228}

\* Not moved, moved within a half, and by more than one.
MCDeltas == {0, 32768, 98304}

\* Names end in a kind, after what tells them apart.
Title(text, size) == [name |-> <<"title", "rpx">>, text |-> text, size |-> size]
Other(text)       == [name |-> <<"other", "rpl">>, text |-> text, size |-> 4096]
Unnamed(text)     == [name |-> NoName, text |-> text, size |-> 4096]

Place(at, pool, modules) ==
  [site |-> at, pool |-> pool, modules |-> modules, executable |-> <<"rpx">>, byPhysical |-> FALSE,
   byAddress |-> FALSE, physical |-> TRUE, title |-> TRUE]

ByPhysical(place, mapped) == [place EXCEPT !.byPhysical = TRUE, !.byAddress = TRUE, !.physical = mapped]

MCPlaces ==
  \* in reach, 0x02100004 to 0x02B0A000; more modules than the array holds
  {Place(34603012, 45129728, <<Other(16777216), Title(34603012, 4), Other(50331648)>>),
   \* -0x02000000 away: the lower end; submitted by its physical address, and so
   \* whatever else is loaded
   ByPhysical(Place(34603008, 1048576, <<Unnamed(16777216), Title(33554464, 4194304)>>), TRUE),
   \* 0x01FFFFFC away: the upper end; no physical address
   ByPhysical(Place(45129732, 78684160, <<Title(45129696, 40)>>), FALSE),
   \* one word too far; a module without a name
   Place(45129728, 78684160, <<Title(45129696, 4096), Unnamed(16777216)>>),
   \* too far, but below 0x02000000; another title than the gate's
   [Place(78684160, 11534336, <<Title(78643200, 65536)>>) EXCEPT !.title = FALSE],
   \* just past the text; the title not loaded
   Place(34603012, 45129728, <<Title(34603004, 8)>>),
   Place(34603012, 45129728, <<Other(34603008)>>)}
=============================================================================
