# Rustcraft, modelled in TLA+

Rustcraft is a Minecraft bot library: a client for the Java Edition protocol,
a bot with an inventory, crafting and path finding on top of it, and readers
and writers for the world format on disk. This directory holds TLA+ modules of
the parts that keep state, TLC configurations that check them on small
instances, and TLAPS proofs about the ones whose properties matter for every
size. Paths below are relative to the repository.

## The system

| part | code | state it keeps | operations |
|---|---|---|---|
| connection | `src/protocol/client.rs`, `framing.rs`, `compression.rs`, `encryption.rs`, `states.rs` | protocol state, compression threshold, cipher pair, splitter tail, queue of raw packets | connect, login, write, next_packet |
| packet codec | `src/protocol/codec.rs`, `value.rs`, `mod.rs`, `component.rs`, `src/varint.rs`, `src/nbt.rs` | none (interprets a schema) | read, write |
| bot | `src/bot/mod.rs` | own entity, health, controls, last sent position, entities, world, windows | drive_tick, packet handlers, dig, place_block, goto |
| bot inventory | `src/bot/inventory.rs`, `crafting.rs` | player inventory, open window, revision counter | click_window and what is built from it, open/close, craft |
| window | `src/window.rs`, `src/item.rs` | slots, cursor | accept_click and its helpers |
| world | `src/world/world.rs` | columns, saving queue, events | get/set column, block and light setters, unload, save_all |
| anvil | `src/anvil/region.rs`, `mod.rs`, `chunk_nbt.rs`, `level_dat.rs` | open region files, offset table, free-sector map | open, read_chunk, write_chunk |
| chunk containers | `src/chunk/*` | palettes and bit arrays | get, set, read, write |
| path finding | `src/path/*` | open and closed sets, heap; the moves and the goals keep none | compute, neighbors, heuristic, is_end |
| physics | `src/physics/*`, `src/vec3.rs` | none between ticks | simulate_player |
| remote console | `src/rcon.rs` | request id, socket | connect, command |
| authentication | `src/auth.rs` | token cache file | get_msa_token, authenticate |
| tables | `src/registry/*`, `recipe.rs`, `block.rs`, `chat.rs` | built once | lookups |

How they interact. Everything is single-threaded `async`: the program calls a
bot function, and every bot function that has to wait runs `drive_tick`
(`bot/mod.rs:240`), which takes one packet from the connection and runs its
handler, or runs a physics tick when 50 ms have passed. So handlers run *inside*
the bot functions, between any two of their awaits: the concurrency of this
code is that interleaving, with a server that sends what it likes when it likes.
The bot owns a `World` without a store, a player `Window` and at most one open
one. A `World` may also be used with an `AnvilWorld` as its store, which caches
one `RegionFile` for each file it has touched.

What is hard: packets that switch the codec while others are already buffered
behind them; a socket that cuts the stream anywhere; window clicks predicted
locally and corrected later; a region file whose tables, in memory and on disk,
are updated by several writes any of which may fail or be the last; saves that
fail in the middle of a queue. `PROJECT.json` lists each hazard at its line.

## Modules

| module | models | checked by |
|---|---|---|
| `ProtocolClient` | the connection, with the server it talks to | `MCProtocolClient`, proofs in `ProtocolClientProofs` |
| `ChunkStore` | abstract: a store of chunk versions, writes that may fail | as refined by `RegionFile`, and as the store under `World` |
| `RegionFile` | one region file, in memory and on disk | `MCRegionFile`, proofs in `RegionFileProofs` |
| `BitArray`, `PaletteContainer` | packed arrays of values, and the containers of a section | through `ChunkColumn` |
| `ChunkColumn` | a column: blocks, biomes, light, its network format and storage | `MCChunkColumn` |
| `World` | columns, saving queue, events | `MCWorld`, proofs in `WorldProofs` |
| `Items` | the items that windows hold: stacks and how they are compared | through `Window` and `BotInventory` |
| `Window` | click simulation | `MCWindow`, proofs in `BotInventoryProofs` |
| `BestFirst` | abstract: a best-first search over a map | as refined by `AStar`, proofs in `BestFirstProofs` |
| `AStar` | the incremental A* search with its heap and arena | `MCPathFinding`, on maps of six places; proofs in `AStarProofs` |
| `Movements`, `Goals` | the moves of a place in a world of blocks; what a search is for and how far it is | through `PathFinding` |
| `PathFinding` | `AStar` with the map that `Movements` makes of a world, and the world as a path is walked | `MCPathFinding`; proofs in `AStarProofs` |
| `GoalSearch` | a search put together from a world and a goal of `Goals` | through `MCPathFinding` |
| `Navigation` | walking, digging and placing, with a server that teleports the bot and changes blocks | `MCNavigation`, proofs in `NavigationProofs` |
| `BotInventory` | the bot's windows, its inventory functions, the server's menus; clicks are those of `Window` | `MCBotInventory`, proofs in `BotInventoryProofs` |
| `BotSession` | what the bot learns of the game: chunks, block changes, entities, health, respawns | `MCBotSession`, proofs in `BotSessionProofs` |
| `Bytes`, `Nbt` | numbers and varints of a width; the three NBT formats and their detection | through `Codec` |
| `Codec` | reading and writing a value by its schema | through `PacketCodec` |
| `PacketCodec` | a packet, or an NBT file, that is written, carried, read and written again | `MCPacketCodec` |

### ProtocolClient

Both directions of the socket are logs (`sent`, `replies`) with read offsets, so
that a packet can carry how it was encoded and a property can compare that with
how it is decoded. `extracted - handled` packets are `raw_queue`;
`partial` says that `splitter.buffer` holds a beginning of the next one. `Read`
is one `read_more`: it may deliver any number of whole packets and the
beginning of one more. The handlers (`HandleHello`, `HandleCompression`, ...)
are the branches of `login` and `handle_play`; `next_packet` answering keep-alives
by itself is part of them. The server (`Server...` actions) is external: it
sends what the protocol allows and waits where the protocol has a gate.
`Legacy` is the branch for protocol versions below 764.

### RegionFile and ChunkStore

`phase` is the program counter of `open` and `write_chunk`; each file operation
(`PutOffset`, `Grow`, `PutData`, `Link`, `Stamp`, ...) is a step that may fail
(`Fail`) or be the last one of the process (`Stop`). Memory (`offsets`, `free`,
`sectors`) and file (`size`, `dOffsets`, `data`) are separate. A sector holds
[chunk, version, part, number of parts]; reading a chunk back succeeds when its
run holds the parts of one version of that chunk. A file whose creation was interrupted makes the next `open` panic
(phase "panicked").

`AnvilWorld` keeps the handle after an error (`anvil/mod.rs:42-49`), and so does the model: what memory holds when a file
operation fails stays as it is. That does harm when the failure comes after `write` has given back the chunk's old run and before the new one is
named on disk (`Relocating`): the free map then offers sectors that an offset in memory still names. The history variable `trust`
tells the states apart: "hurt" after such a failure, "sound" again when the file is opened anew, and "lost" once
`write_chunk` has been called on a hurt handle. `ChunkStore` is the promise: one value for each chunk, unknown only while, or after, a
write of that chunk did not complete, and no promise left for any chunk when `trust` is lost. So `region` shows what a caller
may count on, and `region_kept` what it may not, though `AnvilWorld` does: that a chunk whose save returned `Ok`
keeps what was saved (`SavesLast`).

### BitArray, PaletteContainer and ChunkColumn

The longs of an array are numbers and the bit operations of the code are division and
remainder, so a value of the wrong width or place spoils its neighbours here as it does in the
code. A container is a record of its kind; `SetValue` converts it as `set` does, and
never back. The network format is a sequence of numbers in which `Load` finds its way by offsets
alone. A place is a height and a cell of a layer; `BlockIndex`, `BiomeIndex` and
`LightSectionOf` are the code's arithmetic with other sizes. The state machine edits a column,
receives light, is sent (`Transfer`: what arrives is looked at from then on) and is saved and
read back (`SaveAndLoad`).

`from_long_array` takes the capacity of an array from its longs, so that the spare places of the last long count as
values: 4104 or 4100 of them instead of 4096 at five, six and seven bits. The longs of the instance have four bits,
and at one bit the six values of a section leave two such places. Widening an array like that may need one more long than
its values do (`Excess`); sent without array lengths, that long is taken for the beginning of the next container. The history variable
`from_storage` says when that can happen: `TransferKeeps` holds of every column but one that was read from storage and
widened since (`Misread`), and `Transfer` is not followed into what such a reader makes of it. The run reaches it.

Direct containers are not saved in `column`
(`SavesDirect`), as the run `column_save` shows what happens then. Light that is
set in a section which the server declared empty is outside the mask: it is not
sent, which `TransferKeeps` allows. The constraint `Apart` follows light only in a column without edits, as no action relates the two.

### World

Columns are versions; a call that saves (`unload_column`, `save_all`) takes
several steps because the provider does; everything else is one step, as a
`World` is borrowed mutably by one caller. The provider is `ChunkStore`, with
the same actions that `RegionFile` refines; like `AnvilWorld`, `World` goes on saving after a save has failed, so the
provider's promise may end (`trust`), and `NoEditLost` and `SaveAllSaves` are then about what `World` itself does.

### Window

Click handlers are operators from [slots, cursor] to [slots, cursor], in the
order of the code, so that `BotInventory` can use the same ones for the bot's
prediction and for the server. `supply` counts what came into the window
and what was thrown out.

The layouts are those of containers and of the player's own window. In the latter the section's end that `window.rs:343` compares
with and the one that `bot/inventory.rs:39` gives do not fit: a stack that is shift-clicked in the hotbar, or in the last slot of
the main section, goes to a range that it is in itself, and is poured onto itself. What is lost by that is `Spilled`, computed from the window
before the click; `ItemsConserved` counts it as gone and nothing else. `ShiftClickCrosses` says for that window what the
ranges of the code make of sections: from its hotbar only slots outside both are left alone (`Beside`). The proved conservation,
`ClicksConserveItems`, is for containers.

### BotInventory

`call` is the bot function that is running and where it is: every click ends in a
wait, so each function is a chain of actions (`CallMove`, `MoveTo`, `MoveBack`).
While it waits the `Handle...` actions run (`Driving`): they are the branches of
`handle_packet`. A wait may end at any time, by an update or by its timeout, so
the timeout needs no clock. A window has one slot of its own and an inventory
section of which the last slot is the hotbar; `At` maps slots to places, so that a
chest's slot and the grid's are different ones. The server applies clicks with
the same operators, keeps what it believes the bot shows (`shown`), and sends
the difference, or everything when the click names an old state id. `Stocks`
and `Contents` bound what there is: one type of item, with a name and without. With two stacks that differ in that,
`put_selected_item_range` (`bot/inventory.rs:118-126`) swaps them for ever, as it looks for a stack of the same type and the click compares
components too. `EveryCallReturns` says that this is the only way: every call returns, or such a swap (`Swaps`) comes
again and again. The run contains the swap; the constraint `FewSwaps` follows it for two rounds, which is when the states of the bot repeat.

The server's cursor is modelled, and the bot's; nothing brings them together again, as
no handler takes `carriedItem` or `set_cursor_item`. So a click on a slot that the bot
takes for empty may leave the server with an item on the cursor and the bot with none,
whatever `crafting.rs:191` says of the window being re-synchronised; properties are stated for slots.

A disconnection ends the waits like a timeout; the functions then return in the
same way, so it is not an action of its own here.

### BotSession

`bot` is what `handle_packet` keeps, and each branch is an operator on it; `Handle` is the
dispatch. So what the bot *will* know is what handling the packets under way in their order makes of it (`Caught`, a recursive
function over them), and the properties compare that with the server in every state, not only when the line is empty.
A column is a section for each level of a dimension. The bot reads every chunk with the levels of
the dimension it takes for granted (`Home`: `min_y` and `height` are set in `connect` and never again): a chunk
with fewer sections makes the reader panic, which `handle_chunk` catches, and is dropped
(`ChunkLoads`). `respawn` clears nothing, so `left` remembers what was in view then, and
`KeepsOnlyWhatItLeft` says that no more than that outlives the server's view. The server
sends chunks in batches and waits for their acknowledgement; health may be told again at
any time, and a player may be dead when it joins.

`held_slot` is left out: a slot that the server sets and one that the bot has just chosen cross, and nothing settles them.
So are time, spawn point and game mode, which are copied from a packet and used by the program only. Relative teleports of
entities do not occur in the model; the code treats every one as absolute.

### Navigation

The world is a line of cells with the bot in one of them; what a physics tick does is a
choice: it moves the way the keys say, slides on, or stays, but never into a block. `heading` is
`control_state`, `pc` says which function waits and where, `left` counts the rest of a wait
as the code does: ticks in `wait_ticks` (`Ticks`), steps of `drive_tick` in `dig`
(`Drives`). Times are choices (`FollowTimesOut`, `MineEnds`, the stuck case of `Walking`,
a search's timeout in `Searched`); only whether digging takes four seconds is told apart (`Hard`).
A position stands for the look as well: `last_sent` is cleared by a teleport, so what is sent after it
is sent even if nothing moved. The server believes the bot where it last let it be,
ignores moves until its teleport is accepted, checks reach, may break or place
without an echo (`silent`), or refuse and tell. `guessed` are the blocks the bot set itself
since it was last told of them; `TellingIsBelieved` says how far the two worlds may differ, and
that is as far as it goes: the guess after a dig (`Predict`) overrides a refusal which
arrived while the dig waited, and a slow dig without an echo leaves the block in the bot's world.

Two things that one could expect are not so. The comment of `last_teleport` (`bot/mod.rs:146`) says that
digs wait for it to be stale, but `dig` never looks at it; what keeps a dig within reach is only the
short wait (`Settle`), and a teleport right after it has the dig refused. And `goto_goal` returns
true after two more ticks, in which the bot may slide or be moved away from the goal.

### BestFirst and AStar

`BestFirst` says what a search over a map (a start, ends, moves with costs, an
estimate of the rest, a limit) does without saying how it finds the next place.
`AStar` is `compute`: the arena `nodes`, the binary heap of arena indices with the
pointers back, `open_map`, `closed` and `best`. One round of the loop is one step;
`SliceEnds` is a budget that is used up, and `Compute` the next call. The map between
the two takes the places in the heap as the open ones. Costs are integers (hundredths), where
the code adds floating point numbers; an estimate may be negative. The loops inside a round (those of
`bubble_up`, `sift_down` and over the neighbours) are recursive functions of the number of their
rounds, so that proofs can speak of the state after each.

### Movements, Goals, PathFinding and GoalSearch

A world is a record of columns of block kinds, one for each answer that `query` can give, and a configuration.
Each `move_...` of the code is an operator that returns the sequence of moves it pushes, in its order, and
`Neighbors` is the concatenation. Costs, the cells that are looked at and
the order of the checks are the code's; a fall is looked into eight blocks deep (`FreeFall`) where the code looks 256, which is
deeper than any modelled column. `Goals` has every goal that is arithmetic. `PathFinding` says which
map a world is (`WorldsAssumption`), and `GoalSearch` makes the search of a
world and a goal; the map is computed once, as the code's cache of queries has it. Moves that leave
the loaded blocks are not followed.

The properties are about the path, which is a sequence of moves judged one by one in the *old* world: `PathIsWalkable` and
`DigsHoldBack` replay it in a world that its own digging and placing change. After each move the cells of feet and head must be
`Safe` (no block, no lava, nothing to be avoided), and the bot must stand on a block or be in or on water (`Supported`; lava does not count).
The code does not keep that everywhere. What it misses is in the property by name, each of these occurs in the run `search`, and without any one of them
the run fails:

- `FallsInLava`: `move_diagonal` (`movements.rs:364`) asks of a cell it falls into whether it is liquid, not whether it is lava, where the
  comment at `movements.rs:155` says that lava is never passable. The straight drop does ask.
- `Overlooked`, below a ledge: every drop begins to look two cells below the place it steps to. The cell between is only known not to be solid, so the bot may
  come through, or come to a stop in, a fence or a web.
- `Overlooked`, above the head: `move_swim_up` does not look at the head.
- `Overlooked`, where the bot is: `move_up` looks at the cell two above the feet and not at the one between; under a ceiling that the bot
  has swum up against (`sump`) it builds up into it. And `move_down` falls within its own column.
- `DugBefore`: a place over a block that the path itself has dug further down may have nothing below it, as
  the search goes on as if the block were there.
- `BuiltBefore`: a path may come back with its head in what it has built.

Further things that the moves do, which one might not expect:

- `move_drop_down` and `move_down` look for solid ground as deep as for a liquid, so that `max_drop_down` bounds only diagonal drops, whatever
  `bot/mod.rs:136` says of the bot's configuration.
- `move_parkour` looks only at the upper cells it jumps through.
- A cell that is not loaded counts as breakable.
- `octile` is called admissible (`goals.rs:7`); with heights it is not, as one drop may lead down several blocks at half a unit each.

### Bytes, Nbt, Codec and PacketCodec

`Codec` is the interpreter: `Read` and `Write` dispatch on a schema and call each other through the types, with
the stack of enclosing compounds that a switch or a count looks into (`Resolve`). A byte has
`ByteBits` bits and a number as many bytes as the constants say, and everything that depends on a width is computed from
them, so a small instance meets every boundary: the varint's last byte, the sign, the
top bit of an element of a top-bit-set array. Values are those of `PValue`, with one kind for numbers
(integers of every width and the bits of floats). Names (of a mapping or field) and texts are told
apart, a text is a sequence of one-byte characters and the replacement character. `PacketCodec` is the life of one
packet: written, perhaps cut short, extended or changed on its way, read, and written again from what was read.

Two shapes of the schema are not carried as one would expect, and the instance has both. An option of a bool
(`correctDropForBlocks` of the component `tool`) is written as absent when it is false (`codec.rs:777`), so `ReadsBack` and
`RereadsTheSame` compare with what is left of the packet then (`Told`). And `anonOptionalNbt`
(`packet_tag_query`, `packet_block_entity_data`, the lines of `lore`) takes the end of the buffer for no NBT (`codec.rs:192`), so a packet that ends with
it and is cut there is read, without it: `CutIsRefused` allows exactly that (`LosesNbt`) to the packets that may end so (`OpenNbt`),
as it allows lists without a count to be shorter (`Shortened`).

What it abstracts: counts are native types; an anonymous field of a container is always
a container; the id of an entry is not the largest number (where the code adds one to it); the code clamps an lpVec3 to its largest value
before it writes it. An lpVec3 is rounded when it is written, so packets with one (`Rounded`) are exempt from being re-read exactly.
A negative count of a holder set ends the reading task (`Panic`), as the code asks for room for that
many entries first (`codec.rs:491`); for one that is merely too large the model has the error that follows.
Compression of NBT files is left out. The detection of a file's format is a heuristic: a file whose
first bytes happen to be a name of the wrong length for another format may be taken for that one, and a root
without a name takes the branch for the bedrock header; the files of the run are shorter than such a
misread name and have names.

## Runs

Bounds are constants of the configurations; `PROJECT.json` says for each run
which properties it checks. Every property of a passing run has a mutant: a
plausible mistake in a definition, kept beside it in its module, under which
the property fails. Mutants are marked in their comments and used nowhere else.

| run | bounds | shows |
|---|---|---|
| `connection` | 2 packets besides the login sequence, one compression threshold and none, encryption or not | packets are decoded as sent, boundaries are kept, the server understands, keep-alives are echoed, every packet is taken |
| `region` | 2 chunks, sizes 1 and 2, runs of at most 2, 6 sectors, 2 versions; one write on a hurt handle (`OneMoreWrite`) | runs inside the file, no shared sector and an exact free map while the handle is not hurt, refinement of `ChunkStore` |
| `region_kept` | as `region`, without that bound | *violation*: a chunk that was saved is overwritten by the save of another through a handle kept after an error |
| `column` | 2 sections of 2 layers of 3 cells, longs of 4 bits with places to spare, palettes of 2, then 4 values, then direct; a received column or an empty one; light apart from edits (`Apart`) | every edit changes one place, counts stay exact, saving keeps everything, and so does sending but for a column read from storage and widened, without array lengths |
| `column_save` | as `column`, also direct sections saved | *violation*: a direct section is read back as other values |
| `world` | 2 chunks, 2 versions, 2 pending events | no edit lost, events tell the loaded columns, save_all saves |
| `window` | a chest, a crafting table and the player's window, 2-slot hotbar, a stackable type in two variants and an unstackable one | conservation but for what is poured onto itself, stack limits, components never merged by the mouse, shift-click crosses sections |
| `search` | maps of 6 places with three estimates (none, consistent, inconsistent on some maps), radius or none; and worlds: corridors, squares and gaps of 2 to 5 columns of 23 kinds and 8 blocks, two configurations, every kind of goal | the heap is one, paths are real, as close as any seen or cheapest when estimates are consistent, refinement of `BestFirst`; paths through worlds can be walked but for the cells named above, and their digging holds back water, lava and sand |
| `inventory` | 2 calls of the bot, 1 change by the server, 1 container, section of 2 slots, items with a name and without, swaps for two rounds (`FewSwaps`) | slots agree when all has arrived, a confirmed window is the server's, every call returns or swaps for ever |
| `navigation` | 3 cells, a soft or a hard block in the middle, 2 calls, 1 change and 1 teleport by the server besides the first, 2 packets under way to it | positions and blocks agree but for what is under way or guessed, nothing is left pressed or half dug, no failure at the goal, every call returns |
| `session` | 2 chunks, 1 entity, a dimension of two levels and one of one, 3 kinds of sections, health up to 1, 3 changes, 2 packets under way before the server waits, 1 batch not acknowledged | the bot shows what is there once it has caught up, nothing more than what it left in a respawn, tells every death once; all chunks come |
| `codec` | bytes of 4 bits, numbers of 2, 4 and 7 bytes; 12 kinds of packets with every field type, in nestings that the schema has, and NBT files in 3 formats; every cut, every change of a byte, 3 tails | what is written is read, what is cut is refused, what is read can be written, but for a false option and NBT at the end |

Why the bounds are enough. `connection`: every packet has to be buffered behind
a packet that switches the codec, and two packets beside the login sequence give
one before and one behind each switch. `region`: a chunk can grow, move, shrink and
leave a gap the other one fits in; six sectors are the header and room for two chunks to
move once more than they need. Chunks and versions are symmetric: no definition and no property tells one from the other, and there is no liveness. `column`: every width of the palette, each
conversion, two longs or more per section at every width, places to spare at one bit and an edit in each section and outside occur. `window`: one more type or slot only repeats a
case of a helper. `inventory`: two calls are enough for a container to be opened
and clicked in, or closed, while packets of the first call are under way. `navigation`: three cells are a start, a
block to dig on the way and a goal behind it; two calls let a packet of the first one arrive in the
second; one teleport and one change besides hit every wait of every call. `session`: three changes are a chunk
taken back and sent again around a change of dimension, or a block that changes while its chunk is under way and a
death before it arrives. `search`: a corridor has a start, an obstacle, one behind it and an end, and a jump
of four needs five columns. `codec`: the fields of a packet are independent but for contexts, which reach at most two
levels up here as in the schema.

Deadlock is not checked where the modelled actors may simply be done: bounds on
calls and packets are used up (`connection`, `window`, `inventory`, `navigation`, `session`), or where there is
an end (`search`, `codec`).

Fairness. `connection`: the task reads, handles what it read, and notices the end
of the socket, because the program polls it (`WF` on `Read`, `SocketEnd`,
`Handle`). The server owes nothing. `inventory`: each wait of the bot has a
deadline and each function continues after its wait (`WF` on `Continue`); the
server owes nothing here either, all calls return even if it is silent (but for the endless swap). `navigation`:
the bot's task runs (`WF` on `Work`), clocks go on (`SF` on `Timers`: a wait inside a walk or a dig
disables its deadline for a moment, but not for ever), and the server reads its socket
(`WF` on `Taking`), as a write to a full socket waits without a deadline. `goto_goal`'s own
timeout is not assumed to pass: the retries alone end it. `session`: the bot's program keeps calling `drive_tick`
(`WF` on `HandlePacket`), and the server takes what it is sent and goes on sending chunks in view (`WF` on
`TakePacket` and `SendsChunk`).

## Proofs

All theorems hold for every value of the constants under the assumptions the
modules declare (`ThresholdsAssumption`, `SizesAssumption`, ...). `PROJECT.json`
lists the results; the lemmas are in the same modules.

*Connection* (`ProtocolClientProofs`), for protocol versions from 764 on
(`~Legacy`; the repository's schema is that of version 775). The safety
properties are not inductive: whether the packet at the head of the queue decodes
depends on what the server knew when it sent it. The invariant `IInv` adds
`Offsets` (the order of the four offsets), `Opening` (which of the two sides has
done what before the login), `Agreement` (the client's settings and the server's are equal, or
differ in exactly the switch that is under way), `Inbound` (every untaken packet is
encoded for the settings the client will have when its turn comes),
`Compression` (at most one unhandled switch) and `Outbound` (the same for
unserved replies). Gates are the heart of the proof: a packet that waits for an answer
is the last one in the log until the answer comes (`NoGateUntaken`,
`NoGateReply`). That every keep-alive is answered once and in order, but for one whose answer cannot be written
(`EveryKeepAliveEchoed`), needs `Echoed` besides: no answer refers to a packet that is still to come.

*Region file* (`RegionFileProofs`), with the handle kept after every error. `Framed` holds for ever: the types, and that every
run named by an offset or being written lies behind the header and inside the file. `Sound` holds until `trust` is lost, and says
how memory and file differ in each phase:
`Tables` (runs in both tables are disjoint), `Lengths`,
`Agree` (while the handle is not hurt, the tables are equal but for the entry being written), `Placement`
(the run being written is nobody else's), `FreeExact`, `Progress` (which parts are
written). `IInv` is the one and, unless lost, the other. From it follow the two safety properties, and that each step maps to a
step of `ChunkStore` or a stutter (`NextRefines`): `BeginWrite` to `Begin`, `Stamp` to
`Finish`, `Fail` and `Stop` to `GiveUp`, and `Stop` on a hurt handle to `Reopen`.

*World* (`WorldProofs`). `NoEditLost` and `EventsTellLoaded` become inductive
together with `Calling` (what a saving call has begun to write) and `Visited`
(what a save_all has done so far). `SaveAllSaves` is an action property that
follows from them.

*Search, abstract* (`BestFirstProofs`), for any map and any consistent estimate. The heart is
`Escape`: a walk that ends outside the closed places leaves them somewhere, and
there an open place promises no more than the walk costs, as estimates do not
fall along a walk (`AlongWalk`, by the least counterexample instead of an induction).
It needs `Frontier` (every move out of a closed place is accounted for) and `ClosedCheapest` (closed
places have the cost of a cheapest walk), which it in turn keeps. The estimates of the
code are not all consistent: `octile` counts every block of height as a
unit, and dropping costs less. What is proved holds for the goals whose estimate
is.

*Search, detailed* (`AStarProofs`), for any searches whose maps are well formed (`SearchesAssumption`; for the first
two results nothing more, no consistency either). The invariant `AInv` says of the heap that it holds indices of the arena, that each
node of it knows its own position (`Placed`) and that no node comes before its parent in the heap (`Ordered`, which
is `HeapOrdered`). It says of the arena that
it is a tree (`Tree`): a place has at most one node, which `open_map` names unless the place is closed (`Opened`); a node carries the
estimate of its place (`Valued`); `best` is a node with the least estimate (`Closest`); a node hangs under one whose place is closed, at the
price of a move of the map (`Family`); and each has a path from the start that its parents spell out (`Paths`: the
paths are a witness, which replaces an induction along `parent` and makes it plain that no node is its own
ancestor). And heap and `open_map` hold the same nodes, but for the one that was found. Without the last, an `update` could move
a node that is no longer in the heap; without `Family`, a node of `open_map` could be given a
parent that hangs below it. `bubble_up` starts on a heap that is in order except where a node may be too
small for its place (`TooLow`), `sift_down` on one where it may be too great (`TooHigh`); each round moves that place up or down. The loop over the
neighbours keeps `Tree`, the heap, and the prices of the places already looked at (`Priced`).
`HeapStaysOrdered` and `EveryPathIsReal` follow.

`SearchIsBestFirst` is the refinement: `ExpandNode` is `Expand`, `FindGoal` is `Find`, `NoPath` is `Exhausted`, a timeout is
`RunOutOfTime`, and the beginning and the end of a call or of a budget are stutters. What is proved of `BestFirst` is then carried over by an
instance of `BestFirstProofs`: for searches with consistent estimates, a path that is returned costs no more than any
walk to an end (`SearchFindsCheapest`), and `noPath` means that no end is within
reach, or within the search's radius where it has one (`SearchMissesNone`). Heap and
positions matter here: the node that is expanded is the first of the
heap, and that it promises the least of all open places is `Ordered`, followed up to the root.

`CheapestIsFound` closes the circle with the reference that the run compares the search with, `WalkCosts`, for finitely many
places: each pair of the reference is what some walk costs (`OfWalks`), the moves of all pairs but the newest have been made
(`Explored`), and so after `k` rounds no walk of up to `k` moves is cheaper (`Covers`). The path that is found never comes to
a place twice (`PathApart`), so it has fewer moves than there are places and is covered: its cost is in the reference, and
`SearchFindsCheapest` says that nothing there is less. That `noPath` without a radius means an empty reference needs no
consistency: the closed places are then all that can be reached (`NoEscape`).

*Navigation* (`NavigationProofs`), for worlds of any width and any initial blocks. `Base` (types, and where on its path
each function may be: an index is inside the path wherever it is used) is inductive by itself and
gives `FailsElsewhere`. The rest is about two queues. `BotShape` says that a step of the bot
touches what it shares with the server in one of six ways, so that the two invariants about the
server need six cases, not twenty-five. `TellingIsBelieved` becomes inductive when the last update under way of each cell
the server is not silent about is the server's block (`Believes`). `PositionsAgree` needs `Awaited`
(a teleport that is awaited is the latest, and it or its answer is under way) and `Known` (the last move under
way is what `last_sent` says, and it comes after the answer to the teleport awaited). `NothingLeftBehind`
needs `Closed`: every start in the stream has an end behind it, except while `dig` is between the two.

*The bot's inventory* (`BotInventoryProofs`), for any number of slots, stack sizes up to 64, windows, calls and changes
by the server. `SlotsAgree` speaks of the moment when both queues are empty; the invariant has to say where they
lead. `Settles` is what a queue makes of one slot: what the last packet or click about it says, or what it was before.
`Settling` says of a container that is open on both sides that one of three things holds: a click is under way whose state
id the server has left behind (`Overdue`), so that it will send everything; no click is under way, and the packets end in what the server
holds (`Answered`); or no packet is under way, and the clicks end in what the bot predicts (`Predicted`). A click of the bot turns the second
into the first when packets are still coming, a packet of the server turns the third into the first when clicks
are, and answering the last overdue click gives the second. That needs the order of the queues (`InOrder`: the
state ids in the packets rise, and a window's content follows its opening), that the server has sent
the difference to what it takes the bot to show (`Shows`), and what a window that is not yet open at the bot will show
(`Announced`). `ContentNext` gives `OpenedIsReal`. The proof uses nothing of what a click does but that it leaves
stacks (`ClickedType`), which is also `StacksStayBounded`. That a prediction is right is nowhere assumed.

*Session* (`BotSessionProofs`), for any dimensions whose levels are intervals, any blocks, entities and healths.
All three safety properties speak of `Caught`. It does not change when the bot
handles a packet, and when the server appends one, it becomes what `Handle` makes of it with that packet
(`Learned` over a sequence with one more). `Inv` is `Types`,
`Sound` of what the bot knows and will know (its fields, one of the dimensions, a health within bounds), and `Knows`, the three properties themselves about `Caught`. Each action of the server is then one
lemma about one handler: what it makes of a bot that knows all is one that knows all of the changed world. The longest are
those of a chunk that is read again from its sections (`ChunkLoads`) and of a change of blocks, whose records are applied one after the
other. `Counted` adds that the batches the server waits for are those it has sent, less those acknowledged. `BotShowsWhatIsThere`,
`BotKeepsOnlyWhatItLeft` and `BotTellsEveryDeath` follow.

*Windows* (also in `BotInventoryProofs`), for layouts of any size with any number of types and items, but not the player's own
(`Containers`; in that one a shift click's targets may include the slot that is clicked, and conservation is false). The invariant
is the conservation itself with the types. `Held` is a sum over slots; that it
changes by what its slots change by (`TotalChanges`, for one slot and two) is shown by the least
number of slots for which it would not. Above it every helper of `window.rs` is one lemma that
says what it moves between a slot and the cursor or a list of slots: `PourKeeps` for
`fill_slot_with_item`, `FillMerges` for the loop over slots, `DumpMoves` and `FillAndDumpMoves`, then each click
mode (`ShiftMoves`, `ResultMoves`, `NumberMoves`). A loop is a function of its rounds (`Looped`), each
of which leaves the total of source and targets as it was. Counting pairs of type and components instead of types gives
`ComponentsAreKept` for the mouse; `ShiftClicksCross` follows from the ranges the targets are taken from.

*Paths through worlds* (also in `AStarProofs`), for any world, configuration and place, and any depth of falls (`FreeFallAssumption`).
`NeighborsSound` goes through the eleven kinds of moves and says of each what it has looked at (`Sound`): it breaks only what is breakable
and in its way and not what it will stand on, and it is a tower or leads to where feet and head are safe, once that is broken, over something to stand
on or into water, but for what it overlooks. A fall is the longest part: each cell from the ledge to where it ends has been looked at (`AboveEnd`), in whatever order `Depth` says so. `PathApart` says that a path never comes back to a place it left, from the paths of `AInv`. `WalkedSo`
follows each cell of the world along the path: it is as it was, or dirt where a tower was built, or air where
something was broken. `PathsAreWalkable` puts them together: what was built may be where the head is, what was broken may be what it stands on, the two
exemptions that are about the path and not about a move; and liquids are never broken. `DigsAlwaysHoldBack` needs only that no cell becomes a liquid or begins to fall.

The type invariants of `connection`, `region` and `world` are in these inductive invariants and are proved, not
checked by runs of their own.

Model-checked only: liveness (`EveryPacketTaken`, `EveryCallReturns`, `EveryChunkComes`); `Nbt`,
`Codec` and `Goals`, which are recursive, and what is built on them (`PacketCodec`, `GoalSearch`): no theorem may be stated in
such a module; `ChunkColumn`, whose arithmetic is that of powers of two.

## What is not modelled, and why

- Encryption and compression as computations, how the schema is parsed, the text forms of NBT and of components, the
  registry tables, chat and recipes: data in, data out. `PROJECT.json` lists them
  with their components.
- `find_blocks`, `attack`, `dig_toward`: the first searches shells of growing distance (its comment, `bot/mod.rs`
  near 858, promises the nearest first, but a shell is not sorted, and a count of 0 yields one block); the other two aim by ray casting.
- The remote console, the server list ping and the authentication chain: one request and one answer after the
  other, with nothing else under way.
- Physics, ray casting and vectors: floating point.
- Real time. Timeouts are steps that may happen at any moment, so the results
  hold for any timing, but "within a second" is not a statement made here.
- `ensure_item`, which adjusts the local inventory after a craft, and the server's
  crafting grid: they belong to crafting (see the plan).
- Windows of id -1 and the cursor's own packets, which the code ignores.
- Physics inside `Navigation`: heights, jumps and liquids are not told apart, so that a path may be
  walked is a choice, not a result.

## Known differences

Where the code does not do what its comments or tests say, a run that contains the case either fails (`region_kept`, `column_save`) or passes with a
property that says exactly what is let off: a diagonal drop into lava (`PathIsWalkable`), the stack poured onto itself
(`ItemsConserved`), the endless swap (`EveryCallReturns`), the widened column (`TransferKeeps`), the false option (`RereadsTheSame`). They are
the findings of `PROJECT.json`. Some expectations fail in ways that no run covers:

- A crash inside `write_chunk`: the offset table is written before the data (`anvil/region.rs:175`), so that afterwards a
  chunk may read as garbage or as another one's bytes. `ChunkStore` allows an unknown value for a chunk whose write did not complete,
  and `region` shows no more than that is lost.
- A shift click that merges stacks of one type with different components, as `window.rs` compares types only there: `MouseClicksKeepComponents`
  is about the other modes.
- A drop deeper than `max_drop_down`: see `Movements` above.
- A respawn into another dimension: see `BotSession`.

## Plan

1. Done: connection, region file and store, world, window, the bot's inventory, the
   path search with its moves and goals, the chunk containers, navigation with digging and placing, the session, the
   packet codec with NBT and varints; proofs of the first, the region file, the world, the search and its refinement, the paths it
   finds through worlds, navigation, windows, the bot's inventory and the session.
2. More proofs: the container against a function of positions, with packed arrays abstracted.
3. `Crafting`: the recipe placed click by click in a table whose result the server
   computes; composes `Window` and `BotInventory`.
