------------------------------- MODULE MCPacketCodec -------------------------------
(* Packets with the shapes of protocol-schema.json, in bytes of four bits: *)
(* every field type, in nestings that the schema has.                      *)
EXTENDS PacketCodec

S(type) == [type |-> type]
Named(name) == [type |-> "named", name |-> name]
Field(name, schema) == [name |-> name, anon |-> FALSE, schema |-> schema]
Anon(schema) == [name |-> "", anon |-> TRUE, schema |-> schema]
Container(fields) == [type |-> "container", fields |-> fields]
ArrayOf(schema) == [type |-> "array", countType |-> S("varint"), of |-> schema]
Counted(schema, field) == [type |-> "array", countField |-> [up |-> 0, path |-> <<field>>], of |-> schema]
Option(schema) == [type |-> "option", of |-> schema]
Mapper(of, mappings) == [type |-> "mapper", of |-> of, mappings |-> mappings]
Switch(up, path, fields, default) ==
  [type |-> "switch", compareTo |-> [up |-> up, path |-> path], fields |-> fields, default |-> default]
Bits(name, size, signed) == [name |-> name, size |-> size, signed |-> signed]
String == [type |-> "pstring", countType |-> S("varint")]

Component ==
  Container(<<Field("type", Mapper(S("varint"), (0 :> "custom_name") @@ (1 :> "damage") @@ (2 :> "trim") @@
                                            (3 :> "lore") @@ (4 :> "tool"))),
              Field("data", Switch(0, <<"type">>,
                      [custom_name |-> S("anonymousNbt"), damage |-> S("varint"), trim |-> Named("Holder"),
                       lore |-> ArrayOf(S("anonOptionalNbt")),
                       tool |-> Container(<<Field("rules", ArrayOf(Container(<<Field("blocks", Named("IDSet")),
                                              Field("correctDropForBlocks", Option(S("bool")))>>))),
                                            Field("damagePerBlock", S("varint"))>>)], None))>>)

MCTypes ==
  [Slot |-> Container(<<Field("itemCount", S("varint")),
      Anon(Switch(0, <<"itemCount">>, ("0" :> S("void")),
        Container(<<Field("itemId", S("varint")), Field("added", S("varint")), Field("removed", S("varint")),
                    Field("components", Counted(Component, "added")),
                    Field("removeComponents", Counted(Container(<<Field("type", S("varint"))>>), "removed"))>>)))>>),
   Holder |-> [type |-> "registryEntryHolder", baseName |-> "soundId", otherName |-> "data", otherwise |-> String],
   IDSet |-> [type |-> "registryEntryHolderSet", baseName |-> "name", base |-> String,
              otherName |-> "ids", otherwise |-> S("varint")],
   position |-> [type |-> "bitfield", fields |-> <<Bits("x", 5, TRUE), Bits("z", 5, TRUE), Bits("y", 2, TRUE)>>],
   Metadata |-> Container(<<Field("key", S("u8")),
      Field("type", Mapper(S("varint"), (0 :> "byte") @@ (1 :> "string") @@ (2 :> "optional_component"))),
      Field("value", Switch(0, <<"type">>, [byte |-> S("i8"), string |-> String,
                                            optional_component |-> Option(S("anonymousNbt"))], None))>>)]

Node ==
  Container(<<Field("flags", [type |-> "bitfield",
                       fields |-> <<Bits("custom", 1, FALSE), Bits("redirect", 1, FALSE), Bits("kind", 2, FALSE)>>]),
              Field("children", ArrayOf(S("varint"))),
              Field("redirectNode", Switch(0, <<"flags", "redirect">>, ("1" :> S("varint")), S("void"))),
              Field("extra", Switch(0, <<"flags", "kind">>,
                ("1" :> Container(<<Field("name", String)>>)) @@
                ("2" :> Container(<<Field("parser", S("i16")),
                          Field("suggestions", Switch(1, <<"flags", "custom">>, ("1" :> String), S("void")))>>)), None))>>)

Player == Container(<<Field("uuid", S("UUID")),
                      Field("name", Switch(1, <<"action", "add">>, ("true" :> String), S("void"))),
                      Field("latency", Switch(1, <<"action", "latency">>, ("true" :> S("varint")), S("void")))>>)

MCPacketTypes ==
  [intention |-> Container(<<Field("version", S("varint")), Field("host", String), Field("port", S("u16")),
                             Field("nextState", S("varint"))>>),
   set_slot |-> Container(<<Field("slot", S("i16")), Field("item", Named("Slot"))>>),
   set_equipment |-> Container(<<Field("entityId", S("varint")),
      Field("equipments", [type |-> "topBitSetTerminatedArray",
                           of |-> Container(<<Field("slot", S("i8")), Field("item", Named("Slot"))>>)])>>),
   set_entity_data |-> Container(<<Field("entityId", S("varint")),
      Field("metadata", [type |-> "entityMetadataLoop", endVal |-> 15, of |-> Named("Metadata")])>>),
   player_info |-> Container(<<Field("action", [type |-> "bitflags", of |-> S("u8"), shift |-> 0,
                                                flags |-> <<"add", "chat", "latency">>]),
                               Field("data", ArrayOf(Player))>>),
   commands |-> Container(<<Field("nodes", ArrayOf(Node)), Field("root", S("varint"))>>),
   sound |-> Container(<<Field("sound", Named("Holder")), Field("at", Named("position")), Field("seed", S("i64"))>>),
   tags |-> Container(<<Field("set", Named("IDSet")), Field("when", S("varlong")), Field("volume", S("f32"))>>),
   chat |-> Container(<<Field("signed", S("bool")),
      Field("signature", Switch(0, <<"signed">>, ("true" :> [type |-> "buffer", count |-> 3]), S("void"))),
      Field("unsigned", Option([type |-> "buffer", countType |-> S("varint")])), Field("text", S("anonymousNbt"))>>),
   tag_query |-> Container(<<Field("transactionId", S("varint")), Field("nbt", S("anonOptionalNbt"))>>),
   velocity |-> Container(<<Field("velocity", S("lpVec3")), Field("entityId", S("i8"))>>),
   custom_payload |-> Container(<<Field("channel", String), Field("data", S("restBuffer"))>>)]

MCPacketIds == [intention |-> 0, set_slot |-> 1, set_equipment |-> 2, set_entity_data |-> 3, player_info |-> 4,
                commands |-> 5, sound |-> 6, tags |-> 7, chat |-> 8, velocity |-> 9, tag_query |-> 10,
                custom_payload |-> 70]
MCRounded == {"velocity"}
MCOpenEnded == {"custom_payload"}
MCOpenLists == {"set_equipment", "set_entity_data"}
MCOpenNbt == {"tag_query", "set_slot", "set_equipment"}
MCOptionalFlags == {"correctDropForBlocks"}

-----------------------------------------------------------------------------
C(pairs) == [compound |-> [i \in DOMAIN pairs |-> [key |-> pairs[i][1], val |-> pairs[i][2]]]]
L(items) == [list |-> items]
T(text) == [text |-> text]
B(b) == [bool |-> b]
Entries(pairs) == [i \in DOMAIN pairs |-> [key |-> pairs[i][1], tag |-> pairs[i][2]]]
NbtOf(pairs) == [nbt |-> <<Entries(pairs)>>]

\* Texts: with a letter, and with the sign for what is no text.
Texts == {<<>>, <<2, Replacement>>}
Tags == {NoNbt, NbtOf(<<(<<(<<1>>), [string |-> <<3>>]>>), (<<(<<>>), [short |-> -3]>>)>>),
         NbtOf(<<(<<(<<2>>), [list |-> [ty |-> "compound",
                              items |-> <<[compound |-> Entries(<<(<<(<<1>>), [byte |-> -8]>>)>>)],
                                          [compound |-> <<>>]>>]]>>)>>)}

EmptySlot == C(<<(<<"itemCount", Num(0)>>)>>)
Slot(components, removed) ==
  C(<<(<<"itemCount", Num(9)>>), (<<"itemId", Num(3)>>), (<<"added", Num(Len(components))>>),
      (<<"removed", Num(Len(removed))>>), (<<"components", L(components)>>),
      (<<"removeComponents", L([i \in DOMAIN removed |-> C(<<(<<"type", Num(removed[i])>>)>>)])>>)>>)
Comp(type, data) == C(<<(<<"type", [str |-> type]>>), (<<"data", data>>)>>)
Slots == {EmptySlot, Slot(<<>>, <<1>>),
          Slot(<<Comp("damage", Num(-1)), Comp("trim", C(<<(<<"soundId", Num(4)>>)>>))>>, <<>>),
          Slot(<<Comp("custom_name", NbtOf(<<(<<(<<1>>), [string |-> <<3>>]>>)>>))>>, <<2>>),
          Slot(<<Comp("lore", L(<<NbtOf(<<(<<(<<1>>), [byte |-> 4]>>)>>), NoNbt, NbtOf(<<>>)>>))>>, <<>>),
          Slot(<<Comp("tool", C(<<(<<"rules", L([i \in 1 .. 3 |-> C(<<(<<"blocks", C(<<(<<"ids", L(<<Num(i)>>)>>)>>)>>),
                                     (<<"correctDropForBlocks", <<B(TRUE), B(FALSE), Void>>[i]>>)>>)])>>),
                                  (<<"damagePerBlock", Num(1)>>)>>))>>, <<>>)}
Worn(slot, item) == C(<<(<<"slot", Num(slot)>>), (<<"item", item>>)>>)
Meta(key, type, value) == C(<<(<<"key", Num(key)>>), (<<"type", [str |-> type]>>), (<<"value", value>>)>>)
Metas == {Meta(0, "byte", Num(-8)), Meta(14, "string", T(<<2, Replacement>>)), Meta(1, "optional_component", Void),
          Meta(2, "optional_component", NbtOf(<<(<<(<<1>>), [byte |-> 4]>>)>>))}
PlayerOf(add, latency) ==
  C(<<(<<"uuid", [bytes |-> <<7, 12>>]>>), (<<"name", IF add THEN T(<<4>>) ELSE Void>>),
      (<<"latency", IF latency THEN Num(77) ELSE Void>>)>>)
NodeOf(custom, redirect, kind) ==
  C(<<(<<"flags", C(<<(<<"custom", Num(custom)>>), (<<"redirect", Num(redirect)>>), (<<"kind", Num(kind)>>)>>)>>),
      (<<"children", L(IF kind = 1 THEN <<Num(1)>> ELSE <<>>)>>),
      (<<"redirectNode", IF redirect = 1 THEN Num(9) ELSE Void>>),
      (<<"extra", CASE kind = 1 -> C(<<(<<"name", T(<<5>>)>>)>>)
                    [] kind = 2 -> C(<<(<<"parser", Num(-300 + 299)>>),
                                       (<<"suggestions", IF custom = 1 THEN T(<<6>>) ELSE Void>>)>>)
                    [] OTHER -> Void>>)>>)
At(x, z, y) == C(<<(<<"x", Num(x)>>), (<<"z", Num(z)>>), (<<"y", Num(y)>>)>>)

P(name, pairs) == [name |-> name, params |-> C(pairs)]
MCSent ==
  {P("intention", <<(<<"version", Num(v)>>), (<<"host", T(t)>>), (<<"port", Num(255)>>), (<<"nextState", Num(2)>>)>>) :
     v \in {7, 8, -1, 32767, -32768}, t \in Texts} \cup
  {P("set_slot", <<(<<"slot", Num(-1)>>), (<<"item", s>>)>>) : s \in Slots} \cup
  {P("set_equipment", <<(<<"entityId", Num(1)>>), (<<"equipments", L(worn)>>)>>) :
     worn \in {<<Worn(0, s)>> : s \in Slots} \cup {<<Worn(5, s), Worn(7, EmptySlot)>> : s \in Slots}} \cup
  {P("set_entity_data", <<(<<"entityId", Num(64)>>), (<<"metadata", L(list)>>)>>) :
     list \in {<<>>} \cup {<<m>> : m \in Metas} \cup {<<m, Meta(3, "byte", Num(7))>> : m \in Metas}} \cup
  {P("player_info", <<(<<"action", C(<<(<<"add", B(a)>>), (<<"chat", B(FALSE)>>), (<<"latency", B(l)>>)>>)>>),
                      (<<"data", L(data)>>)>>) :
     <<a, l, data>> \in {<<x, y, d>> \in BOOLEAN \X BOOLEAN \X UNION {{<<>>, <<PlayerOf(u, w)>>, <<PlayerOf(u, w), PlayerOf(u, w)>>} :
                            u \in BOOLEAN, w \in BOOLEAN} : \A i \in DOMAIN d : d[i] = PlayerOf(x, y)}} \cup
  {P("commands", <<(<<"nodes", L(<<NodeOf(c, r, k), NodeOf(0, 0, 0)>>)>>), (<<"root", Num(0)>>)>>) :
     c \in {0, 1}, r \in {0, 1}, k \in 0 .. 2} \cup
  {P("sound", <<(<<"sound", s>>), (<<"at", At(x, -16, y)>>), (<<"seed", Num(-2)>>)>>) :
     s \in {C(<<(<<"soundId", Num(0)>>)>>), C(<<(<<"soundId", Num(7)>>)>>), C(<<(<<"data", T(<<1>>)>>)>>)},
     x \in {15, -1}, y \in {-2, 1}} \cup
  {P("tags", <<(<<"set", s>>), (<<"when", Num(w)>>), (<<"volume", Num(12)>>)>>) :
     s \in {C(<<(<<"name", T(<<1>>)>>)>>), C(<<(<<"ids", L(<<>>)>>)>>), C(<<(<<"ids", L(<<Num(1), Num(-1)>>)>>)>>)},
     w \in {0, -1, 100000}} \cup
  {P("chat", <<(<<"signed", B(g)>>), (<<"signature", IF g THEN [bytes |-> <<1, 15, 0>>] ELSE Void>>),
               (<<"unsigned", u>>), (<<"text", n>>)>>) :
     g \in BOOLEAN, u \in {Void, [bytes |-> <<>>], [bytes |-> <<0, 15>>]}, n \in Tags} \cup
  {P("tag_query", <<(<<"transactionId", Num(300)>>), (<<"nbt", n>>)>>) : n \in Tags} \cup
  {P("velocity", <<(<<"velocity", Vec(<<scale * (2 * x - LpMax), scale * LpMax, -scale * (2 * x - LpMax)>>)>>),
                   (<<"entityId", Num(1)>>)>>) : scale \in {0, 1, 3, 4, 31, 100000}, x \in {0, 1, 64, 126}} \cup
  {P("custom_payload", <<(<<"channel", T(t)>>), (<<"data", [bytes |-> d]>>)>>) : t \in Texts, d \in {<<>>, <<0, 15>>}}

\* Roots with every kind of tag, in every format.  They are shorter than
\* the name that a reader of another format takes their first bytes for.
Roots ==
  {[name |-> <<2, 3>>, value |-> Entries(<<(<<(<<1>>), [bytearray |-> <<-1, 7>>]>>), (<<(<<3>>), [long |-> l]>>)>>)] :
     l \in {-1, 100000, -134217728}} \cup
  {[name |-> <<2, 1>>, value |-> Entries(<<(<<(<<>>), [intarray |-> <<i>>]>>), (<<(<<1, 1>>), [double |-> 5]>>)>>)] :
     i \in {-32768, 0, 9}} \cup
  {[name |-> <<2, 3>>, value |-> Entries(<<(<<(<<1>>), [list |-> [ty |-> "longarray", items |-> <<[longarray |-> <<-2>>]>>]]>>)>>)],
   [name |-> <<2, 3>>, value |-> Entries(<<(<<(<<4>>), [list |-> [ty |-> "end", items |-> <<>>]]>>),
                                           (<<(<<5>>), [float |-> -9]>>)>>)]}
MCFiles == [root : Roots, format : {"Big", "Little", "LittleVarint"}]
MCWritten == MCSent \cup MCFiles

MCTails == {<<0>>, <<15>>, <<1, 0>>}
=============================================================================
