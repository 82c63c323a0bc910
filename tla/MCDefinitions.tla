---------------------------- MODULE MCDefinitions ---------------------------
(* Two domains, "a" on high byte 1 and "b" on 2, a few vendor items, and the *)
(* items an editor may get wrong.                                            *)
EXTENDS Definitions

MCNames == {"a.m0", "a.m1", "b.m0", "a.e0", "a.e1", "a.e2", "b.e0", "vendor.e0",
            "a.c", "b.c", "FAIL", "BUSY", "Empty", "S", "T", "U", "Void"}
MCPrefix == [n \in MCNames |->
    IF n \in {"a.m0", "a.m1", "a.e0", "a.e1", "a.e2", "a.c"} THEN "a"
    ELSE IF n \in {"b.m0", "b.e0", "b.c"} THEN "b"
    ELSE IF n = "vendor.e0" THEN "vendor" ELSE n]
MCTsName == [n \in MCNames |-> n]

Method(name, domain, id, bit) ==
    [name |-> name, domain |-> domain, id |-> id, bit |-> bit, request |-> "",
     response |-> "S", events |-> {"a.e0"}, errors |-> {"FAIL"},
     capabilities |-> {}, status |-> "draft", described |-> TRUE]
Event(name, domain, id, bit) ==
    [name |-> name, domain |-> domain, id |-> id, bit |-> bit, payload |-> "S",
     capabilities |-> {}, status |-> "draft"]
Error(name, domain, id, category) ==
    [name |-> name, domain |-> domain, id |-> id, category |-> category,
     status |-> "draft"]
Capability(name, domain, id, schema) ==
    [name |-> name, domain |-> domain, id |-> id, schema |-> schema,
     status |-> "draft"]

MCMappings == {<<>>, "x" :> "S" @@ "y" :> "T", "x" :> "S" @@ "y" :> "Void", "x" :> "S"}
NoVariants == [discriminator |-> "", mapping |-> <<>>]
Field(id, name, type) ==
    [id |-> id, name |-> name, type |-> type, schema |-> "", itemType |-> "",
     itemSchema |-> "", enum |-> {}, variants |-> NoVariants, repeated |-> FALSE,
     derivedFrom |-> ""]
Schema(name, fields) == [name |-> name, kind |-> "object", fields |-> fields]

Kind == [Field(1, "kind", "enum") EXCEPT !.enum = {"x", "y"}]
BodyField(mapping) ==
    [Field(2, "body", "object") EXCEPT
        !.variants = [discriminator |-> "kind", mapping |-> mapping]]

GoodMeta ==
    [keys |-> {"protocol", "wire"},
     wire |-> [byteOrder |-> "big-endian", alias |-> "network",
               integers |-> "big-endian", crc |-> "big-endian"],
     header |-> [size |-> 16, fields |-> StreamFields],
     control |-> [required |-> RequiredOpcodes, optional |-> OptionalOpcodes,
                  reserved |-> {}],
     frameProfiles |-> {[name |-> "STANDARD_FRAME"]},
     transports |->
        {[name |-> n, frameProfile |-> "STANDARD_FRAME", control |-> "yes",
          stream |-> "yes", encodings |-> {"JSON", "CBOR", "MSGPACK", "JSON_BINARY"}]
            : n \in {"AXTP-USB-HID", "AXTP-TCP"}}
        \cup {[name |-> n, frameProfile |-> "none", control |-> "no",
               stream |-> "no", encodings |-> {"JSON"}]
                : n \in {"AXTP-WS-JSON", "AXTP-WS-CLOUD-REVERSE"}}]

MCMetas ==
    {[GoodMeta EXCEPT !.keys = @ \cup {"requests"}],
     [GoodMeta EXCEPT !.wire.alias = "host"],
     [GoodMeta EXCEPT !.wire.byteOrder = "little-endian"],
     [GoodMeta EXCEPT !.header.size = 12],
     [GoodMeta EXCEPT !.header.fields = Tail(@)],
     [GoodMeta EXCEPT !.control.required = @ \cup {"READY"}],
     [GoodMeta EXCEPT !.control.optional = {}],
     [GoodMeta EXCEPT !.control.reserved = {"CLOSE"}],
     [GoodMeta EXCEPT !.frameProfiles = @ \cup {[name |-> "COMPACT_FRAME"]}],
     [GoodMeta EXCEPT !.transports = {t \in @ : t.name # "AXTP-TCP"}],
     GoodMeta}

MCBase ==
    [domains |-> {<<1, "a">>, <<2, "b">>},
     methods |-> {Method("a.m0", "a", 256, 0)},
     events |-> {Event("a.e0", "a", 256, 0), Event("a.e1", "a", 257, 1),
                 Event("a.e2", "a", 263, 2), Event("b.e0", "b", 512, 0)},
     errors |-> {Error("FAIL", "common", 1, "")},
     capabilities |-> {Capability("a.c", "a", 256, "S")},
     schemas |-> {Schema("S", {Field(1, "v", "uint8")}),
                  Schema("T", {Field(1, "w", "string")}),
                  Schema("U", {Kind, BodyField("x" :> "S" @@ "y" :> "T")})},
     legacy |-> {},
     profiles |-> {},
     mvp |-> [methods |-> {"a.m0"}, events |-> {}, errors |-> {"FAIL"},
              capabilities |-> {}],
     meta |-> GoodMeta]

MCPool ==
    [domains |-> {<<1, "a">>, <<2, "b">>, <<2, "a">>, <<256, "a">>},
     methods |-> {Method("a.m0", "a", 256, 0),
                  Method("a.m1", "a", 257, 1),
                  Method("a.m1", "a", 258, 3),
                  Method("b.m0", "b", 512, 0),
                  Method("b.m0", "b", 257, 0),
                  [Method("a.m1", "a", 257, 1) EXCEPT !.events = {"b.e0", "vendor.e0"}],
                  [Method("a.m1", "a", 257, 1) EXCEPT !.request = "Void"],
                  [Method("a.m1", "a", 257, 1) EXCEPT !.described = FALSE]},
     events |-> {Event("a.e1", "a", 257, 0),
                 Event("a.e2", "a", 257, 2),
                 Event("b.e0", "a", 264, 3),
                 Event("b.e0", "b", 264, 0),
                 Event("vendor.e0", "vendor", 28672, 0),
                 [Event("b.e0", "b", 512, 0) EXCEPT !.payload = "U"],
                 [Event("a.e0", "a", 256, 0) EXCEPT !.status = "reserved"]},
     errors |-> {Error("FAIL", "a", 300, ""),
                 Error("FAIL", "common", 2, "b"),
                 Error("BUSY", "b", 513, "a"),
                 Error("BUSY", "common", 1, "")},
     capabilities |-> {Capability("b.c", "b", 512, "Void"),
                       Capability("b.c", "b", 512, "")},
     schemas |-> {Schema("Void", {}),
                  Schema("Empty", {Field(1, "v", "uint8")}),
                  [Schema("T", {}) EXCEPT !.kind = "enum"],
                  Schema("U", {Kind, BodyField("x" :> "S" @@ "y" :> "Void")}),
                  [Schema("U", {Kind, BodyField("x" :> "S" @@ "y" :> "Void")})
                       EXCEPT !.kind = "bitmap"],
                  Schema("U", {Kind, BodyField("x" :> "S")}),
                  Schema("U", {Field(1, "kind", "enum"), BodyField("x" :> "S")}),
                  Schema("U", {[Kind EXCEPT !.type = "array", !.itemType = "T"]}),
                  Schema("U", {[Kind EXCEPT !.type = "array", !.itemSchema = "Void"]}),
                  Schema("U", {Field(0, "kind", "string"), Field(1, "v", "S")}),
                  Schema("U", {Field(1, "kind", "string"), Field(1, "v", "S")})},
     legacy |-> {[name |-> "l1", command |-> 1, method |-> 256, errors |-> {"FAIL"}],
                 [name |-> "l2", command |-> 1, method |-> 256, errors |-> {}],
                 [name |-> "l2", command |-> 2, method |-> 999, errors |-> {}]},
     profiles |-> {[keys |-> {}, name |-> "P", methods |-> {"a.m0"}, events |-> {"a.e1"},
                    errors |-> {}, types |-> {"S"}, transports |-> {"AXTP-TCP"},
                    frameProfile |-> "STANDARD_FRAME", frameProfiles |-> {}],
                   [keys |-> {}, name |-> "P", methods |-> {}, events |-> {},
                    errors |-> {}, types |-> {}, transports |-> {"AXTP-WS-JSON"},
                    frameProfile |-> "", frameProfiles |-> {"STANDARD_FRAME"}]}]
=============================================================================
