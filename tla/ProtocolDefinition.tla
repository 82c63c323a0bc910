------------------------- MODULE ProtocolDefinition -------------------------
(***************************************************************************)
(* The protocol definition built from the sources and the second           *)
(* validation: devtools/generators/src/protocolBuilder.ts,                 *)
(* protocolLoader.ts, protocolValidator.ts and protocolDocsValidator.ts.   *)
(***************************************************************************)
EXTENDS SourceDefinitions, TLC

-----------------------------------------------------------------------------
(* protocolBuilder.ts                                                      *)

EmptySchema == [name |-> "Empty", kind |-> "object", fields |-> {}]

EmptyNames(s) == Named({x \in s.schemas : x.fields = {}})

\* A reference to a schema without fields becomes one to Empty.
SchemaRef(s, name) ==
    IF name = "" \/ name \in EmptyNames(s) THEN "Empty" ELSE name

FirstOf(a, b) == IF a # "" THEN a ELSE b

TypeField(f) ==
    IF f.type = "array" \/ f.repeated
    THEN [f EXCEPT !.itemType = FirstOf(f.itemType, FirstOf(f.itemSchema, f.schema)),
                   !.itemSchema = FirstOf(f.itemSchema, f.schema)]
    ELSE [f EXCEPT !.itemType = "", !.itemSchema = ""]

\* Only references of methods and events are rewritten: a schema without
\* fields is gone for everybody else.
BuildSchemas(s) ==
    LET filled == {[x EXCEPT !.fields = {TypeField(f) : f \in x.fields}] :
                      x \in {y \in s.schemas : y.fields # {}}} IN
    IF "Empty" \in Named(filled) THEN filled ELSE filled \cup {EmptySchema}

Category(e) == FirstOf(e.category, e.domain)

\* What every source adds to its own profiles.
DefaultProfiles(s) ==
    LET mvp == [keys |-> {}, methods |-> s.mvp.methods, events |-> s.mvp.events,
                errors |-> s.mvp.errors, types |-> {}] IN
    {[name |-> "AXTP-MVP", frameProfile |-> "", frameProfiles |-> {"STANDARD_FRAME"},
      transports |-> {"AXTP-USB-HID", "AXTP-TCP", "AXTP-WS-JSON", "AXTP-WS-CLOUD-REVERSE"}]
        @@ mvp,
     [name |-> "AXTP-MVP-HID", frameProfile |-> "STANDARD_FRAME", frameProfiles |-> {},
      transports |-> {"AXTP-USB-HID"}] @@ mvp}

\* buildProtocolDefinition, read back by the loader.
Build(s) ==
    [methods |-> {[m EXCEPT !.request = SchemaRef(s, m.request),
                            !.response = SchemaRef(s, m.response)] : m \in s.methods},
     events |-> {[e EXCEPT !.payload = SchemaRef(s, e.payload)] : e \in s.events},
     errors |-> {[e EXCEPT !.domain = Category(e)] : e \in s.errors},
     capabilities |-> s.capabilities,
     schemas |-> BuildSchemas(s),
     profiles |-> DefaultProfiles(s) \cup s.profiles,
     meta |-> s.meta]

-----------------------------------------------------------------------------
(* protocolValidator.ts                                                    *)

\* Every key of the document, however deep.
RawKeys(p) ==
    p.meta.keys \cup Named(p.schemas)
        \cup UNION {UNION {DOMAIN f.variants.mapping : f \in x.fields} : x \in p.schemas}

NoForbiddenKeys(p) ==
    /\ RawKeys(p) \cap {"bitmapId", "requests", "requiredRequests"} = {}
    /\ \A x \in p.profiles : "requiredCapabilities" \notin x.keys

WireOrder(p) ==
    p.meta.wire = [byteOrder |-> "big-endian", alias |-> "network",
                   integers |-> "big-endian", crc |-> "big-endian"]

StreamFields == <<<<"streamId", "uint32">>, <<"seqId", "uint32">>, <<"cursor", "uint64">>>>

StreamHeader(p) == p.meta.header = [size |-> 16, fields |-> StreamFields]

RequiredOpcodes == {"OPEN", "ACCEPT", "HEARTBEAT", "HEARTBEAT_ACK", "CLOSE", "CLOSE_ACK"}

OptionalOpcodes == {"READY", "ACK", "NACK"}

Opcodes(c) ==
    /\ RequiredOpcodes \subseteq c.required
    /\ OptionalOpcodes \subseteq c.optional
    /\ OptionalOpcodes \cap c.required = {}

ControlOpcodes(p) ==
    /\ Opcodes(p.meta.control)
    /\ p.meta.control.reserved \cap
          {"ACK", "NACK", "RESUME", "HEARTBEAT", "HEARTBEAT_ACK", "CLOSE", "CLOSE_ACK"} = {}

\* assertDomainIdAlignment.  Events of a domain without methods go unchecked.
DomainIdsAligned(p) ==
    \A m \in p.methods, i \in p.methods \cup p.events :
        i.domain = m.domain => HighByte(i.id) = HighByte(m.id)

\* assertSchemaDefinitions; the fields of an object only.
SchemaDefinitions(schemas) ==
    LET names == Named(schemas) IN
    \A x \in schemas :
        /\ x.kind \in {"object", "enum", "bitmap", "alias", "bytes"}
        /\ x.kind = "object" =>
              /\ UniqueBy(x.fields, "id")
              /\ \A f \in x.fields :
                    /\ f.id \in 1..255
                    /\ f.type \in Builtins \cup names
                    /\ Known(f.schema, names) /\ Known(f.itemSchema, names)
                    /\ Known(f.itemType, Builtins \cup names)
                    /\ HasVariants(f) =>
                          ValidVariants(f, x, names, Named(ObjectSchemas(schemas)))

\* Nothing but Empty is empty where a method looks.
EmptyUsage(p) ==
    /\ EmptySchema \in p.schemas
    /\ \A m \in p.methods : \A x \in p.schemas :
          x.name \in {m.request, m.response} /\ x.fields = {} => x.name = "Empty"

\* buildProtocolDomainByHighByte.  An error speaks for its own high byte when
\* no method or event does.
ProtocolItems(p) == ItemDomains(p.methods) \cup ItemDomains(p.events)

AllowedCategories(p, e) ==
    LET h == HighByte(e.id)
        claims == {k \in p.errors : HighByte(k.id) = h} IN
    IF e.id <= 255 THEN {"common", "frame", "control", "rpc"}
    ELSE IF DomainOfByte(ProtocolItems(p), h) # "" THEN {DomainOfByte(ProtocolItems(p), h)}
    ELSE IF RegistryByte(h)
         THEN IF \A k \in claims : k.domain = e.domain THEN {e.domain} ELSE {}
    ELSE IF h \in 112..126 THEN {"vendor"}
    ELSE IF h = 127 THEN {"legacy"} ELSE {}

ErrorRanges(p) == \A e \in p.errors : e.domain \in AllowedCategories(p, e)

CompactFrames == {"COMPACT_FRAME"}

\* assertCurrentTransportPolicy: one policy per kind of link.
TransportPolicy(p) ==
    /\ Named(p.meta.frameProfiles) \cap CompactFrames = {}
    /\ \A t \in p.meta.transports :
          /\ t.name # "AXTP-HID-64"
          /\ IF t.frameProfile = "none"
             THEN t.control = "no" /\ t.stream = "no" /\ t.encodings = {"JSON"}
             ELSE /\ t.frameProfile = "STANDARD_FRAME"
                  /\ t.control = "yes" /\ t.stream = "yes"
                  /\ {"JSON", "CBOR", "MSGPACK", "JSON_BINARY"} \subseteq t.encodings
    /\ \A x \in p.profiles :
          /\ "AXTP-HID-64" \notin x.transports
          /\ ({x.frameProfile} \cup x.frameProfiles) \cap CompactFrames = {}

MethodReferences(p) ==
    \A m \in p.methods :
        /\ Prefix[m.name] = m.domain /\ m.described
        /\ {m.request, m.response} \subseteq Named(p.schemas)
        /\ m.events \subseteq Named(p.events)
        /\ m.errors \subseteq Named(p.errors)
        /\ m.capabilities \subseteq Named(p.capabilities)

EventReferences(p) ==
    \A e \in p.events : /\ Prefix[e.name] = e.domain
                        /\ e.payload \in Named(p.schemas)
                        /\ e.capabilities \subseteq Named(p.capabilities)

CapabilityReferences(p) ==
    \A c \in p.capabilities : /\ Prefix[c.name] = c.domain
                              /\ Known(c.schema, Named(p.schemas))

MethodMasksDerived(p) ==
    \A x \in p.schemas : x.name = "CapabilitySupportedMethodsResponse" =>
        \E f \in x.fields : /\ f.name = "methodMasks"
                            /\ f.derivedFrom = "methods[].bitOffset"

\* The frame profiles of the framed transports of a profile.
UsedFrameProfiles(p, x) ==
    {t.frameProfile : t \in {k \in p.meta.transports : k.name \in x.transports}} \ {"none"}

FrameProfilesKnown(p) ==
    {t.frameProfile : t \in p.meta.transports} \ {"none"}
        \subseteq Named(p.meta.frameProfiles)

ProfileReferences(p) ==
    \A x \in p.profiles :
        /\ x.methods \subseteq Named(p.methods) /\ x.events \subseteq Named(p.events)
        /\ x.errors \subseteq Named(p.errors) /\ x.types \subseteq Named(p.schemas)
        /\ x.transports \subseteq Named(p.meta.transports)
        /\ x.frameProfiles \subseteq Named(p.meta.frameProfiles)
        /\ x.frameProfile # "" => /\ UsedFrameProfiles(p, x) \subseteq {x.frameProfile}
                                  /\ x.frameProfile \in Named(p.meta.frameProfiles)
        /\ x.frameProfiles # {} => x.frameProfiles = UsedFrameProfiles(p, x)

\* validateProtocolDefinition
ValidProtocol(p) ==
    /\ DomainsAgree(ProtocolItems(p))
    /\ NoForbiddenKeys(p)
    /\ WireOrder(p) /\ StreamHeader(p) /\ ControlOpcodes(p)
    /\ \A r \in {"methods", "events", "errors", "capabilities"} :
          UniqueBy(p[r], "id") /\ UniqueBy(p[r], "name")
    /\ UniqueBy(p.schemas, "name") /\ UniqueBy(p.profiles, "name")
    /\ UniqueBy(p.meta.transports, "name")
    /\ DomainBits(p.methods) /\ DomainBits(p.events)
    /\ DomainIdsAligned(p)
    /\ SchemaDefinitions(p.schemas) /\ EmptyUsage(p)
    /\ ErrorRanges(p)
    /\ TransportPolicy(p)
    /\ CapabilityReferences(p) /\ MethodReferences(p) /\ EventReferences(p)
    /\ MethodMasksDerived(p)
    /\ FrameProfilesKnown(p) /\ ProfileReferences(p)

-----------------------------------------------------------------------------
(* protocolDocsValidator.ts: the specification texts state these facts, and*)
(* the definition is held against them once more.                          *)

DocFacts == {"frameByteOrder", "streamHeader", "streamId", "seqId", "cursor",
             "streamByteOrder", "codecByteOrder", "open", "heartbeat", "close",
             "readyOptional", "defaultHandshake", "noAckNack"}

YamlFacts(p) ==
    /\ p.meta.wire.byteOrder = "big-endian" /\ p.meta.wire.alias = "network"
    /\ StreamHeader(p)
    /\ Opcodes(p.meta.control)
    /\ MethodMasksDerived(p)

DocsConsistent(p, docs) == DocFacts \subseteq docs /\ YamlFacts(p)
=============================================================================
