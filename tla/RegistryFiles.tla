---------------------------- MODULE RegistryFiles ----------------------------
(***************************************************************************)
(* Registry data files (registrydata.go): one JSON file for all protocols  *)
(* or a zip with a file for each.  An entry says what a file has for one   *)
(* protocol: the number its name parses to (none if it does not), what the *)
(* zip's file declares, its registries and tags, and its two codecs.  A    *)
(* payload is a name, <<>> where it is omitted, Bad if it is not base64.   *)
(***************************************************************************)
EXTENDS Integers, Sequences, SequencesExt

CONSTANTS Bad

\* newData: what is known of each protocol.
newData == [registries |-> <<>>, tags |-> <<>>, codecs |-> <<>>, dimensions |-> <<>>]

Loaded(data) == <<data>>
Failed == <<>>

\* f with a value for a key.
Put(f, key, value) == [k \in DOMAIN f \cup {key} |-> IF k = key THEN value ELSE f[k]]

\* append to the list of a key, which does not exist before its first element.
Add(f, key, values) ==
    IF values = <<>> THEN f
    ELSE Put(f, key, IF key \in DOMAIN f THEN f[key] \o values ELSE values)

\* decodeRegistries: every payload of every registry must decode.
decodeRegistries(data, protocol, registries) ==
    IF \E i \in DOMAIN registries : Contains(registries[i], Bad) THEN Failed
    ELSE Loaded([data EXCEPT !.registries = Add(@, protocol, registries)])

decodeTags(data, protocol, tags) ==
    [data EXCEPT !.tags = Add(@, protocol, tags)]

\* Mutant: an omitted codec is decoded, too.
decodeDimensionCodecAlways(data, protocol, codec) ==
    IF codec = <<Bad>> THEN Failed
    ELSE Loaded([data EXCEPT !.codecs = Put(@, protocol, codec)])

decodeDimensionCodec(data, protocol, codec) ==
    IF codec = <<>> THEN Loaded(data)
    ELSE IF codec = <<Bad>> THEN Failed
    ELSE Loaded([data EXCEPT !.codecs = Put(@, protocol, codec)])

decodeDimension(data, protocol, dimension) ==
    IF dimension = <<>> THEN Loaded(data)
    ELSE IF dimension = <<Bad>> THEN Failed
    ELSE Loaded([data EXCEPT !.dimensions = Put(@, protocol, dimension)])

\* What an entry has in one of the fields is decoded, if nothing has failed.
Decode(result, entry, field) ==
    LET data == result[1]
        p    == entry.protocol
    IN  IF result = Failed THEN Failed
        ELSE CASE field = "registries" -> decodeRegistries(data, p, entry.registries)
               [] field = "tags"       -> Loaded(decodeTags(data, p, entry.tags))
               [] field = "codec"      -> decodeDimensionCodec(data, p, entry.codec)
               [] field = "dimension"  -> decodeDimension(data, p, entry.dimension)

\* What a zip's file declares about itself, if anything, must be right.
Declares(entry) == entry.format \in {0, 1} /\ entry.declared \in {0, entry.protocol}

loadZipEntry(result, entry) ==
    IF ~Declares(entry) THEN Failed
    ELSE Decode(Decode(Decode(Decode(result, entry, "registries"), entry, "tags"),
                       entry, "codec"), entry, "dimension")

NoProtocol == -1            \* the name of an entry is no number: no protocol has this one

\* LoadZipBytes of the files in a zip: loaded[n] is the result after n of them.
LoadZipBytes(entries) ==
    LET loaded[n \in 0..Len(entries)] ==
            IF n = 0 THEN Loaded(newData)
            ELSE IF entries[n].protocol = NoProtocol THEN Failed
            ELSE loadZipEntry(loaded[n - 1], entries[n])
    IN  IF entries = <<>> THEN Failed ELSE loaded[Len(entries)]

\* One of the maps of the JSON file, in any order (that of the entries); a
\* protocol is a key of it if it has something there.
Pass(result, entries, field) ==
    LET passed[n \in 0..Len(entries)] ==
            IF n = 0 THEN result
            ELSE IF entries[n][field] = <<>> THEN passed[n - 1]
            ELSE IF entries[n].protocol = NoProtocol THEN Failed
            ELSE Decode(passed[n - 1], entries[n], field)
    IN  passed[Len(entries)]

LoadBytes(entries) ==
    LET registries == Pass(Loaded(newData), entries, "registries")
        tags       == Pass(registries, entries, "tags")
        codecs     == Pass(tags, entries, "codec")
    IN  Pass(codecs, entries, "dimension")

\* A protocol has one entry, and every entry is for one.
Distinct(entries) ==
    \A i, j \in DOMAIN entries : i # j => entries[i].protocol # entries[j].protocol
Proper(entries) ==
    \A i \in DOMAIN entries : entries[i].protocol # NoProtocol /\ Declares(entries[i])

\* A zip and a JSON file with the same contents load to the same data or not at
\* all: no protocol appears in one table because it is in another, and one bad
\* entry of several leaves nothing loaded.
LoadersAgree(entries, zip, json) ==
    /\ entries # <<>> /\ Distinct(entries) /\ Proper(entries) => zip = json
    /\ ~Proper(entries) => zip = Failed

=============================================================================
