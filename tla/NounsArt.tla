------------------------------ MODULE NounsArt ------------------------------
(***************************************************************************)
(* The art on its way from the files of nouns-assets to the token: the     *)
(* script encode.ts writes image-data.json, somebody copies that file into *)
(* nouns-contracts, the task populate-descriptor adds what the copy has to *)
(* a NounsDescriptor, NounsSeeder picks among what the descriptor of the   *)
(* token holds.  The page draws the same nouns from image-data.json and a  *)
(* seed, the library foretells a seed from a block hash, and the API keeps *)
(* what the token said of a noun.                                          *)
(***************************************************************************)
EXTENDS NounsImage

CONSTANTS
    Editions,       \* the folders of images at one release and the next: of every kind the
                    \* names of the files in the order of readdir
    PictureOf,      \* the picture in every file; one painted anew counts as another file
    Backgrounds,    \* bgcolors
    ChunkSize,      \* 10
    Slice,          \* the bytes of a uint48: 6
    Digests,        \* values of the keccak256 of a block hash and a noun's id
    Descriptors,    \* the NounsDescriptor contracts there are or will be
    MaxMinted,      \* bound: nouns
    MaxAdditions,   \* bound: runs of populate-descriptor and parts added one by one
    MaxRequests     \* bound: requests to the API at once

\* The folders, in the order of encode.ts, of the descriptor and of a noun's parts.
Kinds == <<"bodies", "accessories", "heads", "glasses">>
KindSet == ToSet(Kinds)

\* No folder is empty.  No two files have one name: of two, format would have lost the
\* second.  Every picture has the clear frame that Image's bounds need.
ASSUME FilesAssumption ==
    /\ Editions \in Seq([KindSet -> Seq(Names)]) /\ Editions # <<>>
    /\ \A e \in DOMAIN Editions :
           /\ \A k \in KindSet : Editions[e][k] # <<>>
           /\ \A k, l \in KindSet : \A i \in DOMAIN Editions[e][k], j \in DOMAIN Editions[e][l] :
                  Editions[e][k][i] = Editions[e][l][j] => k = l /\ i = j
    /\ \A name \in Names : Framed(PictureOf[name])
    /\ PictureOf \in [Names -> Pictures]

ASSUME ArtAssumption ==
    /\ Backgrounds \in Nat /\ ChunkSize \in Nat \ {0} /\ Slice \in Nat \ {0}
    /\ MaxMinted \in Nat /\ MaxAdditions \in Nat /\ MaxRequests \in Nat
    /\ Digests \subseteq Seq(0..Byte - 1)
    /\ \A d \in Digests : Len(d) > 5 * Slice

VARIABLES
    edition,        \* the release that the folders of images have come to
    imageData,      \* nouns-assets/src/image-data.json, of which the page and the library are
                    \* built: images and palette; NoData before it is written
    contractsData,  \* nouns-contracts/files/image-data.json, the one that is added
    art,            \* of every descriptor: backgrounds, palette 0 and the parts of every kind
    arePartsLocked, \* of every descriptor
    descriptor,     \* NounsToken: the descriptor it asks
    populating,     \* the last run of populate-descriptor: its descriptor and its data
    txs,            \* its transactions that are not mined yet, in the order of nonces
    nouns,          \* of every noun minted: seed, burned; history: digest, by (descriptor)
    requests,       \* of the API: what the token answered and is not stored yet
    metadata,       \* the API's cache, by noun
    additions,      \* runs of populate-descriptor and parts added one by one
    released        \* history, by descriptor: the data that one run added, nothing having
                    \* failed and nothing else been added

filesVars == <<encoderVars, edition, imageData, contractsData>>
fillingVars == <<art, arePartsLocked, populating, txs, additions, released>>
tokenVars == <<descriptor, nouns>>
apiVars == <<requests, metadata>>
artVars == <<filesVars, fillingVars, tokenVars, apiVars>>

NoData == [palette |-> <<>>]

\* Of a descriptor that something else happened to.
Mixed == [mixed |-> TRUE]

\* What comes of a call that fails, or of a noun not drawn, instead of a drawing or a seed.
Panic == [panic |-> TRUE]
Throws == [throws |-> TRUE]
Blank == [blank |-> TRUE]

Bare == [backgrounds |-> 0, palette |-> <<>>, parts |-> [k \in KindSet |-> <<>>]]

ArtInit ==
    /\ EncoderInit
    /\ edition = 1 /\ imageData = NoData /\ contractsData = NoData
    /\ art = [a \in Descriptors |-> Bare]
    /\ arePartsLocked = [a \in Descriptors |-> FALSE]
    /\ descriptor \in Descriptors
    /\ populating = [to |-> descriptor, data |-> NoData] /\ txs = <<>>
    /\ nouns = <<>> /\ requests = {} /\ metadata = <<>> /\ additions = 0
    /\ released = [a \in Descriptors |-> NoData]

-----------------------------------------------------------------------------
(* nouns-assets/scripts/encode.ts, and the file it writes.                 *)

Files == Editions[edition]

AllFiles == FlattenSeq([k \in 1..Len(Kinds) |-> Files[Kinds[k]]])

\* The loops over folders and files.
EncodeFile ==
    /\ Cardinality(DOMAIN images) < Len(AllFiles)
    /\ LET file == AllFiles[Cardinality(DOMAIN images) + 1]
       IN  encodeImage(file, PictureOf[file])
    /\ UNCHANGED <<edition, imageData, contractsData, fillingVars, tokenVars, apiVars>>

\* encoder.data: the images of every folder, format().
Data ==
    [palette |-> colors,
     images |-> [k \in KindSet |-> [i \in DOMAIN Files[k] |-> images[Files[k][i]]]]]

WriteImageData ==
    /\ Cardinality(DOMAIN images) = Len(AllFiles)
    /\ imageData' = Data
    /\ UNCHANGED <<encoderVars, edition, contractsData, fillingVars, tokenVars, apiVars>>

\* Artists add images, and encode.ts is run once more.
NextEdition ==
    /\ edition < Len(Editions)
    /\ edition' = edition + 1
    /\ NewEncoder
    /\ UNCHANGED <<imageData, contractsData, fillingVars, tokenVars, apiVars>>

\* The two files are the same in the repository, but nothing in it copies one to the other.
CopyImageData ==
    /\ imageData # NoData
    /\ contractsData' = imageData
    /\ UNCHANGED <<encoderVars, edition, imageData, fillingVars, tokenVars, apiVars>>

-----------------------------------------------------------------------------
(* The task populate-descriptor, and what NounsDescriptor makes of it.     *)

chunkArray(array, size) ==
    [i \in 1..((Len(array) + size - 1) \div size) |->
        SubSeq(array, (i - 1) * size + 1, MinOf({i * size, Len(array)}))]

AddMany(kind, chunks) == [i \in DOMAIN chunks |-> [add |-> kind, items |-> chunks[i]]]

\* Fault: the glasses come before the heads.
PopulateTxs_GlassesFirst(data) ==
    <<[add |-> "backgrounds", items |-> [i \in 1..Backgrounds |-> i]],
      [add |-> "palette", items |-> data.palette],
      [add |-> "bodies", items |-> data.images["bodies"]]>>
    \o AddMany("accessories", chunkArray(data.images["accessories"], ChunkSize))
    \o <<[add |-> "glasses", items |-> data.images["glasses"]]>>
    \o AddMany("heads", chunkArray(data.images["heads"], ChunkSize))

PopulateTxs(data) ==
    <<[add |-> "backgrounds", items |-> [i \in 1..Backgrounds |-> i]],
      [add |-> "palette", items |-> data.palette],
      [add |-> "bodies", items |-> data.images["bodies"]]>>
    \o AddMany("accessories", chunkArray(data.images["accessories"], ChunkSize))
    \o AddMany("heads", chunkArray(data.images["heads"], ChunkSize))
    \o <<[add |-> "glasses", items |-> data.images["glasses"]]>>

\* The task awaits that a transaction is sent, not that it is mined.
Populate(a) ==
    /\ contractsData # NoData /\ txs = <<>> /\ additions < MaxAdditions
    /\ populating' = [to |-> a, data |-> contractsData]
    /\ txs' = PopulateTxs(contractsData)
    /\ additions' = additions + 1
    /\ released' = [released EXCEPT ![a] = IF @ = NoData THEN contractsData ELSE Mixed]
    /\ UNCHANGED <<filesVars, art, arePartsLocked, tokenVars, apiVars>>

\* A transaction could not be sent: the task ends there.
AbortPopulate ==
    /\ txs # <<>>
    /\ txs' = <<>> /\ released' = [released EXCEPT ![populating.to] = Mixed]
    /\ UNCHANGED <<filesVars, art, arePartsLocked, populating, additions, tokenVars, apiVars>>

\* addManyColorsToPalette holds a palette to what an index can reach; the others need the
\* parts not to be locked.
Permitted(a, tx) ==
    IF tx.add = "palette" THEN Len(art[a].palette) + Len(tx.items) <= Byte
    ELSE ~arePartsLocked[a]

\* Fault: parts take the place of those that are there.
WithAdded_Replaced(contents, tx) ==
    CASE tx.add = "palette" -> [contents EXCEPT !.palette = @ \o tx.items]
      [] tx.add = "backgrounds" -> [contents EXCEPT !.backgrounds = @ + Len(tx.items)]
      [] OTHER -> [contents EXCEPT !.parts[tx.add] = tx.items]

WithAdded(contents, tx) ==
    CASE tx.add = "palette" -> [contents EXCEPT !.palette = @ \o tx.items]
      [] tx.add = "backgrounds" -> [contents EXCEPT !.backgrounds = @ + Len(tx.items)]
      [] OTHER -> [contents EXCEPT !.parts[tx.add] = @ \o tx.items]

\* The next transaction is mined; it may run out of gas, and those after it go on.
MineTx(enoughGas) ==
    /\ txs # <<>>
    /\ txs' = Tail(txs)
    /\ IF enoughGas /\ Permitted(populating.to, Head(txs))
       THEN art' = [art EXCEPT ![populating.to] = WithAdded(@, Head(txs))] /\ UNCHANGED released
       ELSE released' = [released EXCEPT ![populating.to] = Mixed] /\ UNCHANGED art
    /\ UNCHANGED <<filesVars, arePartsLocked, populating, additions, tokenVars, apiVars>>

\* Calls of the owner, the DAO in the end: addHead and its like, and lockParts.
AddPart(a, kind, image) ==
    /\ ~arePartsLocked[a] /\ additions < MaxAdditions
    /\ art' = [art EXCEPT ![a] = WithAdded(@, [add |-> kind, items |-> <<image>>])]
    /\ additions' = additions + 1
    /\ released' = [released EXCEPT ![a] = Mixed]
    /\ UNCHANGED <<filesVars, arePartsLocked, populating, txs, tokenVars, apiVars>>

LockParts(a) ==
    /\ ~arePartsLocked[a]
    /\ arePartsLocked' = [arePartsLocked EXCEPT ![a] = TRUE]
    /\ UNCHANGED <<filesVars, art, populating, txs, additions, released, tokenVars, apiVars>>

-----------------------------------------------------------------------------
(* NounsSeeder.generateSeed.  A digest is its bytes, the highest first.    *)

Value(bytes) == FoldLeft(LAMBDA value, byte : value * Byte + byte, 0, bytes)

\* uint48(pseudorandomness >> 48 * i)
Uint48(digest, i) ==
    Value(SubSeq(digest, Len(digest) - (i + 1) * Slice + 1, Len(digest) - i * Slice))

generateSeed(digest, contents) ==
    [background |-> Uint48(digest, 0) % contents.backgrounds,
     part |-> [k \in 1..4 |-> Uint48(digest, k) % Len(contents.parts[Kinds[k]])]]

\* mint(): a count of zero is a division by zero, and the mint reverts.
Mint(digest) ==
    /\ Len(nouns) < MaxMinted
    /\ art[descriptor].backgrounds > 0
    /\ \A k \in KindSet : art[descriptor].parts[k] # <<>>
    /\ nouns' = Append(nouns, [digest |-> digest, by |-> descriptor, burned |-> FALSE,
                               seed |-> generateSeed(digest, art[descriptor])])
    /\ UNCHANGED <<filesVars, fillingVars, descriptor, apiVars>>

\* burn(): the noun is gone, its seed stays where it is.
Burn(id) ==
    /\ ~nouns[id].burned
    /\ nouns' = [nouns EXCEPT ![id].burned = TRUE]
    /\ UNCHANGED <<filesVars, fillingVars, descriptor, apiVars>>

\* The DAO has the token ask another descriptor, empty or not.  A locked one is one that is
\* not replaced any more.
SetDescriptor(a) ==
    /\ descriptor' = a
    /\ UNCHANGED <<filesVars, fillingVars, nouns, apiVars>>

\* NounsDescriptor.dataURI(): a part, a background or a color that is not there is a panic.
\* The rects of the parts are drawn one over the other.
Drawn(background, svgs) == [background |-> background, rects |-> svgs]

Has(contents, seed) ==
    /\ seed.background < contents.backgrounds
    /\ \A k \in 1..4 : seed.part[k] < Len(contents.parts[Kinds[k]])

PartOf(contents, seed, k) ==
    GenerateRects(contents.parts[Kinds[k]][seed.part[k] + 1], contents.palette)

genericDataURI(contents, seed) ==
    LET parts == [k \in 1..4 |-> PartOf(contents, seed, k)]
    IN  IF ~Has(contents, seed) \/ \E k \in 1..4 : parts[k].panic THEN Panic
        ELSE Drawn(seed.background, [k \in 1..4 |-> parts[k].part])

\* NounsToken.dataURI(): there is none of a noun that is burned.
dataURI(id) ==
    IF nouns[id].burned THEN Panic ELSE genericDataURI(art[descriptor], nouns[id].seed)

-----------------------------------------------------------------------------
(* nouns-assets/src/utils.ts and what the page and the API make of a noun. *)

\* Fault: a noun's glasses are drawn below its head.
getNounData_GlassesBelow(seed) ==
    [k \in 1..4 |-> LET kind == <<1, 2, 4, 3>>[k]
                   IN  imageData.images[Kinds[kind]][seed.part[kind] + 1]]

getNounData(seed) == [k \in 1..4 |-> imageData.images[Kinds[k]][seed.part[k] + 1]]

\* getNoun of StandaloneNoun: an image that is not there throws.
getNoun(seed) ==
    IF \E k \in 1..4 : seed.part[k] >= Len(imageData.images[Kinds[k]])
    THEN Throws
    ELSE Drawn(seed.background,
               [k \in 1..4 |-> buildSVG(getNounData(seed)[k], imageData.palette)])

\* seeds() of the token: a noun not minted has what the mapping starts with.
NoSeed == [background |-> 0, part |-> [k \in 1..4 |-> 0]]
useNounSeed(id) == IF id \in DOMAIN nouns THEN nouns[id].seed ELSE NoSeed

\* A seed of zeroes is taken for one that is not there.
StandaloneNounWithSeed(id) ==
    IF useNounSeed(id) = NoSeed THEN Blank ELSE getNoun(useNounSeed(id))

\* shiftRightAndCast: the shifted number is written without leading zero bytes, and of
\* that the last bytes are taken.  When it has too few of them "0x" is taken along and the
\* text is no number.
Shifted(digest, i) ==
    LET shifted == SubSeq(digest, 1, Len(digest) - i * Slice)
        digits == {j \in DOMAIN shifted : shifted[j] # 0}
    IN  IF digits = {} THEN <<0>> ELSE SubSeq(shifted, MinOf(digits), Len(shifted))

getPseudorandomPart(digest, i, count) ==
    LET shifted == Shifted(digest, i)
    IN  Value(SubSeq(shifted, Len(shifted) - Slice + 1, Len(shifted))) % count

getNounSeedFromBlockHash(digest) ==
    IF \E i \in 0..4 : Len(Shifted(digest, i)) < Slice
    THEN Throws
    ELSE [background |-> getPseudorandomPart(digest, 0, Backgrounds),
          part |-> [k \in 1..4 |->
                       getPseudorandomPart(digest, k, Len(imageData.images[Kinds[k]]))]]

\* GET /metadata/:tokenId.  The cache is read, the token is asked if it has nothing, the
\* picture is stored, and what the token said is kept for good.  A request may be slow, and
\* ask long after it read the cache.  When the token panics it ends there.
AskToken(id) ==
    /\ Cardinality(requests) < MaxRequests
    /\ LET uri == dataURI(id)
       IN  /\ uri # Panic
           /\ requests' = requests \cup {[id |-> id, uri |-> uri, by |-> descriptor]}
    /\ UNCHANGED <<filesVars, fillingVars, tokenVars, metadata>>

StoreMetadata(request) ==
    /\ requests' = requests \ {request}
    /\ metadata' = With(metadata, request.id, request)
    /\ UNCHANGED <<filesVars, fillingVars, tokenVars>>

-----------------------------------------------------------------------------
ArtNext ==
    \/ EncodeFile \/ WriteImageData \/ NextEdition \/ CopyImageData
    \/ \E a \in Descriptors : Populate(a) \/ LockParts(a) \/ SetDescriptor(a)
    \/ AbortPopulate \/ \E enoughGas \in BOOLEAN : MineTx(enoughGas)
    \/ /\ imageData # NoData
       /\ \E a \in Descriptors, kind \in KindSet : AddPart(a, kind, imageData.images[kind][1])
    \/ \E digest \in Digests : Mint(digest)
    \/ \E id \in DOMAIN nouns : Burn(id) \/ AskToken(id)
    \/ \E request \in requests : StoreMetadata(request)

-----------------------------------------------------------------------------
(* Properties                                                              *)

\* The data of one descriptor, filled by one run in which nothing failed and left alone
\* since, when the page's file begins with it: it may have more parts and colors at the end.
Released(a) == released[a] \notin {NoData, Mixed}

PageHas(data) ==
    /\ imageData # NoData
    /\ IsPrefix(data.palette, imageData.palette) /\ Len(imageData.palette) <= Byte
    /\ \A kind \in KindSet : IsPrefix(data.images[kind], imageData.images[kind])

\* populate-descriptor, NounsDescriptor and StandaloneNoun: while the token asks a descriptor
\* that one run filled, or is filling, without a failure, and the page's file begins with
\* the copy the run took, the token draws every noun minted by that descriptor, and the page
\* draws as the token does whatever the token draws, or not at all when a seed is all zeroes.
PageDrawsTheToken ==
    Released(descriptor) /\ PageHas(released[descriptor]) =>
        \A id \in DOMAIN nouns :
            LET uri == dataURI(id)
            IN  /\ nouns[id].by = descriptor /\ ~nouns[id].burned => uri # Panic
                /\ uri # Panic =>
                       StandaloneNounWithSeed(id) \in
                           {uri} \cup IF nouns[id].seed = NoSeed THEN {Blank} ELSE {}

\* The API's cache against the token, whatever is added, fails or is minted: of a noun that
\* is not burned it says what the token says, as long as the token asks the descriptor it
\* asked then.
MetadataAgrees ==
    \A id \in DOMAIN metadata :
        metadata[id].by = descriptor /\ ~nouns[id].burned => metadata[id].uri = dataURI(id)

\* NounsSeeder against getNounSeedFromBlockHash: the seed that is foretold is the one the
\* noun gets, even while its descriptor is being filled, unless the number is too small to
\* be cast; as long as the library's file counts as many parts as the copy that was added.
SeedForetold ==
    \A id \in DOMAIN nouns :
        LET data == released[nouns[id].by]
        IN  (/\ Released(nouns[id].by) /\ imageData # NoData
             /\ \A kind \in KindSet : Len(data.images[kind]) = Len(imageData.images[kind]))
            => getNounSeedFromBlockHash(nouns[id].digest) \in {nouns[id].seed, Throws}
=============================================================================
