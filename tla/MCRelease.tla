----------------------------- MODULE MCRelease -----------------------------
(***************************************************************************)
(* How a release of Nouns comes about, for TLC: the encoding of pictures,  *)
(* the art from the files to a token and the deployment of the contracts.  *)
(* A behaviour is of one of them, with the others left alone.              *)
(***************************************************************************)
EXTENDS NounsArt, Deployment

CONSTANT Parts  \* what a run is about

VARIABLE part
releaseVars == <<part, artVars, deploymentVars>>

\* Pictures of five by four pixels with a clear frame.
Clear == [color |-> "k", clear |-> TRUE]
Pixel(c) == [color |-> c, clear |-> FALSE]
Inside == (1..3) \X (1..3)
Framing(inner) ==
    [y \in 0..3 |-> [x \in 0..4 |-> IF <<y, x>> \in Inside THEN inner[y, x] ELSE Clear]]

MCHex == {"k", "r"} \cup {ToString(i) : i \in 0..8}

\* Every picture of two colors, and two with so many that the indexes fill a byte.
Colorful(n) == Framing([yx \in Inside |-> Pixel(ToString((3 * yx[1] + yx[2] - 4) % n))])
Plain(cells, c) == Framing([yx \in Inside |-> IF yx \in cells THEN Pixel(c) ELSE Clear])
Few == {Colorful(6), Colorful(9), Plain({<<2, 2>>}, "r"), Plain({<<1, 1>>, <<3, 3>>}, "k")}
Lens == Plain({<<2, 2>>, <<2, 3>>}, "0")
MCPictures ==
    Few \cup {Lens} \cup {Framing(inner) : inner \in [Inside -> {Clear, Pixel("k"), Pixel("r")}]}

\* The next edition has glasses more, at the end.
First == [bodies |-> <<"b">>, accessories |-> <<"a1", "a2">>,
          heads |-> <<"h1", "h2", "h3">>, glasses |-> <<"g">>]
MCEditions == <<First, [First EXCEPT !["glasses"] = <<"g", "g2">>]>>
MCPictureOf ==
    [name \in Names |->
        CASE name = "b" -> Plain({3} \X (1..3), "r")
          [] name = "a1" -> Plain({}, "r")
          [] name = "a2" -> Plain({<<3, 2>>}, "k")
          [] name = "h3" -> Plain({<<3, 1>>, <<3, 3>>}, "k")
          [] name = "h1" -> Plain({1, 2} \X (1..3), "r")
          [] name = "h2" -> Plain({<<1, 1>>, <<1, 3>>, <<2, 2>>}, "r")
          [] name = "g" -> Plain({<<2, 1>>, <<2, 2>>}, "k")
          [] name = "g2" -> Lens]

\* Digests of eleven bytes below eight: the second is too small to be cast.
MCDigests ==
    {<<1, 0, 3, 0, 2, 1, 2, 3, 2, 1, 0>>, <<0, 0, 0, 1, 1, 1, 1, 3, 1, 1, 3>>}

\* A second picture follows on some of the first.
Encoding ==
    /\ part = "encode"
    /\ \E name \in Names :
          \E picture \in IF images = <<>> THEN Pictures ELSE Few :
             /\ name \in {"b", "g"}
             /\ images = <<>> => name = "b"
             /\ Cardinality(DOMAIN images) < 2 /\ \A n \in DOMAIN images : painted[n] \in Few
             /\ encodeImage(name, picture)
    /\ UNCHANGED <<part, edition, imageData, contractsData, fillingVars, tokenVars, apiVars,
                   deploymentVars>>

\* While encode.ts runs nothing else does: it reads nothing of the others, and they only
\* what it writes in the end.
Encodes == Cardinality(DOMAIN images) < Len(AllFiles) \/ imageData # Data

\* Bound: once something went wrong all that may be mined is mined.
Lost ==
    /\ txs # <<>> /\ txs' # txs /\ Permitted(populating.to, Head(txs))
    /\ art' # [art EXCEPT ![populating.to] = WithAdded(@, Head(txs))]

\* Bound: a run fails, or is mixed with others, only at the palette or the heads.
FailsThere ==
    txs # <<>> /\ released' # released =>
        Head(txs).add \in {"palette", "heads"}

\* Bound: no release comes while transactions wait, which have their data already.
ReleasesApart == edition' # edition => txs = <<>>

\* Bound: of the parts added one by one all are heads.
AddsHeads ==
    additions' # additions /\ txs' = txs =>
        \E a \in Descriptors : Len(art'[a].parts["heads"]) > Len(art[a].parts["heads"])

Releasing ==
    /\ part = "art"
    /\ IF Encodes THEN EncodeFile \/ WriteImageData ELSE ArtNext
    /\ (\E a \in Descriptors : released[a] = Mixed) => ~Lost
    /\ FailsThere /\ ReleasesApart /\ AddsHeads
    /\ UNCHANGED <<part, deploymentVars>>

Deploying ==
    /\ part = "deploy" /\ DeploymentNext
    /\ UNCHANGED <<part, artVars>>

ReleaseInit ==
    /\ part \in Parts
    /\ ArtInit /\ DeploymentInit
    /\ part # "deploy" => network = "local"

ReleaseNext == Encoding \/ Releasing \/ Deploying

\* A run of run-local is fourteen transactions, of deploy ten.
MCMaxTxs == [local |-> 14, public |-> 12]

Symmetry == Permutations(Runs) \cup Permutations(Descriptors)

ReleaseSpec == ReleaseInit /\ [][ReleaseNext]_releaseVars
=============================================================================
