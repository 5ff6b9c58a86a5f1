---------------------------- MODULE WebPlayground ----------------------------
(***************************************************************************)
(* The Playground page: nouns are drawn with random parts, or with those   *)
(* that are selected, and a file of one's own becomes a part.  The images  *)
(* are those of the library nouns-assets, which the whole application      *)
(* draws from: a part that is uploaded changes them until the application  *)
(* is loaded again.  Files are read while the user goes on.  An image is   *)
(* its file name.  Nouns once drawn stay as they are and are left out, as  *)
(* is the mark that a file was valid or not.                               *)
(***************************************************************************)
EXTENDS Integers, Sequences, FiniteSets

CONSTANTS
    Shipped,        \* the names of the images of every trait, by title
    Uploadable,     \* the titles in traitKeyToTitle: all but the background
    DefaultTitle,   \* DEFAULT_TRAIT_TYPE
    UserFiles,      \* files the user has
    ValidFiles,     \* those of them that are images of 32 by 32 pixels
    Random,         \* what a select shows that selects nothing
    NoFile,
    MaxUploads      \* bound: images uploaded

Titles == DOMAIN Shipped

\* The names an image may have.
ShippedNames(title) == {Shipped[title][i] : i \in DOMAIN Shipped[title]}
Names == UserFiles \cup UNION {ShippedNames(title) : title \in Titles}

ASSUME PlaygroundAssumption ==
    /\ Uploadable \subseteq Titles /\ DefaultTitle \in Uploadable
    /\ ValidFiles \subseteq UserFiles /\ NoFile \notin UserFiles
    /\ Shipped \in [Titles -> Seq(Names)] /\ \A title \in Titles : Shipped[title] # <<>>
    /\ Random \notin Names
    /\ MaxUploads \in Nat

VARIABLES
    images,         \* ImageData.images, by title, shared by all pages
    traits,         \* the names the selects offer
    modSeed,        \* the index of every trait that is not random
    selectIndexes,  \* the index every select was last set to, -1 for random
    pendingTrait,   \* the file that can be uploaded, and as what
    reading,        \* files whose reader has not loaded yet
    input,          \* the file the file input shows
    chosenType,     \* what the select "Custom Trait Type" shows while it is there
    rechosen        \* history: a file was chosen before the last one was done with

playgroundVars == <<images, traits, modSeed, selectIndexes, pendingTrait, reading, input,
                    chosenType, rechosen>>

NoTrait == [filename |-> NoFile, type |-> DefaultTitle]

PlaygroundInit ==
    /\ images = Shipped /\ traits = Shipped
    /\ modSeed = <<>> /\ selectIndexes = <<>>
    /\ pendingTrait = NoTrait /\ reading = {} /\ input = NoFile
    /\ chosenType = DefaultTitle /\ rechosen = FALSE

Set(f, title, value) == [t \in DOMAIN f \cup {title} |-> IF t = title THEN value ELSE f[t]]
Deleted(f, title) == [t \in DOMAIN f \ {title} |-> f[t]]

\* Fault: the names are taken once, when the page is first shown.
TraitsAfter_Once(now) == traits

\* The effect that runs whenever modSeed or pendingTrait has changed: the names are those
\* of the library by then.
TraitsAfter(now) == now

traitButtonHandler(title, traitIndex) ==
    modSeed' = IF traitIndex < 0 THEN Deleted(modSeed, title)
               ELSE Set(modSeed, title, traitIndex)

\* An option of the select of a trait; the first one is random.
SelectTrait(title, index) ==
    /\ traitButtonHandler(title, index)
    /\ selectIndexes' = Set(selectIndexes, title, index)
    /\ traits' = TraitsAfter(images)
    /\ UNCHANGED <<images, pendingTrait, reading, input, chosenType, rechosen>>

\* validateAndSetCustomTrait up to readAsArrayBuffer.
ChooseFile(file) ==
    /\ reading' = reading \cup {file}
    /\ input' = file
    /\ rechosen' = (rechosen \/ reading # {} \/ pendingTrait # NoTrait)
    /\ UNCHANGED <<images, traits, modSeed, selectIndexes, pendingTrait, chosenType>>

\* onload.  The type goes back to the default one; the select keeps what it shows, unless it
\* was not there.
ReaderLoads(file) ==
    /\ file \in reading
    /\ reading' = reading \ {file}
    /\ IF file \in ValidFiles
       THEN /\ pendingTrait' = [filename |-> file, type |-> DefaultTitle]
            /\ chosenType' = IF pendingTrait = NoTrait THEN DefaultTitle ELSE chosenType
            /\ traits' = TraitsAfter(images)
            /\ UNCHANGED input
       ELSE /\ input' = NoFile
            /\ UNCHANGED <<pendingTrait, chosenType, traits>>
    /\ UNCHANGED <<images, modSeed, selectIndexes, rechosen>>

ChooseType(title) ==
    /\ pendingTrait # NoTrait
    /\ pendingTrait' = [pendingTrait EXCEPT !.type = title]
    /\ chosenType' = title
    /\ traits' = TraitsAfter(images)
    /\ UNCHANGED <<images, modSeed, selectIndexes, reading, input, rechosen>>

\* The image comes first among those of its type, and is selected.
uploadCustomTrait ==
    /\ pendingTrait # NoTrait
    /\ LET title == pendingTrait.type
       IN  /\ images' = [images EXCEPT ![title] = <<pendingTrait.filename>> \o @]
           /\ traitButtonHandler(title, 0)
           /\ selectIndexes' = Set(selectIndexes, title, 0)
    /\ traits' = TraitsAfter(images')
    /\ pendingTrait' = NoTrait /\ input' = NoFile
    /\ rechosen' = (reading # {})
    /\ UNCHANGED <<reading, chosenType>>

\* To another page and back: only the library is not forgotten.
Leave ==
    /\ traits' = images
    /\ modSeed' = <<>> /\ selectIndexes' = <<>>
    /\ pendingTrait' = NoTrait /\ reading' = {} /\ input' = NoFile
    /\ chosenType' = DefaultTitle /\ rechosen' = FALSE
    /\ UNCHANGED images

Uploads == {upload \in Uploadable \X (1..MaxUploads) :
               upload[2] <= Len(images[upload[1]]) - Len(Shipped[upload[1]])}

PlaygroundNext ==
    \/ \E title \in Titles : \E index \in -1..Len(traits[title]) - 1 : SelectTrait(title, index)
    \/ \E file \in UserFiles : ChooseFile(file) \/ ReaderLoads(file)
    \/ \E title \in Uploadable : ChooseType(title)
    \/ Cardinality(Uploads) < MaxUploads /\ uploadCustomTrait
    \/ Leave

-----------------------------------------------------------------------------
(* Property                                                                *)

\* The value of a select: the name at its index, or no option's and thus the first one.
Shown(title) ==
    IF title \in DOMAIN selectIndexes /\ selectIndexes[title] + 1 \in DOMAIN traits[title]
    THEN traits[title][selectIndexes[title] + 1]
    ELSE Random

\* generateNounSvg: what a noun may have for a part.
Parts(title) ==
    IF title \in DOMAIN modSeed THEN {images[title][modSeed[title] + 1]}
    ELSE {images[title][i] : i \in DOMAIN images[title]}

\* The Playground: a noun has the parts the selects show, though every upload moves the
\* images and their indexes; and what can be uploaded is the file the input shows, as the
\* type its select shows, unless a file was chosen before the last one was uploaded: then
\* the type falls back behind the select's back, and files may load in another order.
DrawnAsSelected ==
    /\ \A title \in Titles :
          IF Shown(title) = Random THEN title \notin DOMAIN modSeed
          ELSE Parts(title) = {Shown(title)}
    /\ pendingTrait # NoTrait /\ ~rechosen =>
          pendingTrait.type = chosenType /\ pendingTrait.filename = input
=============================================================================
