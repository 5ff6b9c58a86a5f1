----------------------------- MODULE NounsImage -----------------------------
(***************************************************************************)
(* How the pictures of Nouns are stored and drawn.  The SDK encodes a      *)
(* picture as bounds and runs of one colour (image.ts), several of them    *)
(* over one palette (png-collection-encoder.ts).  An encoded picture is    *)
(* drawn by two programs: the page's (svg-builder.ts) and the contract's   *)
(* (MultiPartRLEToSVG.sol).  The text of the encoding and of the SVG is    *)
(* left out: a byte is a number below Byte, a rect a record.               *)
(***************************************************************************)
EXTENDS Integers, Sequences, FiniteSets, SequencesExt

CONSTANTS
    Width, Height,  \* of a picture: 32 by 32
    LastLine,       \* the line encode takes for the last: 31
    Byte,           \* the values of a byte: 256
    Hex,            \* the colors of pixels
    NoColor,        \* '', the key at index 0 of every palette
    Names,          \* the names given to pictures
    Pictures        \* the pictures encoded in a run

ASSUME ImageAssumption ==
    /\ Width \in Nat \ {0} /\ Height \in Nat \ {0}
    /\ LastLine \in Nat
    /\ Byte \in Nat /\ Width < Byte /\ Height < Byte
    /\ NoColor \notin Hex

\* Pictures are square, 32 by 32, and line 31 is their last.  The contract looks the lines
\* up in a table of 33 numbers, the columns' too.
ASSUME SizeAssumption == Height <= Width /\ LastLine = Height - 1

\* What rgbaAt tells of a pixel: clear is an alpha of zero.
Pixels == [color : Hex, clear : BOOLEAN]

ASSUME PicturesAssumption ==
    Pictures \subseteq [0..Height - 1 -> [0..Width - 1 -> Pixels]]

VARIABLES
    colors,     \* the keys of _colors in the order they came in; the index is the place
    images,     \* _images: the encoded picture of every name so far
    painted     \* history: the picture behind every image

encoderVars == <<colors, images, painted>>

With(f, x, value) == [y \in DOMAIN f \cup {x} |-> IF y = x THEN value ELSE f[y]]
MinOf(S) == CHOOSE x \in S : \A y \in S : x <= y
MaxOf(S) == CHOOSE x \in S : \A y \in S : y <= x

-----------------------------------------------------------------------------
(* Image.encode                                                            *)

\* The pixels line by line, as the loops visit them.
Scan(picture) ==
    [i \in 1..Width * Height |-> picture[(i - 1) \div Width][(i - 1) % Width]]

\* A color is new when it does not exist yet, be its pixel clear or not.
ColorsAfter(before, picture) ==
    FoldLeft(LAMBDA seen, p : IF Contains(seen, p.color) THEN seen ELSE Append(seen, p.color),
             before, Scan(picture))

ColorIndex(palette, pixel) ==
    IF pixel.clear THEN 0
    ELSE (CHOOSE i \in DOMAIN palette : palette[i] = pixel.color) - 1

\* A pixel lengthens the rect to its left if that is of its color, or begins one.
appendPixelToRect(rects, colorIndex) ==
    IF rects = <<>> \/ rects[Len(rects)].colorIndex # colorIndex
    THEN Append(rects, [length |-> 1, colorIndex |-> colorIndex])
    ELSE [rects EXCEPT ![Len(rects)].length = @ + 1]

Rects(line, palette) ==
    FoldLeft(LAMBDA rects, pixel : appendPixelToRect(rects, ColorIndex(palette, pixel)),
             <<>>, [x \in 1..Width |-> line[x - 1]])

isEmptyRow(rects) == rects[1].length = Width /\ rects[1].colorIndex = 0

\* Fault: the bottom that was found is kept when there is more content below it.
BoundsAfterLine_KeepsBottom(bounds, y, empty) ==
    LET top == IF ~empty /\ bounds.top = 0 THEN y ELSE bounds.top
        bottom == IF top # 0 /\ bounds.bottom = 0
                  THEN (IF empty THEN y - 1 ELSE IF y = LastLine THEN y ELSE 0)
                  ELSE bounds.bottom
    IN  [top |-> top, bottom |-> bottom]

\* updateImageBounds: top and bottom after line y.  Zero stands for "not found yet", so
\* that a first line with content is not kept as the top once another one has content.
BoundsAfterLine(bounds, y, empty) ==
    LET top == IF ~empty /\ bounds.top = 0 THEN y ELSE bounds.top
        bottom == IF top = 0 THEN bounds.bottom
                  ELSE IF empty THEN (IF bounds.bottom = 0 THEN y - 1 ELSE bounds.bottom)
                  ELSE IF y = LastLine THEN y
                  ELSE 0
    IN  [top |-> top, bottom |-> bottom]

Bounds(rows) ==
    LET after[y \in 0..Height] ==
            IF y = 0 THEN [top |-> 0, bottom |-> 0]
            ELSE BoundsAfterLine(after[y - 1], y - 1, isEmptyRow(rows[y - 1]))
    IN  after[Height]

\* getEncodedRow: the first and the last rect lose what is outside of the bounds, and
\* are left out when nothing is left of them.
EncodedRow(rects, left, right) ==
    LET n == Len(rects)
        margin == Width - right
        length(i) == CASE n = 1 -> right - left
                       [] n > 1 /\ i = 1 /\ rects[i].length >= left -> rects[i].length - left
                       [] n > 1 /\ i = n /\ rects[i].length >= margin -> rects[i].length - margin
                       [] OTHER -> rects[i].length
    IN  FlattenSeq([i \in 1..n |->
            IF n > 1 /\ length(i) = 0 THEN <<>>
            ELSE <<[length |-> length(i), colorIndex |-> rects[i].colorIndex]>>])

\* Buffer.from keeps the low byte of every number.
Bytes(rects) ==
    [i \in DOMAIN rects |-> [length |-> rects[i].length % Byte,
                             colorIndex |-> rects[i].colorIndex % Byte]]

\* The lines outside of top and bottom are deleted, those in between encoded.
encode(picture, palette) ==
    LET rows == [y \in 0..Height - 1 |-> Rects(picture[y], palette)]
        bounds == Bounds(rows)
        kept == bounds.top..bounds.bottom
        left == IF kept = {} THEN 0 ELSE MinOf({rows[y][1].length : y \in kept})
        right == IF kept = {} THEN 0
                 ELSE MaxOf({Width - rows[y][Len(rows[y])].length : y \in kept})
        line(i) == bounds.top + i - 1
        encoded == [i \in 1..Cardinality(kept) |-> EncodedRow(rows[line(i)], left, right)]
    IN  IF kept = {0} /\ isEmptyRow(rows[0])
        THEN [top |-> 0, right |-> 0, left |-> 0, rects |-> <<>>]
        ELSE [top |-> bounds.top, right |-> right, left |-> left,
              rects |-> Bytes(FlattenSeq(encoded))]

-----------------------------------------------------------------------------
(* The drawings.  A rect of an SVG has height one and covers what is below *)
(* it; an index without a color draws with none at all.                    *)

Fill(palette, index) == IF index < Len(palette) THEN palette[index + 1] ELSE NoColor

\* The place after a rect: at the right bound comes the next line.
Moved(at, rect, image) ==
    IF at.x + rect.length = image.right
    THEN [x |-> image.left, y |-> at.y + 1]
    ELSE [x |-> at.x + rect.length, y |-> at.y]

\* buildSVG for one part.
buildSVG(image, palette) ==
    FoldLeft(LAMBDA state, rect :
                [at |-> Moved(state.at, rect, image),
                 svg |-> IF rect.colorIndex = 0 THEN state.svg
                         ELSE Append(state.svg,
                                     [width |-> rect.length, x |-> state.at.x, y |-> state.at.y,
                                      fill |-> Fill(palette, rect.colorIndex)])],
             [at |-> [x |-> image.left, y |-> image.top], svg |-> <<>>],
             image.rects).svg

\* _generateSVGRects for one part: rects are gathered four at a time.  A number that the
\* lookup table or the palette does not have is a panic.
GenerateRects(image, palette) ==
    LET drawn == FoldLeft(
            LAMBDA state, rect :
               LET full == Append(state.buffer,
                                  [width |-> rect.length, x |-> state.at.x, y |-> state.at.y,
                                   fill |-> Fill(palette, rect.colorIndex)])
                   inTables == /\ rect.length <= Width
                               /\ state.at.x <= Width /\ state.at.y <= Width
                               /\ rect.colorIndex < Len(palette)
                   flush == Len(full) >= 4
               IN  [at |-> Moved(state.at, rect, image),
                    buffer |-> IF rect.colorIndex = 0 THEN state.buffer
                               ELSE IF flush THEN <<>> ELSE full,
                    part |-> IF rect.colorIndex # 0 /\ flush THEN state.part \o full
                             ELSE state.part,
                    panic |-> state.panic \/ (rect.colorIndex # 0 /\ ~inTables)],
            [at |-> [x |-> image.left, y |-> image.top], buffer |-> <<>>, part |-> <<>>,
             panic |-> FALSE],
            image.rects)
    IN  [panic |-> drawn.panic, part |-> drawn.part \o drawn.buffer]

\* What is seen of the rects of an SVG.
Seen(svg) ==
    [y \in 0..Height - 1 |-> [x \in 0..Width - 1 |->
        LET over == {i \in DOMAIN svg :
                        svg[i].y = y /\ x \in svg[i].x..(svg[i].x + svg[i].width - 1)}
        IN  IF over = {} THEN NoColor ELSE svg[MaxOf(over)].fill]]

-----------------------------------------------------------------------------
(* PNGCollectionEncoder                                                    *)

EncoderInit == colors = <<NoColor>> /\ images = <<>> /\ painted = <<>>

\* Every run of encode.ts makes an encoder of its own.
NewEncoder == colors' = <<NoColor>> /\ images' = <<>> /\ painted' = <<>>

\* Of two pictures with one name only the second is kept.
encodeImage(name, picture) ==
    /\ colors' = ColorsAfter(colors, picture)
    /\ images' = With(images, name, encode(picture, colors'))
    /\ painted' = With(painted, name, picture)

-----------------------------------------------------------------------------
(* Properties                                                              *)

\* The pictures the bounds are made for, and all there are in nouns-assets: clear in the
\* first line and in the first and the last column.
Framed(picture) ==
    /\ \A x \in 0..Width - 1 : picture[0][x].clear
    /\ \A y \in 0..Height - 1 : picture[y][0].clear /\ picture[y][Width - 1].clear

AsPainted(picture, image, palette) ==
    LET expected == [y \in 0..Height - 1 |-> [x \in 0..Width - 1 |->
                        IF picture[y][x].clear THEN NoColor ELSE picture[y][x].color]]
        generated == GenerateRects(image, palette)
    IN  Framed(picture) /\ Len(palette) <= Byte
            => /\ Seen(buildSVG(image, palette)) = expected
               /\ ~generated.panic
               /\ Seen(generated.part) = expected

\* image.ts and both programs that draw: every picture encoded so far is drawn as it was
\* painted, by the page and by the contract, over the palette as it grows with the next one,
\* and as long as its indexes fit into a byte.
DrawnAsPainted ==
    [][encoderVars' # encoderVars =>
           \A name \in DOMAIN images' : AsPainted(painted'[name], images'[name], colors')]_encoderVars
=============================================================================
