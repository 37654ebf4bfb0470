---------------------------- MODULE ProductImages ----------------------------
(***************************************************************************)
(* Images of a product and of its variants (ProductImageService): a file   *)
(* in the storage and a row that names it.                                 *)
(*                                                                         *)
(* Nothing spans the two: an upload stores the file, clears the primary    *)
(* images of its gallery and inserts the row, a deletion deletes the file  *)
(* and then the row, each in a step of its own.                            *)
(***************************************************************************)
EXTENDS Naturals, FiniteSets

CONSTANTS
    Image,      \* storage keys
    Gallery,    \* the product itself, or one of its variants
    Uploader,   \* requests
    NoImage

VARIABLES
    gallery,    \* galleries whose product or variant exists
    image,      \* product_images: gallery and is_primary
    file,       \* keys in the storage
    uploader,   \* requests in progress
    unlinked,   \* images whose deletion has begun
    crowded     \* two requests were in progress at once

imageVars == <<gallery, image, file, uploader, unlinked, crowded>>

ImageRows == [of : Gallery, primary : BOOLEAN]
Works == [step : {"upload", "clear", "insert", "primary", "chosen", "columns", "unlink", "drop"},
          id : Image, of : Gallery, primary : SUBSET BOOLEAN, saw : SUBSET Image]
ASSUME NoImageAssumption == NoImage \notin Image \cup ImageRows \cup Works
ImagesOf(g) == {i \in Image : image[i] # NoImage /\ image[i].of = g}
Primaries(g) == {i \in ImagesOf(g) : image[i].primary}
Uploads(u, step) == uploader[u] # NoImage /\ uploader[u].step = step

ImagesInit ==
    /\ gallery = Gallery /\ image = [i \in Image |-> NoImage] /\ file = {}
    /\ uploader = [u \in Uploader |-> NoImage] /\ unlinked = {} /\ crowded = FALSE

StartWork(u, work) ==
    /\ uploader[u] = NoImage
    /\ uploader' = [uploader EXCEPT ![u] = work]
    /\ crowded' = (crowded \/ \E o \in Uploader : uploader[o] # NoImage)
Proceed(u, step) == uploader' = [uploader EXCEPT ![u].step = step] /\ UNCHANGED crowded
Finished(u) == uploader' = [uploader EXCEPT ![u] = NoImage] /\ UNCHANGED crowded
(* updateMany: the primary rows it sees. *)
Cleared(rows) == [i \in Image |-> IF i \in rows /\ image[i] # NoImage THEN [image[i] EXCEPT !.primary = FALSE] ELSE image[i]]

-----------------------------------------------------------------------------
(* createProductImage and createVariantImage. *)
CreateProductImage(u, i, g, primary) ==
    /\ g \in gallery /\ image[i] = NoImage /\ i \notin file \cup unlinked
    /\ \A o \in Uploader : uploader[o] # NoImage => uploader[o].id # i
    /\ StartWork(u, [step |-> "upload", id |-> i, of |-> g, primary |-> {primary}, saw |-> {}])
    /\ UNCHANGED <<gallery, image, file, unlinked>>
UploadLater(u) ==
    /\ Uploads(u, "upload")
    /\ Proceed(u, IF TRUE \in uploader[u].primary THEN "clear" ELSE "insert")
    /\ UNCHANGED <<gallery, image, file, unlinked>>
UploadProductImage(u) ==
    /\ Uploads(u, "upload")
    /\ file' = file \cup {uploader[u].id}
    /\ Proceed(u, IF TRUE \in uploader[u].primary THEN "clear" ELSE "insert")
    /\ UNCHANGED <<gallery, image, unlinked>>
ClearPrimaries(u) ==
    /\ Uploads(u, "clear")
    /\ image' = Cleared(Primaries(uploader[u].of))
    /\ Proceed(u, "insert")
    /\ UNCHANGED <<gallery, file, unlinked>>
CreateImageRow(u) ==
    /\ Uploads(u, "insert") /\ uploader[u].of \in gallery
    /\ image' = [image EXCEPT ![uploader[u].id] = [of |-> uploader[u].of, primary |-> TRUE \in uploader[u].primary]]
    /\ Finished(u)
    /\ UNCHANGED <<gallery, file, unlinked>>

(* updateImage: the transaction of setPrimary, then the columns, is_primary among them. *)
UpdateImage(u, i, primary) ==
    /\ image[i] # NoImage
    /\ StartWork(u, [step |-> IF primary = {TRUE} THEN "primary" ELSE "columns", id |-> i, of |-> image[i].of,
                     primary |-> primary, saw |-> {}])
    /\ UNCHANGED <<gallery, image, file, unlinked>>
SetPrimary(u) ==
    /\ Uploads(u, "primary")
    /\ uploader' = [uploader EXCEPT ![u].step = "chosen", ![u].saw = Primaries(uploader[u].of)]
    /\ UNCHANGED <<gallery, image, file, unlinked, crowded>>
SetPrimaryOnly(u) ==
    /\ Uploads(u, "chosen") /\ image[uploader[u].id] # NoImage
    /\ image' = [image EXCEPT ![uploader[u].id].primary = TRUE]
    /\ Proceed(u, "columns")
    /\ UNCHANGED <<gallery, file, unlinked>>
CommitPrimary(u) ==
    /\ Uploads(u, "chosen") /\ image[uploader[u].id] # NoImage
    /\ image' = [Cleared(uploader[u].saw) EXCEPT ![uploader[u].id].primary = TRUE]
    /\ Proceed(u, "columns")
    /\ UNCHANGED <<gallery, file, unlinked>>
UpdateColumns(u) ==
    LET i == uploader[u].id
    IN /\ Uploads(u, "columns") /\ image[i] # NoImage
       /\ image' = [image EXCEPT ![i].primary = IF uploader[u].primary = {} THEN @ ELSE TRUE \in uploader[u].primary]
       /\ Finished(u)
       /\ UNCHANGED <<gallery, file, unlinked>>

(* deleteImage: the file, then the row. *)
DeleteImage(u, i) ==
    /\ image[i] # NoImage
    /\ StartWork(u, [step |-> "unlink", id |-> i, of |-> image[i].of, primary |-> {}, saw |-> {}])
    /\ unlinked' = unlinked \cup {i}
    /\ UNCHANGED <<gallery, image, file>>
DeleteFile(u) ==
    /\ Uploads(u, "unlink")
    /\ file' = file \ {uploader[u].id}
    /\ Proceed(u, "drop")
    /\ UNCHANGED <<gallery, image, unlinked>>
DeleteImageRow(u) ==
    /\ Uploads(u, "drop") /\ image[uploader[u].id] # NoImage
    /\ image' = [image EXCEPT ![uploader[u].id] = NoImage]
    /\ Finished(u)
    /\ UNCHANGED <<gallery, file, unlinked>>

(* The product or the variant is deleted: its rows go with it, its files stay. *)
DeleteGallery(g) ==
    /\ g \in gallery
    /\ gallery' = gallery \ {g}
    /\ image' = [i \in Image |-> IF i \in ImagesOf(g) THEN NoImage ELSE image[i]]
    /\ UNCHANGED <<file, uploader, unlinked, crowded>>
(* The storage or the database fails, the row is gone, or the server stops. *)
DropWork(u) == uploader[u] # NoImage /\ Finished(u) /\ UNCHANGED <<gallery, image, file, unlinked>>

ImagesNext ==
    \/ \E g \in Gallery : DeleteGallery(g)
    \/ \E u \in Uploader, i \in Image :
        \/ \E g \in Gallery, p \in BOOLEAN : CreateProductImage(u, i, g, p)
        \/ \E p \in {{TRUE}, {FALSE}, {}} : UpdateImage(u, i, p)
        \/ DeleteImage(u, i)
    \/ \E u \in Uploader :
        \/ UploadProductImage(u) \/ ClearPrimaries(u) \/ CreateImageRow(u)
        \/ SetPrimary(u) \/ CommitPrimary(u) \/ UpdateColumns(u)
        \/ DeleteFile(u) \/ DeleteImageRow(u) \/ DropWork(u)

ImagesSpec == ImagesInit /\ [][ImagesNext]_imageVars

-----------------------------------------------------------------------------
(* Rows have the values of the schema and belong to a product or variant that exists. *)
ImagesTypeOK ==
    /\ gallery \in SUBSET Gallery /\ file \in SUBSET Image /\ unlinked \in SUBSET Image /\ crowded \in BOOLEAN
    /\ image \in [Image -> ImageRows \cup {NoImage}]
    /\ \A i \in Image : image[i] # NoImage => image[i].of \in gallery
    /\ uploader \in [Uploader -> Works \cup {NoImage}]

(* At most one primary image of a product and of a variant, while requests do not overlap
   (product-images.service.js:28, repository setPrimary). *)
OnePrimaryInTurn == crowded \/ \A g \in Gallery : Cardinality(Primaries(g)) <= 1

(* An image that is listed has its file, whatever fails or overlaps: the row comes after the upload
   (product-images.service.js:24, 34); only a deletion that stops half-way leaves it without. *)
RowHasFile == \A i \in Image : image[i] # NoImage => i \in file \cup unlinked

(* The first for overlapping requests, which TLC refutes. *)
OnePrimaryImage == \A g \in Gallery : Cardinality(Primaries(g)) <= 1

=============================================================================
