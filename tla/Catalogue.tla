------------------------------ MODULE Catalogue ------------------------------
(***************************************************************************)
(* What a merchant's products refer to: categories in two levels           *)
(* (category_handlers.go) and uploaded images (file_handlers.go,           *)
(* internal/media/local_storage.go), with the parts of creating, editing   *)
(* and deleting a product that touch them (product_handlers.go).           *)
(*                                                                         *)
(* An upload takes several steps, on disk and in the database, and may end *)
(* at each: requests of any number of uploads interleave. Categories and   *)
(* products of one merchant change by one request after the other; the     *)
(* handlers do not lock the rows they refer to, so requests that overlap   *)
(* could break what is shown here (see the README). The status of a        *)
(* product is left to Inventory: any live product may be edited or         *)
(* deleted here. Its cover is the first of its images.                     *)
(***************************************************************************)
EXTENDS Integers

CONSTANTS
  Rows,      \* ids of category rows
  Names,     \* of categories
  Products,
  Files,     \* ids of file rows; a file's key names it
  Uploads,   \* upload requests at the same time; the image each one brings
  None

ASSUME CatalogueAssumption ==
  /\ Rows \subseteq Nat \ {0}
  /\ None \notin Uploads \cup Names /\ "partial" \notin Uploads /\ None # "partial"

VARIABLES
  category,  \* categories
  product,   \* products and product_images
  file,      \* files.scan_status, or that the row is not there yet or no longer
  object,    \* what is stored under the file's key
  upload,    \* what each upload request is doing
  doomed     \* files deleted with their product, whose objects are to be removed

vars == <<category, product, file, object, upload, doomed>>
shop == <<category, product>>
media == <<file, object, upload, doomed>>

NoCategory == [status |-> "absent", level |-> 0, parent |-> 0, name |-> None]

NoProduct == [status |-> "absent", category |-> 0, images |-> {}]

Idle == [step |-> "idle", file |-> None]

Init ==
  /\ category = [r \in Rows |-> NoCategory]
  /\ product = [p \in Products |-> NoProduct]
  /\ file = [f \in Files |-> "absent"]
  /\ object = [f \in Files |-> None]
  /\ upload = [u \in Uploads |-> Idle]
  /\ doomed = {}

-----------------------------------------------------------------------------
(* Categories. *)

Live(r) == category[r].status \in {"ENABLED", "DISABLED"}

Siblings(level, parent, name) ==
  {r \in Rows : /\ category[r].status # "absent" /\ category[r].level = level
                /\ category[r].parent = parent /\ category[r].name = name}

\* A second level needs a live first one.
ParentPasses(level, parent) ==
  \/ level = 1 /\ parent = 0
  \/ level = 2 /\ parent \in Rows /\ Live(parent) /\ category[parent].level = 1

IsFirst(r, rows) == r \in rows /\ \A s \in rows : r <= s

\* The first row of that name is taken: one that was deleted comes back, a live one refuses.
CreateCategory(level, parent, name) ==
  LET same == Siblings(level, parent, name)
      free == {r \in Rows : category[r].status = "absent"}
  IN /\ ParentPasses(level, parent)
     /\ \E r \in Rows :
          \/ /\ IsFirst(r, same) /\ ~Live(r)
             /\ category' = [category EXCEPT ![r].status = "ENABLED"]
          \/ /\ same = {} /\ IsFirst(r, free)
             /\ category' = [category EXCEPT ![r] =
                   [status |-> "ENABLED", level |-> level, parent |-> parent, name |-> name]]
     /\ UNCHANGED <<product, media>>

\* Only live rows stand in the way of a new name.
CategoryNameConflict(r, name) ==
  \E s \in Siblings(category[r].level, category[r].parent, name) \ {r} : Live(s)

UpdateCategory(r, name, status) ==
  /\ Live(r) /\ (name # category[r].name => ~CategoryNameConflict(r, name))
  /\ category' = [category EXCEPT ![r].name = name, ![r].status = status]
  /\ UNCHANGED <<product, media>>

LiveProducts == {p \in Products : product[p].status = "live"}

HasNoProducts(r) == \A p \in LiveProducts : product[p].category # r

Children(r) == {s \in Rows : Live(s) /\ category[s].parent = r}

\* A defect: the products of the second level do not keep the first.
DeletesOwnOnly(r) == {r}

\* A first level goes with its children, so their products keep it.
Deletes(r) == {r} \cup Children(r)

DeleteCategory(r) ==
  /\ Live(r) /\ \A s \in Deletes(r) : HasNoProducts(s)
  /\ category' = [s \in Rows |-> IF s \in Deletes(r) THEN [category[s] EXCEPT !.status = "deleted"]
                                 ELSE category[s]]
  /\ UNCHANGED <<product, media>>

-----------------------------------------------------------------------------
(* Products. *)

UsableCategory(r) == category[r].status = "ENABLED" /\ category[r].level = 2

UsableImages(fs) == fs # {} /\ \A f \in fs : file[f] = "PASS"

CreateProduct(p, r, fs) ==
  /\ product[p].status = "absent" /\ UsableCategory(r) /\ UsableImages(fs)
  /\ product' = [product EXCEPT ![p] = [status |-> "live", category |-> r, images |-> fs]]
  /\ UNCHANGED <<category, media>>

\* What the request leaves out stays, unchecked. Images dropped here keep their rows.
UpdateProduct(p, r, fs) ==
  /\ product[p].status = "live"
  /\ r = product[p].category \/ UsableCategory(r)
  /\ fs = product[p].images \/ UsableImages(fs)
  /\ product' = [product EXCEPT ![p].category = r, ![p].images = fs]
  /\ UNCHANGED <<category, media>>

\* A defect: nobody asks who else shows the image.
GoWithUnasked(p) == product[p].images

\* The images no other product shows.
GoWith(p) == product[p].images \ UNION {product[q].images : q \in LiveProducts \ {p}}

\* A defect: the objects are removed of all images, not only of the deleted rows.
DoomedAll(p) == doomed \cup product[p].images

Doomed(p) == doomed \cup GoWith(p)

DeleteProduct(p) ==
  /\ product[p].status = "live"
  /\ product' = [product EXCEPT ![p] = [NoProduct EXCEPT !.status = "deleted"]]
  /\ file' = [f \in Files |-> IF f \in GoWith(p) THEN "deleted" ELSE file[f]]
  /\ doomed' = Doomed(p)
  /\ UNCHANGED <<category, object, upload>>

\* After the commit, unless the server dies first.
RemoveObject(f) ==
  /\ f \in doomed
  /\ doomed' = doomed \ {f}
  /\ object' = [object EXCEPT ![f] = None]
  /\ UNCHANGED <<shop, file, upload>>

ForgetObject(f) ==
  /\ f \in doomed
  /\ doomed' = doomed \ {f}
  /\ UNCHANGED <<shop, file, object, upload>>

-----------------------------------------------------------------------------
(* Uploads. *)

Presign(f) ==
  /\ file[f] = "absent"
  /\ file' = [file EXCEPT ![f] = "PENDING"]
  /\ UNCHANGED <<shop, object, upload, doomed>>

GoTo(u, step) == upload' = [upload EXCEPT ![u].step = step]

\* The row is found, whatever its status, and the image processed.
BeginUpload(u, f) ==
  /\ upload[u] = Idle /\ file[f] \in {"PENDING", "PASS"}
  /\ upload' = [upload EXCEPT ![u] = [step |-> "publish", file |-> f]]
  /\ UNCHANGED <<shop, file, object, doomed>>

\* A defect: the object is put in place over another one.
MayReplace(f) == TRUE

MayPublish(f) == object[f] = None

\* The finished object appears by a hard link, or it is created in place and then written.
Publish(u) ==
  LET f == upload[u].file
  IN /\ upload[u].step = "publish" /\ MayPublish(f)
     /\ \/ object' = [object EXCEPT ![f] = u] /\ GoTo(u, "save")
        \/ object' = [object EXCEPT ![f] = "partial"] /\ GoTo(u, "write")
     /\ UNCHANGED <<shop, file, doomed>>

WriteInPlace(u) ==
  /\ upload[u].step = "write"
  /\ object' = [object EXCEPT ![upload[u].file] = u] /\ GoTo(u, "save")
  /\ UNCHANGED <<shop, file, doomed>>

\* The row is updated by its id, if it is still there.
Save(u) ==
  /\ upload[u].step = "save"
  /\ file' = [file EXCEPT ![upload[u].file] = IF @ = "deleted" THEN @ ELSE "PASS"]
  /\ upload' = [upload EXCEPT ![u] = Idle]
  /\ UNCHANGED <<shop, object, doomed>>

\* Writing the object or the row failed: the object is removed again.
Undo(u) ==
  /\ upload[u].step \in {"write", "save"}
  /\ object' = [object EXCEPT ![upload[u].file] = None]
  /\ upload' = [upload EXCEPT ![u] = Idle]
  /\ UNCHANGED <<shop, file, doomed>>

\* Nothing is published, an object is there already, or the server dies.
EndUpload(u) ==
  /\ upload[u] # Idle
  /\ upload' = [upload EXCEPT ![u] = Idle]
  /\ UNCHANGED <<shop, file, object, doomed>>

-----------------------------------------------------------------------------
CategoryStep ==
  \/ \E level \in {1, 2}, parent \in Rows \cup {0}, name \in Names :
       CreateCategory(level, parent, name)
  \/ \E r \in Rows : \/ DeleteCategory(r)
                     \/ \E name \in Names, status \in {"ENABLED", "DISABLED"} :
                          UpdateCategory(r, name, status)

ProductStep ==
  \/ \E p \in Products, r \in Rows, fs \in SUBSET Files :
       CreateProduct(p, r, fs) \/ UpdateProduct(p, r, fs)
  \/ \E p \in Products : DeleteProduct(p)
  \/ \E f \in Files : RemoveObject(f) \/ ForgetObject(f)

UploadStep ==
  \/ \E f \in Files : Presign(f) \/ \E u \in Uploads : BeginUpload(u, f)
  \/ \E u \in Uploads : Publish(u) \/ WriteInPlace(u) \/ Save(u) \/ Undo(u) \/ EndUpload(u)

Next == CategoryStep \/ ProductStep \/ UploadStep

Spec == Init /\ [][Next]_vars

-----------------------------------------------------------------------------
(* Properties. *)

TypeOK ==
  /\ category \in [Rows -> [status : {"absent", "ENABLED", "DISABLED", "deleted"}, level : 0..2,
                            parent : Rows \cup {0}, name : Names \cup {None}]]
  /\ product \in [Products -> [status : {"absent", "live", "deleted"}, category : Rows \cup {0},
                               images : SUBSET Files]]
  /\ file \in [Files -> {"absent", "PENDING", "PASS", "deleted"}]
  /\ object \in [Files -> Uploads \cup {None, "partial"}]
  /\ upload \in [Uploads -> [step : {"idle", "publish", "write", "save"}, file : Files \cup {None}]]
  /\ doomed \subseteq {f \in Files : file[f] = "deleted"}

\* A row that says PASS has a whole object, however uploads of the same file overlap, fail or
\* die and whatever is deleted meanwhile (handleUploadFile, PublishObjectNoReplace).
PassedIsWhole == \A f \in Files : file[f] = "PASS" => object[f] \in Uploads

\* An image is served with a cache header that never expires, so it does not change as long as
\* its row says PASS (handlePublicUpload).
PassedIsImmutable ==
  [][\A f \in Files : file[f] = "PASS" /\ file'[f] = "PASS" => object'[f] = object[f]]_vars

\* Deleting products leaves the images of the others alone (handleDeleteProduct).
ImagesKept == \A p \in LiveProducts : \A f \in product[p].images : file[f] = "PASS"

\* The category of a live product is there and so is the one above it (deleteOwnedCategory).
CategoriesKept ==
  \A p \in LiveProducts : LET r == product[p].category
                          IN Live(r) /\ category[r].level = 2 /\ Live(category[r].parent)

\* The design of category management forbids two categories of one name that are not deleted
\* under one parent (createOwnedCategory, updateOwnedCategory).
NamesUnique ==
  \A r, s \in Rows :
    /\ Live(r) /\ Live(s) /\ category[r].name = category[s].name
    /\ category[r].level = category[s].level /\ category[r].parent = category[s].parent
    => r = s

=============================================================================
