--------------------------- MODULE CatalogueProofs ---------------------------
(***************************************************************************)
(* What Catalogue promises, for any categories, products, files and        *)
(* uploads.                                                                *)
(***************************************************************************)
EXTENDS Catalogue, TLAPS

Writing(u, f) == upload[u].file = f /\ upload[u].step \in {"write", "save"}

\* An upload that is under way has a file.
UploadsNamed ==
  \A u \in Uploads : IF upload[u].step = "idle" THEN upload[u] = Idle ELSE upload[u].file \in Files

\* The object of a row that is not deleted belongs to the one upload that put it there.
ObjectsOwned ==
  \A f \in Files : file[f] # "deleted" =>
    /\ \A u \in Uploads : Writing(u, f) =>
         object[f] = IF upload[u].step = "write" THEN "partial" ELSE u
    /\ \A u, v \in Uploads : Writing(u, f) /\ Writing(v, f) => u = v

\* Nobody writes the object of a row that says PASS.
PassedQuiet ==
  \A f \in Files : file[f] = "PASS" => object[f] \in Uploads /\ \A u \in Uploads : ~Writing(u, f)

\* Live categories are a tree of two levels.
LevelOK(r) ==
  \/ category[r].level = 1 /\ category[r].parent = 0
  \/ /\ category[r].level = 2 /\ category[r].parent \in Rows
     /\ Live(category[r].parent) /\ category[category[r].parent].level = 1

LevelsOK == \A r \in Rows : Live(r) => LevelOK(r)

\* A live product has a category at all.
ProductsPlaced == \A p \in LiveProducts : product[p].category \in Rows

MediaInv == UploadsNamed /\ ObjectsOwned /\ PassedQuiet
ShopInv  == ImagesKept /\ LevelsOK /\ ProductsPlaced /\ CategoriesKept
IInv == TypeOK /\ MediaInv /\ ShopInv

\* At the start there is nothing.
LEMMA InitInv == Init => IInv
<1> SUFFICES ASSUME Init PROVE IInv
  OBVIOUS
<1>1. TypeOK
  BY DEF Init, TypeOK, NoCategory, NoProduct, Idle
<1>2. MediaInv
  BY DEF Init, MediaInv, UploadsNamed, ObjectsOwned, PassedQuiet, Writing, Idle
<1>3. ShopInv
  BY DEF Init, ShopInv, ImagesKept, LevelsOK, LevelOK, ProductsPlaced, CategoriesKept, LiveProducts, Live,
         NoCategory, NoProduct
<1>4. QED
  BY <1>1, <1>2, <1>3 DEF IInv

-----------------------------------------------------------------------------
(* Categories. *)

\* The category of a live product, and the one above it.
LEMMA PlacedFacts ==
  ASSUME IInv, NEW p \in LiveProducts
  PROVE  /\ product[p].category \in Rows /\ Live(product[p].category)
         /\ category[product[p].category].level = 2
         /\ category[product[p].category].parent \in Rows
         /\ Live(category[product[p].category].parent)
         /\ category[category[product[p].category].parent].level = 1
<1>1. product[p].category \in Rows /\ Live(product[p].category)
      /\ category[product[p].category].level = 2
  BY DEF IInv, ShopInv, ProductsPlaced, CategoriesKept
<1>2. LevelOK(product[p].category)
  BY <1>1 DEF IInv, ShopInv, LevelsOK
<1>3. QED
  BY <1>1, <1>2 DEF LevelOK

\* The row that a creation takes is in the level and under the parent that were checked.
LEMMA CreateCategoryInv ==
  ASSUME IInv, NEW level \in {1, 2}, NEW parent \in Rows \cup {0}, NEW name \in Names,
         CreateCategory(level, parent, name)
  PROVE  IInv'
<1>1. PICK r \in Rows : \/ /\ IsFirst(r, Siblings(level, parent, name)) /\ ~Live(r)
                           /\ category' = [category EXCEPT ![r].status = "ENABLED"]
                        \/ /\ category[r].status = "absent"
                           /\ category' = [category EXCEPT ![r] =
                                [status |-> "ENABLED", level |-> level, parent |-> parent, name |-> name]]
  BY DEF CreateCategory, IsFirst
<1>2. /\ ParentPasses(level, parent) /\ UNCHANGED <<product, media>>
  BY DEF CreateCategory
<1>3. /\ \A s \in Rows \ {r} : category'[s] = category[s]
      /\ category'[r].status = "ENABLED" /\ category'[r].level = level /\ category'[r].parent = parent
      /\ ~Live(r)
  BY <1>1 DEF IInv, TypeOK, IsFirst, Siblings, Live
<1>4. TypeOK'
  BY <1>1, <1>2 DEF IInv, TypeOK, media
<1>5. MediaInv'
  BY <1>2 DEF IInv, MediaInv, UploadsNamed, ObjectsOwned, PassedQuiet, Writing, media
<1>6. \A s \in Rows : Live(s) => Live(s)' /\ category'[s] = category[s]
  BY <1>3 DEF Live
<1>7. LevelsOK'
  <2> SUFFICES ASSUME NEW s \in Rows, Live(s)' PROVE LevelOK(s)'
    BY DEF LevelsOK
  <2>1. CASE s = r
    BY <2>1, <1>2, <1>3, <1>6 DEF ParentPasses, LevelOK, Live
  <2>2. CASE s # r
    <3>1. category'[s] = category[s] /\ Live(s)
      BY <2>2, <1>3 DEF Live
    <3>2. QED
      BY <3>1, <1>6 DEF IInv, ShopInv, LevelsOK, LevelOK, Live
  <2>3. QED
    BY <2>1, <2>2
<1>8. (ImagesKept /\ ProductsPlaced /\ CategoriesKept)'
  <2>1. LiveProducts' = LiveProducts /\ product' = product /\ file' = file
    BY <1>2 DEF LiveProducts, media
  <2>2. ASSUME NEW p \in LiveProducts
        PROVE  /\ product[p].category \in Rows /\ Live(product[p].category)
               /\ category[product[p].category].level = 2
               /\ category[product[p].category].parent \in Rows
               /\ Live(category[product[p].category].parent)
    BY PlacedFacts
  <2>3. QED
    BY <2>1, <2>2, <1>6 DEF IInv, ShopInv, CategoriesKept, ProductsPlaced, ImagesKept, Live
<1>9. QED
  BY <1>4, <1>5, <1>7, <1>8 DEF IInv, ShopInv

\* A new name or status leaves the tree as it is.
LEMMA UpdateCategoryInv ==
  ASSUME IInv, NEW r \in Rows, NEW name \in Names, NEW status \in {"ENABLED", "DISABLED"},
         UpdateCategory(r, name, status)
  PROVE  IInv'
<1>1. /\ Live(r) /\ UNCHANGED <<product, media>>
      /\ category' = [category EXCEPT ![r].name = name, ![r].status = status]
  BY DEF UpdateCategory
<1>2. TypeOK'
  <2> DEFINE Row == [status : {"absent", "ENABLED", "DISABLED", "deleted"},
                     level : 0..2, parent : Rows \cup {0}, name : Names \cup {None}]
             new == [category[r] EXCEPT !.name = name, !.status = status]
  <2>1. category[r] \in Row
    BY DEF IInv, TypeOK
  <2>2. new \in Row
    BY <2>1
  <2>3. category' = [category EXCEPT ![r] = new]
    BY <1>1 DEF IInv, TypeOK
  <2>4. category' \in [Rows -> Row]
    <3> HIDE DEF Row, new
    <3>1. category \in [Rows -> Row]
      BY DEF IInv, TypeOK, Row
    <3>2. QED
      BY <2>2, <2>3, <3>1
  <2>5. QED
    BY <1>1, <2>4 DEF IInv, TypeOK, media
<1>3. MediaInv'
  BY <1>1 DEF IInv, MediaInv, UploadsNamed, ObjectsOwned, PassedQuiet, Writing, media
<1>4. \A s \in Rows : /\ Live(s)' <=> Live(s)
                      /\ category'[s].level = category[s].level
                      /\ category'[s].parent = category[s].parent
  BY <1>1 DEF IInv, TypeOK, Live
<1>5. LevelsOK'
  BY <1>4 DEF IInv, ShopInv, LevelsOK, LevelOK, Live
<1>6. (ImagesKept /\ ProductsPlaced /\ CategoriesKept)'
  <2>1. LiveProducts' = LiveProducts /\ product' = product /\ file' = file
    BY <1>1 DEF LiveProducts, media
  <2>2. ASSUME NEW p \in LiveProducts
        PROVE  /\ product[p].category \in Rows /\ Live(product[p].category)
               /\ category[product[p].category].level = 2
               /\ category[product[p].category].parent \in Rows
               /\ Live(category[product[p].category].parent)
               /\ category[category[product[p].category].parent].level = 1
    BY PlacedFacts
  <2>3. QED
    BY <2>1, <2>2, <1>4 DEF IInv, ShopInv, CategoriesKept, ProductsPlaced, ImagesKept, Live
<1>7. QED
  BY <1>2, <1>3, <1>5, <1>6 DEF IInv, ShopInv

\* A category goes with its children, and none of them has a product.
LEMMA DeleteCategoryInv ==
  ASSUME IInv, NEW r \in Rows, DeleteCategory(r)
  PROVE  IInv'
<1>1. /\ Live(r) /\ UNCHANGED <<product, media>> /\ \A s \in Deletes(r) : HasNoProducts(s)
      /\ category' = [s \in Rows |-> IF s \in Deletes(r) THEN [category[s] EXCEPT !.status = "deleted"]
                                     ELSE category[s]]
  BY DEF DeleteCategory
<1>2. TypeOK'
  <2>1. \A s \in Rows : [category[s] EXCEPT !.status = "deleted"]
          \in [status : {"absent", "ENABLED", "DISABLED", "deleted"},
               level : 0..2, parent : Rows \cup {0}, name : Names \cup {None}]
    BY DEF IInv, TypeOK
  <2>2. category' \in [Rows -> [status : {"absent", "ENABLED", "DISABLED", "deleted"},
                                level : 0..2, parent : Rows \cup {0}, name : Names \cup {None}]]
    BY <1>1, <2>1 DEF IInv, TypeOK
  <2>3. QED
    BY <1>1, <2>2 DEF IInv, TypeOK, media
<1>3. MediaInv'
  BY <1>1 DEF IInv, MediaInv, UploadsNamed, ObjectsOwned, PassedQuiet, Writing, media
<1>4. \A s \in Rows : Live(s)' => Live(s) /\ s \notin Deletes(r) /\ category'[s] = category[s]
  BY <1>1 DEF IInv, TypeOK, Live
<1>5. \A s \in Rows : Live(s) /\ s \notin Deletes(r) => Live(s)' /\ category'[s] = category[s]
  BY <1>1 DEF Live
<1>6. ASSUME NEW s \in Rows, Live(s), s \notin Deletes(r), category[s].parent \in Rows
      PROVE  category[s].parent \notin Deletes(r)
  <2>1. category[s].parent # r
    BY <1>6 DEF Deletes, Children
  <2>2. LevelOK(s)
    BY <1>6 DEF IInv, ShopInv, LevelsOK
  <2>3. category[category[s].parent].level = 1
    BY <1>6, <2>2, CatalogueAssumption DEF LevelOK
  <2>4. category[s].parent \notin Children(r)
    <3> SUFFICES ASSUME category[s].parent \in Children(r) PROVE FALSE
      OBVIOUS
    <3> DEFINE c == category[s].parent
    <3>1. c \in Rows /\ Live(c) /\ category[c].parent = r /\ r # 0
      BY CatalogueAssumption DEF Children
    <3>2. LevelOK(c)
      BY <3>1 DEF IInv, ShopInv, LevelsOK
    <3>3. category[c].level = 2
      BY <3>1, <3>2 DEF LevelOK
    <3>4. QED
      BY <3>3, <2>3
  <2>5. QED
    BY <2>1, <2>4 DEF Deletes
<1>7. LevelsOK'
  <2> SUFFICES ASSUME NEW s \in Rows, Live(s)' PROVE LevelOK(s)'
    BY DEF LevelsOK
  <2>1. Live(s) /\ s \notin Deletes(r) /\ category'[s] = category[s]
    BY <1>4
  <2>2. QED
    BY <2>1, <1>5, <1>6 DEF IInv, ShopInv, LevelsOK, LevelOK, Live
<1>8. (ImagesKept /\ ProductsPlaced /\ CategoriesKept)'
  <2>1. LiveProducts' = LiveProducts /\ product' = product /\ file' = file
    BY <1>1 DEF LiveProducts, media
  <2>2. ASSUME NEW p \in LiveProducts
        PROVE  /\ product[p].category \in Rows /\ Live(product[p].category)
               /\ category[product[p].category].level = 2
               /\ category[product[p].category].parent \in Rows
               /\ Live(category[product[p].category].parent)
               /\ category[category[product[p].category].parent].level = 1
    BY PlacedFacts
  <2>3. \A p \in LiveProducts : product[p].category \notin Deletes(r)
    BY <1>1 DEF HasNoProducts
  <2>4. QED
    BY <2>1, <2>2, <2>3, <1>5, <1>6
    DEF IInv, ShopInv, CategoriesKept, ProductsPlaced, ImagesKept, Live
<1>9. QED
  BY <1>2, <1>3, <1>7, <1>8 DEF IInv, ShopInv

-----------------------------------------------------------------------------
(* Products. *)

\* A product is created or edited to refer to what it has checked or referred to before.
LEMMA SaveProductInv ==
  ASSUME IInv, NEW p \in Products, NEW r \in Rows, NEW fs \in SUBSET Files,
         CreateProduct(p, r, fs) \/ UpdateProduct(p, r, fs)
  PROVE  IInv'
<1>1. /\ UNCHANGED <<category, media>>
      /\ product' = [product EXCEPT ![p] = product'[p]]
      /\ product'[p] = [status |-> "live", category |-> r, images |-> fs]
  BY DEF CreateProduct, UpdateProduct, IInv, TypeOK
<1>2. /\ UsableCategory(r) \/ (p \in LiveProducts /\ r = product[p].category)
      /\ UsableImages(fs) \/ (p \in LiveProducts /\ fs = product[p].images)
  BY DEF CreateProduct, UpdateProduct, LiveProducts
<1>3. TypeOK'
  BY <1>1 DEF IInv, TypeOK, media
<1>4. MediaInv'
  BY <1>1 DEF IInv, MediaInv, UploadsNamed, ObjectsOwned, PassedQuiet, Writing, media
<1>5. LevelsOK'
  BY <1>1 DEF IInv, ShopInv, LevelsOK, LevelOK, Live
<1>6. LiveProducts' = LiveProducts \cup {p} /\ \A q \in Products \ {p} : product'[q] = product[q]
  BY <1>1 DEF LiveProducts, IInv, TypeOK
<1>7. ImagesKept'
  BY <1>1, <1>2, <1>6 DEF IInv, ShopInv, ImagesKept, UsableImages, LiveProducts, media
<1>8. (ProductsPlaced /\ CategoriesKept)'
  <2>1. Live(r) /\ category[r].level = 2 /\ Live(category[r].parent)
    BY <1>2 DEF IInv, ShopInv, LevelsOK, LevelOK, ProductsPlaced, CategoriesKept, UsableCategory, Live
  <2>2. \A s : Live(s)' <=> Live(s)
    BY <1>1 DEF Live
  <2>3. QED
    BY <1>1, <1>6, <2>1, <2>2 DEF IInv, ShopInv, ProductsPlaced, CategoriesKept, LiveProducts
<1>9. QED
  BY <1>3, <1>4, <1>5, <1>7, <1>8 DEF IInv, ShopInv

\* Only files go that no other live product shows.
LEMMA DeleteProductInv ==
  ASSUME IInv, NEW p \in Products, DeleteProduct(p)
  PROVE  IInv'
<1>1. /\ product' = [product EXCEPT ![p] = [NoProduct EXCEPT !.status = "deleted"]]
      /\ file' = [f \in Files |-> IF f \in GoWith(p) THEN "deleted" ELSE file[f]]
      /\ doomed' = doomed \cup GoWith(p) /\ UNCHANGED <<category, object, upload>>
  BY DEF DeleteProduct, Doomed
<1>2. GoWith(p) \subseteq Files
  BY DEF GoWith, IInv, TypeOK
<1>3. TypeOK'
  <2>1. [NoProduct EXCEPT !.status = "deleted"]
          \in [status : {"absent", "live", "deleted"}, category : Rows \cup {0}, images : SUBSET Files]
    BY DEF NoProduct
  <2>2. QED
    BY <1>1, <1>2, <2>1 DEF IInv, TypeOK
<1>4. MediaInv'
  <2>1. UploadsNamed'
    BY <1>1 DEF IInv, MediaInv, UploadsNamed
  <2>2. \A f \in Files : file'[f] # "deleted" => file'[f] = file[f]
    BY <1>1
  <2>3. ObjectsOwned' /\ PassedQuiet'
    BY <1>1, <2>2 DEF IInv, MediaInv, ObjectsOwned, PassedQuiet, Writing
  <2>4. QED
    BY <2>1, <2>3 DEF MediaInv
<1>5. LiveProducts' = LiveProducts \ {p} /\ \A q \in LiveProducts \ {p} : product'[q] = product[q]
  BY <1>1 DEF LiveProducts, NoProduct, IInv, TypeOK
<1>6. ImagesKept'
  BY <1>1, <1>5 DEF IInv, ShopInv, ImagesKept, GoWith, LiveProducts, TypeOK
<1>7. (LevelsOK /\ ProductsPlaced /\ CategoriesKept)'
  BY <1>1, <1>5 DEF IInv, ShopInv, LevelsOK, LevelOK, ProductsPlaced, CategoriesKept, Live
<1>8. QED
  BY <1>3, <1>4, <1>6, <1>7 DEF IInv, ShopInv

\* The objects removed afterwards are those of deleted rows.
LEMMA RemoveObjectInv ==
  ASSUME IInv, NEW f \in Files, RemoveObject(f) \/ ForgetObject(f)
  PROVE  IInv'
<1>1. /\ file[f] = "deleted" /\ doomed' = doomed \ {f} /\ UNCHANGED <<shop, file, upload>>
      /\ object' = object \/ object' = [object EXCEPT ![f] = None]
  BY DEF RemoveObject, ForgetObject, IInv, TypeOK
<1>2. TypeOK'
  BY <1>1 DEF IInv, TypeOK, shop
<1>3. MediaInv'
  BY <1>1 DEF IInv, TypeOK, MediaInv, UploadsNamed, ObjectsOwned, PassedQuiet, Writing
<1>4. ShopInv'
  BY <1>1 DEF IInv, ShopInv, ImagesKept, LevelsOK, LevelOK, ProductsPlaced, CategoriesKept,
              LiveProducts, Live, shop
<1>5. QED
  BY <1>2, <1>3, <1>4 DEF IInv

-----------------------------------------------------------------------------
(* Uploads. *)

\* What products refer to is untouched by a step that keeps every row that says PASS.
LEMMA ShopKept ==
  ASSUME IInv, UNCHANGED shop, \A f \in Files : file[f] = "PASS" => file'[f] = "PASS"
  PROVE  ShopInv'
BY DEF IInv, TypeOK, ShopInv, ImagesKept, LevelsOK, LevelOK, ProductsPlaced, CategoriesKept,
       LiveProducts, Live, shop

\* A row appears, and an upload looks at it.
LEMMA BeginInv ==
  ASSUME IInv, NEW f \in Files, Presign(f) \/ \E u \in Uploads : BeginUpload(u, f)
  PROVE  IInv'
<1>1. CASE Presign(f)
  <2>1. /\ file' = [file EXCEPT ![f] = "PENDING"] /\ file[f] = "absent"
        /\ UNCHANGED <<shop, object, upload, doomed>>
    BY <1>1 DEF Presign
  <2>2. TypeOK'
    BY <2>1 DEF IInv, TypeOK, shop
  <2>3. MediaInv'
    BY <2>1 DEF IInv, TypeOK, MediaInv, UploadsNamed, ObjectsOwned, PassedQuiet, Writing
  <2>4. ShopInv'
    BY <2>1, ShopKept DEF IInv, TypeOK
  <2>5. QED
    BY <2>2, <2>3, <2>4 DEF IInv
<1>2. ASSUME NEW u \in Uploads, BeginUpload(u, f) PROVE IInv'
  <2>1. /\ upload' = [upload EXCEPT ![u] = [step |-> "publish", file |-> f]]
        /\ UNCHANGED <<shop, file, object, doomed>>
    BY <1>2 DEF BeginUpload
  <2>2. TypeOK'
    BY <2>1 DEF IInv, TypeOK, shop
  <2>3. MediaInv'
    BY <2>1 DEF IInv, TypeOK, MediaInv, UploadsNamed, ObjectsOwned, PassedQuiet, Writing
  <2>4. ShopInv'
    BY <2>1, ShopKept DEF IInv, TypeOK
  <2>5. QED
    BY <2>2, <2>3, <2>4 DEF IInv
<1>3. QED
  BY <1>1, <1>2

\* An object is put where there was none, so nobody else was writing there.
LEMMA PublishInv ==
  ASSUME IInv, NEW u \in Uploads, Publish(u)
  PROVE  IInv'
<1> DEFINE f == upload[u].file
<1>1. PICK step \in {"write", "save"} :
        /\ object' = [object EXCEPT ![f] = IF step = "write" THEN "partial" ELSE u]
        /\ upload' = [upload EXCEPT ![u].step = step]
        /\ UNCHANGED <<shop, file, doomed>> /\ object[f] = None /\ upload[u].step = "publish"
  BY DEF Publish, GoTo, MayPublish
<1>2. f \in Files
  BY <1>1 DEF IInv, MediaInv, UploadsNamed
<1>3. TypeOK'
  BY <1>1, <1>2 DEF IInv, TypeOK, shop
<1>4. /\ \A v \in Uploads \ {u}, g \in Files : Writing(v, g)' <=> Writing(v, g)
      /\ \A g \in Files : Writing(u, g)' <=> g = f
      /\ \A v \in Uploads \ {u} : upload'[v] = upload[v]
      /\ upload'[u].step = step /\ upload'[u].file = f
  BY <1>1, <1>2 DEF IInv, TypeOK, Writing
<1>5. file[f] # "deleted" => \A v \in Uploads : ~Writing(v, f)
  BY <1>1, <1>2, CatalogueAssumption DEF IInv, MediaInv, ObjectsOwned
<1>6. UploadsNamed'
  BY <1>1, <1>2, <1>4 DEF IInv, MediaInv, UploadsNamed, TypeOK
<1>7. ObjectsOwned'
  <2> SUFFICES ASSUME NEW g \in Files, file'[g] # "deleted"
               PROVE  /\ \A v \in Uploads : Writing(v, g)' =>
                           object'[g] = IF upload'[v].step = "write" THEN "partial" ELSE v
                      /\ \A v, w \in Uploads : Writing(v, g)' /\ Writing(w, g)' => v = w
    BY DEF ObjectsOwned, Writing
  <2>1. CASE g = f
    BY <2>1, <1>1, <1>2, <1>4, <1>5 DEF IInv, TypeOK
  <2>2. CASE g # f
    BY <2>2, <1>1, <1>2, <1>4 DEF IInv, MediaInv, ObjectsOwned, TypeOK
  <2>3. QED
    BY <2>1, <2>2
<1>8. PassedQuiet'
  <2>1. file[f] # "PASS"
    BY <1>1, <1>2, CatalogueAssumption DEF IInv, MediaInv, PassedQuiet
  <2>2. QED
    BY <2>1, <1>1, <1>2, <1>4 DEF IInv, MediaInv, PassedQuiet, TypeOK
<1>9. ShopInv'
  BY <1>1, ShopKept
<1>10. QED
  BY <1>3, <1>6, <1>7, <1>8, <1>9 DEF IInv, MediaInv

\* The bytes are written by the upload that created the object.
LEMMA WriteInv ==
  ASSUME IInv, NEW u \in Uploads, WriteInPlace(u)
  PROVE  IInv'
<1> DEFINE f == upload[u].file
<1>1. /\ object' = [object EXCEPT ![f] = u] /\ upload' = [upload EXCEPT ![u].step = "save"]
      /\ UNCHANGED <<shop, file, doomed>> /\ upload[u].step = "write"
  BY DEF WriteInPlace, GoTo
<1>2. f \in Files /\ Writing(u, f)
  BY <1>1 DEF IInv, MediaInv, UploadsNamed, Writing
<1>3. TypeOK'
  BY <1>1, <1>2 DEF IInv, TypeOK, shop
<1>4. /\ \A v \in Uploads, g \in Files : Writing(v, g)' <=> Writing(v, g)
      /\ \A v \in Uploads \ {u} : upload'[v] = upload[v]
      /\ upload'[u].step = "save" /\ upload'[u].file = f
  BY <1>1, <1>2 DEF IInv, TypeOK, Writing
<1>5. UploadsNamed'
  BY <1>2, <1>4 DEF IInv, MediaInv, UploadsNamed
<1>6. ObjectsOwned'
  <2> SUFFICES ASSUME NEW g \in Files, file'[g] # "deleted"
               PROVE  /\ \A v \in Uploads : Writing(v, g)' =>
                           object'[g] = IF upload'[v].step = "write" THEN "partial" ELSE v
                      /\ \A v, w \in Uploads : Writing(v, g)' /\ Writing(w, g)' => v = w
    BY DEF ObjectsOwned, Writing
  <2>1. \A v, w \in Uploads : Writing(v, g)' /\ Writing(w, g)' => v = w
    BY <1>1, <1>4 DEF IInv, MediaInv, ObjectsOwned
  <2>2. CASE g = f
    BY <2>1, <2>2, <1>1, <1>2, <1>4 DEF IInv, TypeOK
  <2>3. CASE g # f
    <3>1. object'[g] = object[g] /\ file'[g] = file[g] /\ ~Writing(u, g)
      BY <2>3, <1>1 DEF IInv, TypeOK, Writing
    <3>2. QED
      BY <2>1, <3>1, <1>4 DEF IInv, MediaInv, ObjectsOwned
  <2>4. QED
    BY <2>2, <2>3
<1>7. PassedQuiet'
  <2>1. file[f] # "PASS"
    BY <1>2 DEF IInv, MediaInv, PassedQuiet
  <2>2. QED
    BY <2>1, <1>1, <1>2, <1>4 DEF IInv, MediaInv, PassedQuiet, TypeOK
<1>8. ShopInv'
  BY <1>1, ShopKept
<1>9. QED
  BY <1>3, <1>5, <1>6, <1>7, <1>8 DEF IInv, MediaInv

\* An upload ends: its row says PASS, its object is removed again, or neither.
LEMMA EndInv ==
  ASSUME IInv, NEW u \in Uploads, Save(u) \/ Undo(u) \/ EndUpload(u)
  PROVE  IInv'
<1> DEFINE f == upload[u].file
<1>1. /\ upload' = [upload EXCEPT ![u] = Idle] /\ UNCHANGED <<shop, doomed>>
      /\ upload[u] # Idle
      /\ \/ Writing(u, f) /\ upload[u].step = "save" /\ object' = object
            /\ file' = [file EXCEPT ![f] = IF @ = "deleted" THEN @ ELSE "PASS"]
         \/ Writing(u, f) /\ object' = [object EXCEPT ![f] = None] /\ file' = file
         \/ object' = object /\ file' = file
  BY DEF Save, Undo, EndUpload, Writing, Idle
<1>2. f \in Files
  BY <1>1 DEF IInv, TypeOK, MediaInv, UploadsNamed
<1>3. TypeOK'
  BY <1>1, <1>2 DEF IInv, TypeOK, shop, Idle
<1>4. /\ \A v \in Uploads, g \in Files : Writing(v, g)' <=> (Writing(v, g) /\ v # u)
      /\ \A v \in Uploads \ {u} : upload'[v] = upload[v]
      /\ upload'[u] = Idle
  BY <1>1, <1>2 DEF IInv, TypeOK, Writing, Idle
<1>5. UploadsNamed'
  BY <1>4 DEF IInv, MediaInv, UploadsNamed, Idle
<1>6. \A g \in Files : (g # f \/ ~Writing(u, f)) => object'[g] = object[g] /\ file'[g] = file[g]
  BY <1>1, <1>2 DEF IInv, TypeOK
<1>7. (file'[f] = "deleted") <=> (file[f] = "deleted")
  BY <1>1, <1>2 DEF IInv, TypeOK
<1>8. Writing(u, f) /\ file[f] # "deleted" => \A v \in Uploads \ {u} : ~Writing(v, f)
  BY <1>2 DEF IInv, MediaInv, ObjectsOwned
<1>9. ObjectsOwned'
  <2> SUFFICES ASSUME NEW g \in Files, file'[g] # "deleted"
               PROVE  /\ \A v \in Uploads : Writing(v, g)' =>
                           object'[g] = IF upload'[v].step = "write" THEN "partial" ELSE v
                      /\ \A v, w \in Uploads : Writing(v, g)' /\ Writing(w, g)' => v = w
    BY DEF ObjectsOwned, Writing
  <2>1. CASE g = f /\ Writing(u, f)
    BY <2>1, <1>4, <1>7, <1>8
  <2>2. CASE g # f \/ ~Writing(u, f)
    BY <2>2, <1>4, <1>6 DEF IInv, MediaInv, ObjectsOwned
  <2>3. QED
    BY <2>1, <2>2
<1>10. PassedQuiet'
  <2> SUFFICES ASSUME NEW g \in Files, file'[g] = "PASS"
               PROVE  object'[g] \in Uploads /\ \A v \in Uploads : ~Writing(v, g)'
    BY DEF PassedQuiet, Writing
  <2>1. CASE g # f \/ ~Writing(u, f)
    BY <2>1, <1>4, <1>6 DEF IInv, MediaInv, PassedQuiet
  <2>2. CASE g = f /\ Writing(u, f)
    <3>1. file[f] \notin {"PASS", "deleted"}
      BY <2>2, <1>2, <1>7 DEF IInv, MediaInv, PassedQuiet
    <3>2. object' = object /\ upload[u].step = "save"
      BY <2>2, <3>1, <1>1
    <3>3. object[f] = u
      BY <2>2, <3>1, <3>2, <1>2 DEF IInv, MediaInv, ObjectsOwned
    <3>4. QED
      BY <2>2, <3>1, <3>2, <3>3, <1>4, <1>8
  <2>3. QED
    BY <2>1, <2>2
<1>11. ShopInv'
  <2>1. \A g \in Files : file[g] = "PASS" => file'[g] = "PASS"
    BY <1>1, <1>2 DEF IInv, TypeOK
  <2>2. QED
    BY <2>1, <1>1, ShopKept
<1>12. QED
  BY <1>3, <1>5, <1>9, <1>10, <1>11 DEF IInv, MediaInv

-----------------------------------------------------------------------------
\* Every step keeps the invariant.
LEMMA StepInv == IInv /\ [Next]_vars => IInv'
<1> SUFFICES ASSUME IInv, [Next]_vars PROVE IInv'
  OBVIOUS
<1>1. CASE UNCHANGED vars
  BY <1>1 DEF vars, IInv, TypeOK, MediaInv, UploadsNamed, ObjectsOwned, PassedQuiet, Writing,
              ShopInv, ImagesKept, LevelsOK, LevelOK, ProductsPlaced, CategoriesKept, LiveProducts, Live
<1>2. CASE CategoryStep
  BY <1>2, CreateCategoryInv, UpdateCategoryInv, DeleteCategoryInv DEF CategoryStep
<1>3. CASE ProductStep
  BY <1>3, SaveProductInv, DeleteProductInv, RemoveObjectInv DEF ProductStep
<1>4. CASE UploadStep
  BY <1>4, BeginInv, PublishInv, WriteInv, EndInv DEF UploadStep
<1>5. QED
  BY <1>1, <1>2, <1>3, <1>4 DEF Next

\* The invariant holds in every state the server can reach.
LEMMA Invariance == Spec => []IInv
BY InitInv, StepInv, PTL DEF Spec

-----------------------------------------------------------------------------
(* What the code promises. *)

\* Every variable keeps its type, and only deleted files are to be removed (handleDeleteProduct).
THEOREM TypeCorrect == Spec => []TypeOK
BY Invariance, PTL DEF IInv

\* A row that says PASS has a whole object (handleUploadFile, PublishObjectNoReplace).
THEOREM WholeTheorem == Spec => []PassedIsWhole
<1>1. IInv => PassedIsWhole
  BY DEF IInv, MediaInv, PassedQuiet, PassedIsWhole
<1>2. QED
  BY <1>1, Invariance, PTL

\* The images of live products are there (handleDeleteProduct).
THEOREM ImagesTheorem == Spec => []ImagesKept
BY Invariance, PTL DEF IInv, ShopInv

\* The categories of live products are there, the level above included (deleteOwnedCategory).
THEOREM CategoriesTheorem == Spec => []CategoriesKept
BY Invariance, PTL DEF IInv, ShopInv

\* An object does not change as long as its row says PASS (handlePublicUpload).
THEOREM ImmutableTheorem == Spec => PassedIsImmutable
<1>1. IInv /\ [Next]_vars =>
        [\A f \in Files : file[f] = "PASS" /\ file'[f] = "PASS" => object'[f] = object[f]]_vars
  <2> SUFFICES ASSUME IInv, Next, NEW f \in Files, file[f] = "PASS", file'[f] = "PASS"
               PROVE  object'[f] = object[f]
    OBVIOUS
  <2>1. /\ object[f] \in Uploads /\ \A u \in Uploads : ~Writing(u, f)
        /\ f \notin doomed /\ object \in [Files -> Uploads \cup {None, "partial"}]
    BY DEF IInv, TypeOK, MediaInv, PassedQuiet
  <2>2. CASE CategoryStep
    BY <2>2 DEF CategoryStep, CreateCategory, UpdateCategory, DeleteCategory, media
  <2>3. CASE ProductStep
    BY <2>1, <2>3 DEF ProductStep, CreateProduct, UpdateProduct, DeleteProduct, RemoveObject,
                      ForgetObject, media
  <2>4. CASE UploadStep
    BY <2>1, <2>4, CatalogueAssumption
    DEF UploadStep, Presign, BeginUpload, Publish, MayPublish, WriteInPlace, Save, Undo, EndUpload,
        Writing
  <2>5. QED
    BY <2>2, <2>3, <2>4 DEF Next
<1>2. QED
  BY <1>1, Invariance, PTL DEF Spec, PassedIsImmutable

=============================================================================
