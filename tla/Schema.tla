------------------------------- MODULE Schema -------------------------------
(***************************************************************************)
(* The types of the GraphQL API, as the code generated for them            *)
(* (pkg/api/v2/graphql/generated/generated.go) treats them.                *)
(*                                                                         *)
(* The generated file has one function per field (_Tag_category) with a    *)
(* companion that parses the arguments (fieldContext_Tag_category), all    *)
(* from one template.  A field is therefore a record of what differs       *)
(* between them: the type it is marshalled as, whether that is a list,     *)
(* whether null is allowed (marshalO... against marshalN...), and whether  *)
(* the value is read from the parent or computed by a resolver.            *)
(*                                                                         *)
(* The introspection fields (__schema, __type), which answer from the      *)
(* parsed schema alone, are left out.                                      *)
(***************************************************************************)
EXTENDS TLC

\* A field read from the parent object, and one computed by a resolver.
Value(type)    == [type |-> type, via |-> "value",    list |-> FALSE, null |-> FALSE]
Resolver(type) == [type |-> type, via |-> "resolver", list |-> FALSE, null |-> FALSE]

\* [T!]!, and a T that may be null.
ListOf(field)   == [field EXCEPT !.list = TRUE]
Nullable(field) == [field EXCEPT !.null = TRUE]

-----------------------------------------------------------------------------
(* The object types. *)

CollectionFields ==
    [id |-> Value("ID"), name |-> Value("String"), userID |-> Value("ID"),
     records |-> ListOf(Resolver("QRRecord"))]

NotificationFields == [type |-> Value("NotificationType")]

QRRecordFields ==
    [id |-> Value("ID"), tea |-> Value("Tea"), bowlingTemp |-> Value("Int"),
     expirationDate |-> Value("Date")]

SessionFields == [token |-> Value("String"), expiredAt |-> Value("Date")]

TagFields ==
    [id |-> Value("ID"), name |-> Value("String"), color |-> Value("String"),
     category |-> Resolver("TagCategory")]

TagCategoryFields ==
    [id |-> Value("ID"), name |-> Value("String"), tags |-> ListOf(Resolver("Tag"))]

TeaFields ==
    [id |-> Value("ID"), name |-> Value("String"), type |-> Value("Type"),
     description |-> Value("String"), tags |-> ListOf(Resolver("Tag"))]

TeaOfTheDayFields == [tea |-> Value("QRRecord"), date |-> Value("Date")]

UserFields ==
    [tokenExpiredAt |-> Value("Date"), collections |-> ListOf(Resolver("Collection")),
     notifications |-> ListOf(Resolver("Notification"))]

-----------------------------------------------------------------------------
(* Query. *)

TeaQueries ==
    [me |-> Nullable(Resolver("User")), teas |-> ListOf(Resolver("Tea"))]

TeaByIdQueries ==
    [tea |-> Nullable(Resolver("Tea")), generateDescription |-> Resolver("String")]

RecordQueries ==
    [qrRecord |-> Nullable(Resolver("QRRecord")), tag |-> Nullable(Resolver("Tag"))]

CatalogueQueries ==
    [tagsCategories |-> ListOf(Resolver("TagCategory")),
     collections |-> ListOf(Resolver("Collection")),
     teaOfTheDay |-> Nullable(Resolver("TeaOfTheDay"))]

Query == TeaQueries @@ TeaByIdQueries @@ RecordQueries @@ CatalogueQueries

-----------------------------------------------------------------------------
(* Mutation. *)

LoginMutation == [authApple |-> Resolver("Session")]

TeaMutations == [newTea |-> Resolver("Tea"), updateTea |-> Resolver("Tea")]

TeaTagMutations == [addTagToTea |-> Resolver("Tea"), deleteTagFromTea |-> Resolver("Tea")]

RecordMutations == [deleteTea |-> Resolver("ID"), writeToQR |-> Resolver("QRRecord")]

CategoryMutations ==
    [createTagCategory |-> Resolver("TagCategory"),
     updateTagCategory |-> Resolver("TagCategory"), deleteTagCategory |-> Resolver("ID")]

TagMutations == [createTag |-> Resolver("Tag"), updateTag |-> Resolver("Tag")]

TagMoveMutations == [changeTagCategory |-> Resolver("Tag"), deleteTag |-> Resolver("ID")]

CollectionMutations ==
    [createCollection |-> Resolver("Collection"),
     addRecordsToCollection |-> Resolver("Collection")]

CollectionRemovals ==
    [deleteRecordsFromCollection |-> Resolver("Collection"),
     deleteCollection |-> Resolver("ID")]

OtherMutations ==
    [registerDeviceToken |-> Resolver("Boolean"), send |-> Resolver("Boolean"),
     teaRecommendation |-> Resolver("String")]

Mutation ==
    LoginMutation @@ TeaMutations @@ TeaTagMutations @@ RecordMutations
        @@ CategoryMutations @@ TagMutations @@ TagMoveMutations
        @@ CollectionMutations @@ CollectionRemovals @@ OtherMutations

-----------------------------------------------------------------------------
(* Subscription. *)

TeaEvents == [onCreateTea |-> Resolver("Tea"), onUpdateTea |-> Resolver("Tea")]

TeaAndCategoryEvents ==
    [onDeleteTea |-> Resolver("ID"), onCreateTagCategory |-> Resolver("TagCategory")]

CategoryEvents ==
    [onUpdateTagCategory |-> Resolver("TagCategory"), onDeleteTagCategory |-> Resolver("ID")]

TagEvents == [onCreateTag |-> Resolver("Tag"), onUpdateTag |-> Resolver("Tag")]

TeaTagEvents == [onDeleteTag |-> Resolver("ID"), onAddTagToTea |-> Resolver("Tea")]

DescriptionEvents ==
    [onDeleteTagFromTea |-> Resolver("Tea"), startGenerateDescription |-> Resolver("String")]

RecommendationEvents == [recommendTea |-> Resolver("String")]

Subscription ==
    TeaEvents @@ TeaAndCategoryEvents @@ CategoryEvents @@ TagEvents
        @@ TeaTagEvents @@ DescriptionEvents @@ RecommendationEvents

-----------------------------------------------------------------------------
\* The fields of every type with fields; all other types are scalars.
FieldsOf ==
    [Query |-> Query, Mutation |-> Mutation, Subscription |-> Subscription,
     Collection |-> CollectionFields, Notification |-> NotificationFields,
     QRRecord |-> QRRecordFields, Session |-> SessionFields, Tag |-> TagFields,
     TagCategory |-> TagCategoryFields, Tea |-> TeaFields,
     TeaOfTheDay |-> TeaOfTheDayFields, User |-> UserFields]

IsObject(type) == type \in DOMAIN FieldsOf

(***************************************************************************)
(* The fields with an argument that may fail to parse although the query   *)
(* is valid: an ID that is not a UUID, a Date that is not a time.  Strings,*)
(* numbers and enumerations are checked with the query.                    *)
(***************************************************************************)
MutationsWithID ==
    DOMAIN Mutation \ {"newTea", "createTagCategory", "createCollection", "send"}

QueriesWithID == {"tea", "qrRecord", "tag"}

SubscriptionsWithID == {"recommendTea"}

ParsesID(type, name) ==
    \/ type = "Mutation" /\ name \in MutationsWithID
    \/ type = "Query" /\ name \in QueriesWithID
    \/ type = "Subscription" /\ name \in SubscriptionsWithID

=============================================================================
