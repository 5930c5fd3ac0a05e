---------------------------- MODULE MCExecution ----------------------------
(***************************************************************************)
(* Operations for TLC, each the smallest that meets one difficulty.        *)
(***************************************************************************)
EXTENDS Execution

\* The types are those of the fields' definitions.
Op(on, root, below) ==
    LET sel == {<<root[i]>> : i \in DOMAIN root} \union below
        type[s \in sel \union {<<>>}] ==
            IF s = <<>> THEN on ELSE FieldsOf[type[Front(s)]][Last(s)].type
    IN  [on |-> on, root |-> root, sel |-> sel, type |-> type]

MCOperations ==
    { \* Concurrent root fields, one of which may be null.
      Op("Query", <<"tag", "teas">>,
         {<<"tag", "category">>, <<"teas", "tags">>}),
      \* Lists in lists, and tags whose category has gone.
      Op("Query", <<"tagsCategories">>,
         {<<"tagsCategories", "tags">>, <<"tagsCategories", "tags", "category">>}),
      \* Two resolvers of one object, and the zero date below one of them.
      Op("Query", <<"me">>,
         {<<"me", "collections">>, <<"me", "notifications">>,
          <<"me", "collections", "records">>}),
      Op("Query", <<"collections">>,
         {<<"collections", "records">>, <<"collections", "records", "expirationDate">>}),
      \* Objects read from their parent, with a resolver below.
      Op("Query", <<"teaOfTheDay", "qrRecord">>,
         {<<"teaOfTheDay", "tea">>, <<"teaOfTheDay", "tea", "tea">>,
          <<"teaOfTheDay", "tea", "expirationDate">>,
          <<"teaOfTheDay", "tea", "tea", "tags">>, <<"qrRecord", "tea">>}),
      \* Mutations, one of which cannot give what is asked of its result.
      Op("Mutation", <<"createTag", "newTea", "deleteTea">>,
         {<<"createTag", "category">>, <<"newTea", "tags">>,
          <<"newTea", "tags", "category">>}),
      Op("Subscription", <<"onUpdateTea">>,
         {<<"onUpdateTea", "tags">>, <<"onUpdateTea", "tags", "category">>}),
      Op("Subscription", <<"onCreateTag">>, {<<"onCreateTag", "category">>}),
      Op("Subscription", <<"recommendTea">>, {}),
      Op("Subscription", <<"onDeleteTea", "onDeleteTag">>, {}) }

=============================================================================
