-------------------------- MODULE MCSchemaReflection --------------------------
(***************************************************************************)
(* Schema reflection over three documents: a User with a unique indexed    *)
(* field, a foreign-key field that is not the last, a relation the code  *)
(* does not count as a key, and a Team; the User after a migration, with  *)
(* a one-to-one relation whose field is missing, capitalized types, a     *)
(* default, and an entity without a name; and a document listing User    *)
(* twice.                                                                  *)
(***************************************************************************)
EXTENDS SchemaReflection, TLC

MCLowerTable == ("UUID" :> "uuid") @@ ("Int64" :> "int64")
MCLower(s) == IF s \in DOMAIN MCLowerTable THEN MCLowerTable[s] ELSE s

Field(name, ft, req, uq, ix, dflt) ==
  [default |-> dflt, field_type |-> ft, indexed |-> ix, name |-> name,
   required |-> req, unique |-> uq]

Rel(name, type, target) == [name |-> name, target |-> target, type |-> type]

UserV1 ==
  [fields |-> << Field("id", "uuid", TRUE, TRUE, TRUE, None),
                 Field("team_id", "uuid", FALSE, FALSE, TRUE, None),
                 Field("email", "string", TRUE, TRUE, TRUE, None),
                 Field("age", "int32", FALSE, FALSE, FALSE, None) >>,
   name |-> "User",
   relations |-> << Rel("team", "many_to_one", "Team"), Rel("posts", "one_to_many", "Post") >>]

UserV2 ==
  [fields |-> << Field("id", "UUID", TRUE, TRUE, TRUE, None),
                 Field("team_id", "uuid", FALSE, FALSE, FALSE, None),
                 Field("score", "Int64", FALSE, FALSE, TRUE, "0") >>,
   name |-> "User",
   relations |-> << Rel("team", "many_to_one", "Team"), Rel("profile", "one_to_one", "Profile") >>]

Team ==
  [fields |-> << Field("id", "uuid", TRUE, TRUE, TRUE, None),
                 Field("name", "string", TRUE, FALSE, TRUE, None),
                 Field("visits", "int64", FALSE, FALSE, FALSE, None) >>,
   name |-> "Team", relations |-> <<>>]

Nameless == [fields |-> <<>>, name |-> "", relations |-> <<>>]

MCSchemas == { <<UserV1, Team>>, <<Nameless, UserV2>>, <<UserV2, UserV1>> }
=============================================================================
