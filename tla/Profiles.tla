------------------------------ MODULE Profiles ------------------------------
(***************************************************************************)
(* The delivery profile of one account, from the requests that fill it to  *)
(* the orders that copy it: ValidationService, UserData and the two        *)
(* handlers that place an order.  "street" stands for city, street, house  *)
(* and postal code, which are required together, "name" for both names.    *)
(***************************************************************************)
EXTENDS FiniteSets

CONSTANTS Streets, Flats,   \* texts that validation accepts
          Null,
          Deliveries        \* orders of the account

\* Texts that are blank or too long, and phones: seven blanks, a number
\* without +7, and +7 with ten digits match PHONE.
BadTexts == {"blank", "long"}
Phones == {"blanks", "local", "russian"}

\* An address as a request carries it, and the whole ones among them.
Address == [street : Streets \cup BadTexts \cup {Null},
            flat : Flats \cup BadTexts \cup {Null}]
NoAddress == [street |-> Null, flat |-> Null]

VARIABLES profile,      \* the delivery columns of users
          sent,         \* history: the addresses of requests that were accepted
          delivery      \* store_orders.delivery_details

profileVars == <<profile, sent, delivery>>

NoProfile == [name |-> Null, phone |-> Null, address |-> NoAddress]

ProfilesInit ==
    /\ profile = NoProfile
    /\ sent = {}
    /\ delivery = [o \in Deliveries |-> NoProfile]

-----------------------------------------------------------------------------
(* ValidationService: what each field has to be. *)

OptionalText(text, texts) == text \in texts \cup {Null}
ValidPhone(phone) == phone \in Phones \cup {Null}
ValidAddress(a) == a.street \in Streets /\ OptionalText(a.flat, Flats)

\* A request: its name, phone and address fields.  Absent is an address that
\* the JSON does not mention, NoAddress one that is null.
Absent == [street |-> "absent", flat |-> Null]
ProfileRequest == [name : {"given", "blank", Null}, phone : Phones \cup {"letters", Null},
                   address : Address \cup {Absent}]

ValidProfile(r) ==
    /\ OptionalText(r.name, {"given"})
    /\ ValidPhone(r.phone)
    /\ r.address \in {Absent, NoAddress} \/ ValidAddress(r.address)

\* user_update also refuses a request that changes nothing.
ValidUpdate(r) ==
    /\ ValidProfile(r)
    /\ {r.name, r.phone} # {Null} \/ r.address # Absent

\* admin_update takes the whole profile.
ValidEdit(r) == ValidProfile(r) /\ r.address # Absent

-----------------------------------------------------------------------------
(* UserData *)

Stored(r) == [name |-> r.name, phone |-> r.phone,
              address |-> IF r.address = Absent THEN NoAddress ELSE r.address]

Coalesce(new, old) == IF new = Null THEN old ELSE new

\* Mutant: a flat that the request does not give keeps its value.
MergedFlat(r) ==
    [name |-> Coalesce(r.name, profile.name), phone |-> Coalesce(r.phone, profile.phone),
     address |-> IF r.address = Absent THEN profile.address
                 ELSE [r.address EXCEPT !.flat = Coalesce(@, profile.address.flat)]]

\* update_user: names and phone change if given, an address replaces all of it.
Merged(r) ==
    [name |-> Coalesce(r.name, profile.name), phone |-> Coalesce(r.phone, profile.phone),
     address |-> IF r.address = Absent THEN profile.address ELSE r.address]

Save(row, r) ==
    /\ profile' = row
    /\ sent' = sent \cup {r.address}
    /\ UNCHANGED delivery

Register(r) ==
    /\ ValidProfile(r)
    /\ sent = {}
    /\ Save(Stored(r), r)

UpdateUser(r) == ValidUpdate(r) /\ Save(Merged(r), r)

EditProfile(r) == ValidEdit(r) /\ Save(Stored(r), r)

-----------------------------------------------------------------------------
(* Orders *)

\* missing_order_profile_fields: NULL or blank.
Complete(row) == /\ row.name # Null
                 /\ row.phone \notin {Null, "blanks"}
                 /\ row.address.street # Null

\* CommerceOrderService.place asks for +7 as well, OrderData.place_draft does not.
Place(o, kind) ==
    /\ delivery[o] = NoProfile
    /\ Complete(profile)
    /\ kind = "MIXED" => profile.phone = "russian"
    /\ delivery' = [delivery EXCEPT ![o] = profile]
    /\ UNCHANGED <<profile, sent>>

-----------------------------------------------------------------------------
\* An order goes to an address that is whole and was sent as such: neither
\* partial updates nor edits make one out of two.
DeliveryIsOneAddress ==
    \A o \in Deliveries : delivery[o] # NoProfile =>
        /\ ValidAddress(delivery[o].address)
        /\ delivery[o].address \in sent

=============================================================================
