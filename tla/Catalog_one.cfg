SPECIFICATION Spec
CONSTANTS
    library = library
    staged = staged
    second = second
    photo = photo
    mother = mother
    sister = sister
    Unknown = Unknown
    Paths = {library, staged, second, photo}
    Media = {photo}
    Candidates <- MCCandidates
    Names <- MCNames
    NameOf <- MCNameOf
    Contacts = {mother, sister}
    Askers = {sister}
    Owner <- MCOwner
    Requests = {r1}
    Uploads = {1, 2}
    MaxVersion = 1
    MaxAborts = 1
INVARIANTS
    TypeOK
    MediaStaysPrivate
    UploadsKeepApart
PROPERTIES
    SentWithPermission
