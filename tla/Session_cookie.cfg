CONSTANTS
    r1 = r1
    r2 = r2
    Slots = {r1, r2}
    TTL = 2
    CodecLife = 3
    Lives = {1, 4}
    MaxTime = 5
    MaxKey = 2
SPECIFICATION Spec
SYMMETRY Symmetry
INVARIANT TypeOK
INVARIANT PassesSignedIn
INVARIANT LoggedOutStays
INVARIANT SoleCookieStays
