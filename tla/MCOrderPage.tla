---------------------------- MODULE MCOrderPage ----------------------------
EXTENDS OrderPage
CONSTANTS acme, bolt, cove, acmeFood, boltFood, shop1, shop2
MCCompanyOf == [b \in Brand |-> IF b = boltFood THEN bolt ELSE acme]
MCBrandOf == [s \in Branch |-> IF s = shop1 THEN acmeFood ELSE boltFood]
=============================================================================
